--------------------------- MODULE TaskLeaseProofs ---------------------------
(***************************************************************************)
(* Proofs that a worker outlives its lease only briefly and that a row that *)
(* nobody works on is taken up in time, for any number of workers and any   *)
(* durations.                                                               *)
(*                                                                         *)
(* OutlivesBriefly is not inductive: whether the next refresh comes in time *)
(* depends on how far the present cycle has got.  Timed relates the three   *)
(* clocks of a heartbeat (the time left of the key, the time since last_ok, *)
(* the time in the present state): the cycle under way always ends before   *)
(* last_ok is TTL old, and the key is never older than last_ok by more than *)
(* Slack.                                                                   *)
(*                                                                         *)
(* RecoveredInTime needs what every worker that is up is waiting for.  A    *)
(* key that outlives its worker is gone when the row has been alone for the *)
(* TTL; a sweep that found no orphan found a key, so it was before that,    *)
(* and the next one is at most the sweep interval and one poll away.        *)
(***************************************************************************)
EXTENDS TaskLease, TLAPS

\* The key of a worker is young enough for what the worker is doing.
Timed(w) ==
  /\ pc[w] = "starting" => timer[w] =< StartDelay /\ owner = w /\ TTL - left =< timer[w]
  /\ pc[w] = "sleeping" => timer[w] =< Refresh /\ ok[w] + (Refresh - timer[w]) + Timeout < TTL
  /\ pc[w] = "refreshing" => timer[w] =< Timeout /\ ok[w] + (Timeout - timer[w]) < TTL
  /\ answer[w] = "yes" => pc[w] = "refreshing" /\ owner = w /\ TTL - left =< timer[w]
  /\ Working(w) /\ owner = w => TTL - left =< ok[w] + Slack
  /\ Working(w) /\ owner # w => TTL + lapsed[w] =< ok[w] + Slack
  /\ owner = w => lapsed[w] = 0
  /\ ~Working(w) => lapsed[w] = 0 /\ ok[w] = 0

\* The types of what the clocks depend on.
Types ==
  /\ owner \in Worker \cup {None, Orphan} /\ left \in 0..TTL
  /\ pc \in [Worker -> {"top", "polling", "pausing", "starting", "sleeping", "refreshing", "down"}]
  /\ timer \in [Worker -> Nat] /\ ok \in [Worker -> Nat]
  /\ answer \in [Worker -> {"none", "yes", "no"}] /\ lapsed \in [Worker -> Nat]

\* The inductive invariant.
Clocks ==
  /\ Types
  /\ owner # None => left > 0
  /\ \A w \in Worker : Timed(w)

\* Durations are positive numbers.
LEMMA Durations ==
  /\ TTL \in Nat /\ Refresh \in Nat /\ Timeout \in Nat /\ StartDelay \in Nat
  /\ Sweep \in Nat /\ Poll \in Nat /\ Pause \in Nat /\ Slack \in Nat
  /\ TTL > 0 /\ Refresh > 0 /\ Timeout > 0 /\ StartDelay > 0
  /\ Refresh + Timeout < TTL /\ StartDelay < TTL
  /\ Timeout =< Slack /\ StartDelay =< Slack /\ Slack > 0
BY LeaseAssumption DEF Slack

\* Initially there is no key and nobody works.
LEMMA ClocksInit == Init => Clocks
BY Durations, LeaseAssumption DEF Init, Clocks, Types, Timed, Working

\* A step of a worker keeps the types.
LEMMA StepTypes == ASSUME Types, NEW w \in Worker, Step(w) PROVE Types'
<1>. USE Durations, LeaseAssumption DEF Types, Becomes, key
<1>1. CASE LoopTop(w)
  BY <1>1 DEF LoopTop, OrphanSweep
<1>2. CASE SweepFails(w)
  BY <1>2 DEF SweepFails, Restarts
<1>3. CASE PollEmpty(w)
  BY <1>3 DEF PollEmpty
<1>4. CASE PollOther(w)
  BY <1>4 DEF PollOther
<1>5. CASE PollFails(w)
  BY <1>5 DEF PollFails, Restarts
<1>6. CASE Resume(w)
  BY <1>6 DEF Resume
<1>7. CASE Acquire(w)
  BY <1>7 DEF Acquire
<1>8. CASE AcquireFails(w)
  BY <1>8 DEF AcquireFails, Restarts
<1>9. CASE Begin(w)
  BY <1>9 DEF Begin, Leaves, Release, Restarts
<1>10. CASE WorkEnds(w)
  BY <1>10 DEF WorkEnds, Leaves, Release, Restarts
<1>11. CASE Wake(w)
  BY <1>11 DEF Wake
<1>12. CASE RefreshArrives(w)
  BY <1>12 DEF RefreshArrives
<1>13. CASE RefreshReturns(w)
  BY <1>13 DEF RefreshReturns, Leaves, Release, Restarts
<1>14. CASE RefreshFails(w)
  BY <1>14 DEF RefreshFails, Leaves, Release, Restarts, GivesUp, WorstCycle
<1>15. CASE Crash(w)
  BY <1>15 DEF Crash, Restarts
<1>16. CASE Restart(w)
  BY <1>16 DEF Restart
<1>. QED
  BY <1>1, <1>2, <1>3, <1>4, <1>5, <1>6, <1>7, <1>8, <1>9, <1>10, <1>11, <1>12, <1>13, <1>14, <1>15, <1>16 DEF Step

\* A step of a worker keeps the clocks in step.
LEMMA StepClocks == ASSUME Clocks, NEW w \in Worker, Step(w) PROVE Clocks'
<1>1. Types /\ Types'
  BY StepTypes DEF Clocks
<1>. SUFFICES ASSUME NEW v \in Worker PROVE (owner' # None => left' > 0) /\ Timed(v)'
  BY <1>1 DEF Clocks
<1>. USE Durations, LeaseAssumption, <1>1 DEF Clocks, Types, Timed, Working, Becomes, key
<1>2. CASE LoopTop(w)
  BY <1>2 DEF LoopTop, OrphanSweep
<1>3. CASE SweepFails(w)
  BY <1>3 DEF SweepFails, Restarts
<1>4. CASE PollEmpty(w)
  BY <1>4 DEF PollEmpty
<1>5. CASE PollOther(w)
  BY <1>5 DEF PollOther
<1>6. CASE PollFails(w)
  BY <1>6 DEF PollFails, Restarts
<1>7. CASE Resume(w)
  BY <1>7 DEF Resume
<1>8. CASE Acquire(w)
  <2>1. CASE owner = None
    <3>1. /\ pc[w] = "polling" /\ owner' = w /\ left' = TTL /\ Becomes(w, "starting")
          /\ UNCHANGED <<ok, answer, lapsed>>
      BY <1>8, <2>1, Zenon DEF Acquire
    <3>2. CASE v = w
      BY <2>1, <3>1, <3>2
    <3>3. CASE v # w
      BY <2>1, <3>1, <3>3
    <3>. QED
      BY <3>2, <3>3
  <2>2. CASE owner # None
    <3>1. UNCHANGED <<owner, left, ok, answer, lapsed>> /\ Becomes(w, "top") /\ pc[w] = "polling"
      BY <1>8, <2>2, Zenon DEF Acquire
    <3>. QED
      BY <3>1
  <2>. QED
    BY <2>1, <2>2
<1>9. CASE AcquireFails(w)
  BY <1>9 DEF AcquireFails, Restarts
<1>10. CASE Begin(w)
  BY <1>10 DEF Begin, Leaves, Release, Restarts
<1>11. CASE WorkEnds(w)
  BY <1>11 DEF WorkEnds, Leaves, Release, Restarts
<1>12. CASE Wake(w)
  BY <1>12 DEF Wake
<1>13. CASE RefreshArrives(w)
  BY <1>13 DEF RefreshArrives
<1>14. CASE RefreshReturns(w)
  BY <1>14 DEF RefreshReturns, Leaves, Release, Restarts
<1>15. CASE RefreshFails(w)
  BY <1>15 DEF RefreshFails, Leaves, Release, Restarts, GivesUp, WorstCycle
<1>16. CASE Crash(w)
  BY <1>16 DEF Crash, Restarts
<1>17. CASE Restart(w)
  BY <1>17 DEF Restart
<1>. QED
  BY <1>2, <1>3, <1>4, <1>5, <1>6, <1>7, <1>8, <1>9, <1>10, <1>11, <1>12, <1>13, <1>14, <1>15, <1>16, <1>17, Zenon DEF Step

\* The passing of time keeps the clocks in step.
LEMMA TickClocks == ASSUME Clocks, Tick PROVE Clocks'
<1>1. Types'
  BY Durations, LeaseAssumption DEF Clocks, Types, Tick, Count, Working
<1>2. owner' # None => left' > 0
  BY Durations, LeaseAssumption DEF Clocks, Types, Tick
<1>3. ASSUME NEW v \in Worker PROVE Timed(v)'
  BY <1>1, Durations, LeaseAssumption DEF Clocks, Types, Tick, Timed, Working, Limit
<1>. QED
  BY <1>1, <1>2, <1>3 DEF Clocks

\* For any number of workers and any durations for which a refresh cycle and a start fit into
\* the TTL, a worker whose key has expired stops within the longer of the refresh timeout and
\* the start delay (_heartbeat's test against worst_cycle).
THEOREM WorkOutlivesLeaseBriefly == Spec => []OutlivesBriefly
<1>1. Init => Clocks
  BY ClocksInit
<1>2. Clocks /\ [Next]_vars => Clocks'
  <2>1. CASE UNCHANGED vars
    BY <2>1 DEF vars, key, Clocks, Types, Timed, Working
  <2>. QED
    BY <2>1, StepClocks, TickClocks DEF Next
<1>3. Clocks => OutlivesBriefly
  BY Durations DEF Clocks, Types, Timed, Working, OutlivesBriefly
<1>. QED
  BY <1>1, <1>2, <1>3, PTL DEF Spec

-----------------------------------------------------------------------------
\* How long nobody has worked on the row, for what a worker that could take it up is doing.
Watched(w) ==
  /\ pc[w] = "pausing" => unattended =< timer[w]
  /\ (pc[w] = "top" \/ (pc[w] = "polling" /\ ~entry)) /\ swept[w] < Sweep => unattended < TTL + swept[w]
  /\ pc[w] = "polling" /\ ~entry /\ swept[w] = Sweep => unattended < TTL + Sweep + timer[w]

\* The types of what the recovery adds.
Flags ==
  /\ running \in BOOLEAN /\ entry \in BOOLEAN
  /\ swept \in [Worker -> 0..Sweep] /\ unattended \in 0..RecoveryMax

\* The inductive invariant for the recovery.
Recovery ==
  /\ Flags /\ unattended < RecoveryMax
  /\ \E w \in Worker : pc[w] # "down"
  /\ \A w \in Worker : pc[w] = "down" => swept[w] = Sweep
  /\ ~running => unattended = 0
  /\ ~Attended => /\ owner # None => unattended + left =< TTL
                  /\ \A w \in Worker : Watched(w)

\* The bound on the recovery is a number, and longer than any single wait.
LEMMA RecoveryMaxInNat ==
  /\ RecoveryMax \in Nat /\ RecoveryMax = TTL + Sweep + Poll
  /\ Sweep > 0 /\ Poll > 0 /\ Pause > 0 /\ Pause < TTL
BY LeaseAssumption DEF RecoveryMax

\* A step of a worker keeps the types of the recovery.
LEMMA StepFlags == ASSUME Types, Flags, NEW w \in Worker, Step(w) PROVE Flags'
<1>. USE Durations, RecoveryMaxInNat DEF Flags, Types, Restarts, Becomes
<1>1. CASE LoopTop(w)
  BY <1>1 DEF LoopTop, OrphanSweep
<1>2. CASE SweepFails(w)
  BY <1>2 DEF SweepFails
<1>3. CASE PollEmpty(w) \/ PollOther(w) \/ Resume(w)
  BY <1>3 DEF PollEmpty, PollOther, Resume
<1>4. CASE PollFails(w)
  <2>1. entry' \in BOOLEAN
    BY <1>4, Zenon DEF PollFails
  <2>. QED
    BY <1>4, <2>1 DEF PollFails
<1>5. CASE Acquire(w)
  BY <1>5, Zenon DEF Acquire
<1>6. CASE AcquireFails(w)
  BY <1>6 DEF AcquireFails
<1>7. CASE Begin(w) \/ RefreshReturns(w) \/ RefreshFails(w)
  BY <1>7 DEF Begin, RefreshReturns, RefreshFails, Leaves
<1>8. CASE WorkEnds(w)
  <2>1. running' \in BOOLEAN
    BY <1>8, Zenon DEF WorkEnds
  <2>. QED
    BY <1>8, <2>1 DEF WorkEnds, Leaves
<1>9. CASE Wake(w) \/ RefreshArrives(w) \/ Restart(w)
  BY <1>9 DEF Wake, RefreshArrives, Restart
<1>10. CASE Crash(w)
  <2>1. entry' \in BOOLEAN
    BY <1>10, Zenon DEF Crash
  <2>2. unattended' = 0 \/ unattended' = unattended
    BY <1>10, Zenon DEF Crash
  <2>. QED
    BY <1>10, <2>1, <2>2 DEF Crash
<1>. QED
  BY <1>1, <1>2, <1>3, <1>4, <1>5, <1>6, <1>7, <1>8, <1>9, <1>10 DEF Step

\* After a step of a worker some worker is up, and one that is down will begin with a sweep.
LEMMA StepUp ==
  ASSUME Types, Flags, NEW w \in Worker, Step(w),
         \E v \in Worker : pc[v] # "down", \A v \in Worker : pc[v] = "down" => swept[v] = Sweep
  PROVE  /\ \E v \in Worker : pc'[v] # "down"
         /\ \A v \in Worker : pc'[v] = "down" => swept'[v] = Sweep
<1>. USE Durations, RecoveryMaxInNat DEF Flags, Types, Becomes
<1>1. CASE Crash(w)
  BY <1>1 DEF Crash
<1>2. CASE RefreshArrives(w)
  BY <1>2 DEF RefreshArrives
<1>3. ASSUME ~Crash(w), ~RefreshArrives(w)
      PROVE  /\ \E s \in {"top", "polling", "pausing", "starting", "sleeping", "refreshing"} :
                  pc' = [pc EXCEPT ![w] = s]
             /\ \E n \in {0, swept[w]} : swept' = [swept EXCEPT ![w] = n]
  <2>1. CASE LoopTop(w) \/ SweepFails(w)
    BY <2>1 DEF LoopTop, OrphanSweep, SweepFails
  <2>2. CASE PollEmpty(w) \/ PollOther(w) \/ PollFails(w) \/ Resume(w)
    BY <2>2 DEF PollEmpty, PollOther, PollFails, Resume
  <2>3. CASE Acquire(w) \/ AcquireFails(w) \/ Wake(w) \/ Restart(w)
    BY <2>3 DEF Acquire, AcquireFails, Wake, Restart
  <2>4. CASE Begin(w) \/ WorkEnds(w) \/ RefreshReturns(w) \/ RefreshFails(w)
    BY <2>4, Zenon DEF Begin, WorkEnds, RefreshReturns, RefreshFails, Leaves
  <2>. QED
    BY <1>3, <2>1, <2>2, <2>3, <2>4, Zenon DEF Step
<1>4. ASSUME ~Crash(w), ~RefreshArrives(w)
      PROVE  /\ pc'[w] # "down"
             /\ \A v \in Worker \ {w} : pc'[v] = pc[v] /\ swept'[v] = swept[v]
  BY <1>3, <1>4
<1>. QED
  BY <1>1, <1>2, <1>4

\* A step that restarts the clock keeps the bounds.
LEMMA FreshRecovery ==
  ASSUME Types', Flags', unattended' = 0, (\E v \in Worker : pc[v] # "down")',
         (\A v \in Worker : pc[v] = "down" => swept[v] = Sweep)'
  PROVE  Recovery'
<1>1. ASSUME NEW v \in Worker PROVE Watched(v)'
  BY Durations, RecoveryMaxInNat DEF Types, Flags, Watched
<1>2. unattended' < RecoveryMax
  BY Durations, RecoveryMaxInNat
<1>3. unattended' + left' =< TTL
  <2>1. left' \in 0..TTL
    BY DEF Types
  <2>2. \A n \in 0..TTL : 0 + n =< TTL
    BY Durations
  <2>. QED
    BY <2>1, <2>2, Zenon
<1>. QED
  BY <1>1, <1>2, <1>3 DEF Recovery

\* A step of a worker keeps the bounds on the recovery.
LEMMA StepRecovery == ASSUME Clocks, Recovery, NEW w \in Worker, Step(w) PROVE Recovery'
<1>1. /\ Types /\ Types' /\ Flags /\ Flags'
      /\ (\E v \in Worker : pc[v] # "down")' /\ (\A v \in Worker : pc[v] = "down" => swept[v] = Sweep)'
  BY StepTypes, StepFlags, StepUp DEF Clocks, Recovery
<1>2. CASE unattended' = 0
  BY <1>1, <1>2, FreshRecovery
<1>3. ASSUME unattended' # 0, ~Attended'
      PROVE  /\ owner' # None => unattended' + left' =< TTL
             /\ \A v \in Worker : Watched(v)'
  <2>. USE <1>1, Durations, RecoveryMaxInNat
  <2>1. CASE LoopTop(w) \/ PollEmpty(w) \/ PollOther(w) \/ Resume(w) \/ Restart(w) \/ Crash(w)
    <3>1. /\ UNCHANGED <<owner, left, running, unattended>>
          /\ pc[w] \in {"top", "polling", "pausing", "down"} \/ unattended' = 0
          /\ \E s \in {"top", "polling", "down"} : pc' = [pc EXCEPT ![w] = s]
          /\ timer' = [timer EXCEPT ![w] = 0]
      <4>1. CASE LoopTop(w) \/ PollEmpty(w) \/ PollOther(w) \/ Resume(w) \/ Restart(w)
        BY <4>1, Zenon DEF LoopTop, PollEmpty, PollOther, Resume, Restart, Becomes, key
      <4>2. CASE Crash(w)
        BY <4>2, <1>3, Zenon DEF Crash, Becomes, Restarts, key
      <4>. QED
        BY <2>1, <4>1, <4>2
    <3>2. ~Attended
      BY <1>3, <3>1 DEF Attended, Working, Types
    <3>3. /\ running /\ (owner # None => unattended + left =< TTL)
          /\ \A v \in Worker : Watched(v)
      BY <1>3, <3>1, <3>2 DEF Recovery
    <3>4. ASSUME NEW v \in Worker PROVE Watched(v)'
      <4>. USE <3>1, <3>3, <3>4 DEF Types, Flags
      <4>1. CASE LoopTop(w) /\ swept[w] < Sweep
        <5>1. pc[w] = "top" /\ pc' = [pc EXCEPT ![w] = "polling"] /\ UNCHANGED <<swept, entry>>
          BY <4>1 DEF LoopTop, OrphanSweep, Becomes
        <5>2. CASE v = w
          BY <4>1, <5>1, <5>2 DEF Watched
        <5>3. CASE v # w
          BY <5>1, <5>3 DEF Watched
        <5>. QED
          BY <5>2, <5>3
      <4>2. CASE LoopTop(w) /\ swept[w] >= Sweep /\ owner = None
        <5>1. entry'
          BY <3>3, <4>2, Zenon DEF LoopTop, OrphanSweep
        <5>2. pc' = [pc EXCEPT ![w] = "polling"] /\ swept' = [swept EXCEPT ![w] = 0]
          BY <4>2 DEF LoopTop, OrphanSweep, Becomes
        <5>. QED
          BY <5>1, <5>2 DEF Watched
      <4>3. CASE LoopTop(w) /\ swept[w] >= Sweep /\ owner # None
        <5>1. unattended < TTL
          BY <4>3 DEF Clocks
        <5>2. pc' = [pc EXCEPT ![w] = "polling"] /\ swept' = [swept EXCEPT ![w] = 0]
          BY <4>3 DEF LoopTop, OrphanSweep, Becomes
        <5>. QED
          BY <5>1, <5>2 DEF Watched
      <4>4. CASE PollEmpty(w) \/ PollOther(w)
        <5>1. pc[w] = "polling" /\ ~entry /\ pc' = [pc EXCEPT ![w] = "top"] /\ UNCHANGED <<swept, entry>>
          BY <4>4 DEF PollEmpty, PollOther, Becomes
        <5>. QED
          BY <5>1 DEF Watched
      <4>5. CASE Resume(w)
        <5>1. /\ pc[w] = "pausing" /\ timer[w] = Pause /\ pc' = [pc EXCEPT ![w] = "top"]
              /\ UNCHANGED <<swept, entry>>
          BY <4>5 DEF Resume, Becomes
        <5>. QED
          BY <5>1 DEF Watched
      <4>6. CASE Restart(w)
        <5>1. pc' = [pc EXCEPT ![w] = "top"] /\ swept[w] = Sweep /\ UNCHANGED <<swept, entry>>
          BY <4>6 DEF Restart, Becomes, Recovery
        <5>. QED
          BY <5>1 DEF Watched
      <4>7. CASE Crash(w)
        <5>1. /\ pc' = [pc EXCEPT ![w] = "down"] /\ entry' = entry
              /\ swept' = [swept EXCEPT ![w] = Sweep]
          BY <4>7, <1>3, Zenon DEF Crash, Becomes, Restarts
        <5>. QED
          BY <5>1 DEF Watched
      <4>. QED
        BY <2>1, <4>1, <4>2, <4>3, <4>4, <4>5, <4>6, <4>7
    <3>. QED
      BY <3>1, <3>3, <3>4
  <2>2. CASE Acquire(w)
    <3>1. owner # None
      <4>1. CASE owner = None
        <5>1. pc' = [pc EXCEPT ![w] = "starting"]
          BY <2>2, <4>1 DEF Acquire, Becomes
        <5>. QED
          BY <1>3, <5>1 DEF Attended, Types
      <4>. QED
        BY <4>1
    <3>2. /\ UNCHANGED <<owner, left, running, unattended, swept>> /\ pc[w] = "polling"
          /\ pc' = [pc EXCEPT ![w] = "top"] /\ timer' = [timer EXCEPT ![w] = 0]
      BY <2>2, <3>1 DEF Acquire, Becomes, key
    <3>3. ~Attended
      BY <1>3, <3>2 DEF Attended, Working, Types
    <3>4. unattended + left =< TTL /\ (\A v \in Worker : Watched(v)) /\ left > 0
      BY <3>1, <3>3 DEF Recovery, Clocks
    <3>. QED
      BY <3>2, <3>4 DEF Watched, Types, Flags
  <2>3. CASE SweepFails(w) \/ PollFails(w) \/ AcquireFails(w)
    BY <1>3, <2>3, Zenon DEF SweepFails, PollFails, AcquireFails, Restarts
  <2>4. CASE Begin(w) \/ WorkEnds(w) \/ RefreshReturns(w) \/ RefreshFails(w)
    <3>1. pc' = [pc EXCEPT ![w] = "sleeping"]
      BY <1>3, <2>4, Zenon DEF Begin, WorkEnds, RefreshReturns, RefreshFails, Leaves, Restarts, Becomes
    <3>. QED
      BY <1>3, <3>1 DEF Attended, Working, Types
  <2>5. CASE Wake(w) \/ RefreshArrives(w)
    <3>1. pc' = [pc EXCEPT ![w] = "refreshing"]
      BY <2>5 DEF Wake, RefreshArrives, Becomes, Types
    <3>. QED
      BY <1>3, <3>1 DEF Attended, Working, Types
  <2>. QED
    BY <2>1, <2>2, <2>3, <2>4, <2>5 DEF Step
<1>4. unattended' # 0 => unattended' = unattended /\ running' /\ unattended' < RecoveryMax
  <2>. USE <1>1, Durations, RecoveryMaxInNat DEF Flags, Recovery, Restarts
  <2>1. CASE LoopTop(w) \/ PollEmpty(w) \/ PollOther(w) \/ Resume(w) \/ Acquire(w) \/ Restart(w)
             \/ Wake(w) \/ RefreshArrives(w)
    BY <2>1, Zenon DEF LoopTop, PollEmpty, PollOther, Resume, Acquire, Restart, Wake, RefreshArrives
  <2>2. CASE SweepFails(w) \/ PollFails(w) \/ AcquireFails(w) \/ Crash(w)
    BY <2>2, Zenon DEF SweepFails, PollFails, AcquireFails, Crash
  <2>3. CASE Begin(w) \/ WorkEnds(w) \/ RefreshReturns(w) \/ RefreshFails(w)
    BY <2>3, Zenon DEF Begin, WorkEnds, RefreshReturns, RefreshFails, Leaves
  <2>. QED
    BY <2>1, <2>2, <2>3, Zenon DEF Step
<1>5. CASE unattended' # 0
  BY <1>1, <1>3, <1>4, <1>5, Zenon DEF Recovery
<1>. QED
  BY <1>2, <1>5

\* The passing of time keeps the bounds on the recovery: some worker is up, and it is polling or
\* pausing, for time does not pass while it has something to do at once.
LEMMA TickRecovery == ASSUME Clocks, Recovery, Tick PROVE Recovery'
<1>1. Types /\ Types' /\ Flags
  BY TickClocks DEF Clocks, Recovery
<1>2. /\ UNCHANGED <<running, entry, pc>> /\ (Attended' <=> Attended)
      /\ swept' \in [Worker -> 0..Sweep]
      /\ \A v \in Worker : /\ swept'[v] = IF swept[v] < Sweep THEN swept[v] + 1 ELSE swept[v]
                           /\ timer'[v] = IF pc[v] = "down" THEN 0 ELSE timer[v] + 1
  BY <1>1, Durations, RecoveryMaxInNat DEF Tick, Flags, Count, Attended, Working
<1>3. CASE ~(running /\ ~Attended)
  <2>1. unattended' = 0
    BY <1>3 DEF Tick
  <2>2. Flags' /\ (\E v \in Worker : pc[v] # "down")' /\ (\A v \in Worker : pc[v] = "down" => swept[v] = Sweep)'
    BY <1>1, <1>2, <2>1, Durations, RecoveryMaxInNat DEF Flags, Recovery
  <2>. QED
    BY <1>1, <2>1, <2>2, FreshRecovery
<1>4. CASE running /\ ~Attended
  <2>1. unattended \in Nat /\ unattended < RecoveryMax /\ unattended' = unattended + 1
    BY <1>1, <1>4, RecoveryMaxInNat DEF Tick, Count, Recovery, Flags
  <2>2. PICK u \in Worker : pc[u] # "down"
    BY DEF Recovery
  <2>3. /\ Watched(u) /\ timer[u] < Limit(u) /\ timer[u] \in Nat /\ swept[u] \in 0..Sweep
        /\ pc[u] \in {"top", "polling", "pausing"}
    BY <1>1, <1>4, <2>2 DEF Recovery, Tick, Types, Flags, Attended, Working
  <2>4. unattended + 1 < RecoveryMax
    BY <2>1, <2>3, Durations, RecoveryMaxInNat DEF Watched, Limit
  <2>5. owner' # None => unattended' + left' =< TTL
    BY <1>1, <1>4, <2>1, Durations DEF Recovery, Tick, Types
  <2>6. ASSUME NEW v \in Worker PROVE Watched(v)'
    <3>1. Watched(v) /\ timer[v] < Limit(v) /\ timer[v] \in Nat /\ swept[v] \in 0..Sweep
      BY <1>1, <1>4 DEF Recovery, Tick, Types, Flags
    <3>. QED
      BY <1>2, <2>1, <3>1, Durations, RecoveryMaxInNat DEF Watched, Limit
  <2>7. \A v \in Worker : pc'[v] = "down" => swept'[v] = Sweep
    BY <1>1, <1>2, RecoveryMaxInNat DEF Recovery, Flags
  <2>. QED
    BY <1>1, <1>2, <1>4, <2>1, <2>2, <2>4, <2>5, <2>6, <2>7, RecoveryMaxInNat DEF Recovery, Flags
<1>. QED
  BY <1>3, <1>4

\* The clocks of the heartbeats and the bounds on the recovery hold in every state.
THEOREM ClocksInvariant == Spec => [](Clocks /\ Recovery)
<1>1. Init => Clocks /\ Recovery
  <2>1. Init => Recovery
    <3>1. ASSUME Init, NEW w \in Worker PROVE Watched(w) /\ pc[w] # "down"
      BY <3>1, Durations, RecoveryMaxInNat DEF Init, Watched
    <3>2. Init => Flags /\ unattended < RecoveryMax
      <4>1. Init => running \in BOOLEAN /\ entry \in BOOLEAN
        BY Zenon DEF Init
      <4>2. Init => swept \in [Worker -> 0..Sweep] /\ unattended \in 0..RecoveryMax /\ unattended < RecoveryMax
        BY Durations, RecoveryMaxInNat DEF Init
      <4>. QED
        BY <4>1, <4>2, Zenon DEF Flags
    <3>3. PICK w \in Worker : TRUE
      BY LeaseAssumption
    <3>. QED
      <4>1. ASSUME Init PROVE running /\ owner = None
        BY <4>1, Zenon DEF Init
      <4>. QED
        BY <3>1, <3>2, <3>3, <4>1, Zenon DEF Recovery
  <2>. QED
    BY <2>1, ClocksInit
<1>2. Clocks /\ Recovery /\ [Next]_vars => (Clocks /\ Recovery)'
  <2>1. CASE UNCHANGED vars
    BY <2>1 DEF vars, key, Clocks, Types, Timed, Working, Recovery, Flags, Watched, Attended
  <2>. QED
    BY <2>1, StepClocks, TickClocks, StepRecovery, TickRecovery DEF Next
<1>. QED
  BY <1>1, <1>2, PTL DEF Spec

\* For any durations with a pause shorter than the TTL, a running row that nobody works on is
\* taken up again within the TTL, the sweep interval and one poll of the last failure
\* (sweep_orphaned_tasks in the loop of the workers).
THEOREM RowIsRecoveredInTime == Spec => []RecoveredInTime
<1>1. Recovery => RecoveredInTime
  BY Zenon DEF Recovery, RecoveredInTime
<1>. QED
  BY <1>1, ClocksInvariant, PTL

\* Every variable keeps its type.
THEOREM TypeCorrect == Spec => []TypeOK
<1>1. Clocks /\ Recovery => TypeOK
  BY DEF Clocks, Types, Recovery, Flags, TypeOK
<1>. QED
  BY <1>1, ClocksInvariant, PTL
=============================================================================
