------------------------------ MODULE Projects ------------------------------
(***************************************************************************)
(* The projects of a tenant, the links of missions to them, the audit       *)
(* events of both, the rate limiter in front of the routes, and the reading *)
(* of links and projects for the town view.                                 *)
(*                                                                         *)
(* A request is one transaction under READ COMMITTED: it sees what others   *)
(* have committed, and what it writes is visible when it commits.  The      *)
(* counter of the limiter is a Redis key, with or without an expiry.        *)
(***************************************************************************)
EXTENDS Integers, FiniteSets

CONSTANTS
  Code, Mission, Request,
  MaxActive,  \* _MAX_ACTIVE_PROJECTS
  MaxCalls,   \* _RATE_LIMIT_MAX_REQUESTS
  None, Absent

ASSUME ProjectsAssumption ==
  /\ MaxActive \in Nat /\ MaxCalls \in Nat /\ IsFiniteSet(Code)
  /\ None \notin Code \cup Request /\ Absent \notin Code \cup {None}

VARIABLES
  project, \* status of a project's row, or "none"
  link,    \* the project of a mission, None, or Absent before the mission is created
  audit,   \* the kinds of audit event a project has
  lock,    \* the request that holds the advisory lock of the tenant
  calls,   \* the counter (0: no key), up to the first value that is refused
  expires, \* whether the counter has an expiry
  txn      \* the requests

db   == <<project, link, audit>>
key  == <<calls, expires>>
vars == <<db, lock, key, txn>>

\* A request: what it does, to which project and mission; refused is INCR's verdict, old the
\* link it has read, event the audit event it has added; refs are the projects a town view shows.
Idle ==
  [pc |-> "idle", op |-> "none", code |-> None, mission |-> None, refused |-> FALSE,
   old |-> None, event |-> "none", refs |-> {}]

Set(r, t) == txn' = [txn EXCEPT ![r] = t]
To(r, pc) == Set(r, [txn[r] EXCEPT !.pc = pc])

Active == {c \in Code : project[c] = "active"}

-----------------------------------------------------------------------------
Init ==
  /\ project = [c \in Code |-> "none"] /\ audit = [c \in Code |-> {}]
  /\ link = [m \in Mission |-> Absent]
  /\ lock = None /\ calls = 0 /\ expires = FALSE
  /\ txn = [r \in Request |-> Idle]

\* A call of create_project or archive_project.
CallProject(r, op, c) ==
  /\ txn[r].pc = "idle"
  /\ Set(r, [Idle EXCEPT !.pc = "incr", !.op = op, !.code = c])
  /\ UNCHANGED <<db, lock, key>>

\* A call of create_mission_route (for a new mission) or update_mission.
CallLink(r, m, c) ==
  /\ txn[r].pc = "idle"
  /\ link[m] = Absent => \A q \in Request : txn[q].mission # m
  /\ Set(r, [Idle EXCEPT !.pc = "resolve", !.op = IF link[m] = Absent THEN "mission" ELSE "link",
                         !.code = c, !.mission = m])
  /\ UNCHANGED <<db, lock, key>>

\* A call of list_agent_rooms, which has its rooms (AgentRegistry) and comes to the projects.
CallTown(r) ==
  /\ txn[r].pc = "idle"
  /\ Set(r, [Idle EXCEPT !.pc = "town", !.op = "town"])
  /\ UNCHANGED <<db, lock, key>>

\* Variant with a bug: the advisory lock is a session's and survives a rollback.
RolledBackLocked(r) == Set(r, Idle) /\ UNCHANGED <<db, lock>>

\* The transaction ends without effect, which also releases the advisory lock.
RolledBack(r) ==
  /\ Set(r, Idle)
  /\ lock' = IF lock = r THEN None ELSE lock
  /\ UNCHANGED db

-----------------------------------------------------------------------------
\* Variant with a bug: a call is counted twice.
IncrTwice(r) ==
  /\ txn[r].pc = "incr"
  /\ calls' = IF calls =< MaxCalls THEN calls + 2 ELSE calls
  /\ Set(r, [txn[r] EXCEPT !.pc = "expire", !.refused = calls' > MaxCalls])
  /\ UNCHANGED <<db, lock, expires>>

\* _enforce_rate_limit: INCR.
Incr(r) ==
  /\ txn[r].pc = "incr"
  /\ calls' = IF calls =< MaxCalls THEN calls + 1 ELSE calls
  /\ Set(r, [txn[r] EXCEPT !.pc = "expire", !.refused = calls' > MaxCalls])
  /\ UNCHANGED <<db, lock, expires>>

\* Variant with a bug: only the first call of a window sets the expiry.
SetExpiryOnce(count) == expires' = (expires \/ count = 1)

\* EXPIRE NX on whatever key there is now.
SetExpiry(count) == expires' = (count > 0)

\* EXPIRE NX, and 429 or the route's own work.
Expire(r) ==
  /\ txn[r].pc = "expire"
  /\ SetExpiry(calls)
  /\ Set(r, IF txn[r].refused THEN Idle
            ELSE [txn[r] EXCEPT !.pc = IF txn[r].op = "create" THEN "lock" ELSE "load"])
  /\ UNCHANGED <<db, lock, calls>>

\* Redis drops the key when its window is over.
KeyExpires ==
  /\ expires
  /\ calls' = 0 /\ expires' = FALSE
  /\ UNCHANGED <<db, lock, txn>>

-----------------------------------------------------------------------------
\* Variant with a bug: there is no lock.
TakeNoLock(r) == txn[r].pc = "lock" /\ To(r, "check") /\ UNCHANGED <<db, lock, key>>

\* _lock_tenant_active_project_count: wait for the advisory lock.
TakeLock(r) ==
  /\ txn[r].pc = "lock" /\ lock = None
  /\ lock' = r /\ To(r, "check")
  /\ UNCHANGED <<db, key>>

\* The duplicate code and the cap are checked: 409, or go on.
Check(r) ==
  /\ txn[r].pc = "check"
  /\ IF project[txn[r].code] # "none" \/ Cardinality(Active) >= MaxActive
       THEN RolledBack(r)
       ELSE To(r, "insert") /\ UNCHANGED <<db, lock>>
  /\ UNCHANGED key

\* Variant with a bug: the event is written in a transaction of its own.
InsertAuditsAtOnce(r) ==
  /\ txn[r].pc = "insert"
  /\ Set(r, [txn[r] EXCEPT !.pc = "commit", !.event = "created"])
  /\ audit' = [audit EXCEPT ![txn[r].code] = @ \cup {"created"}]
  /\ UNCHANGED <<project, link, lock, key>>

\* The row is inserted (409 if the code is taken by now), and the event added to the session.
Insert(r) ==
  /\ txn[r].pc = "insert"
  /\ IF project[txn[r].code] # "none"
       THEN RolledBack(r)
       ELSE Set(r, [txn[r] EXCEPT !.pc = "commit", !.event = "created"]) /\ UNCHANGED <<db, lock>>
  /\ UNCHANGED key

\* archive_project loads the row: 404, or nothing to do, or go on.
Load(r) ==
  /\ txn[r].pc = "load"
  /\ IF project[txn[r].code] = "active"
       THEN To(r, "archive") /\ UNCHANGED <<db, lock>>
       ELSE RolledBack(r)
  /\ UNCHANGED key

\* The row is updated, which waits for another update of it, and the event is added.
Archive(r) ==
  /\ txn[r].pc = "archive"
  /\ \A q \in Request \ {r} :
       ~(txn[q].op = "archive" /\ txn[q].pc = "commit" /\ txn[q].code = txn[r].code)
  /\ Set(r, [txn[r] EXCEPT !.pc = "commit", !.event = "archived"])
  /\ UNCHANGED <<db, lock, key>>

-----------------------------------------------------------------------------
\* _resolve_project_link refuses a project that is not there or archived; then the link is read.
Resolve(r) ==
  /\ txn[r].pc = "resolve"
  /\ IF txn[r].code # None => project[txn[r].code] = "active"
       THEN Set(r, [txn[r] EXCEPT !.pc = "link", !.old = link[txn[r].mission]])
            /\ UNCHANGED <<db, lock>>
       ELSE RolledBack(r)
  /\ UNCHANGED key

\* The link is inserted, updated or deleted.  It waits for another write of it, and fails if
\* the row to insert is there by now or the row to update is gone.
WriteLink(r) ==
  LET t   == txn[r]
      now == link[t.mission]
  IN
  /\ t.pc = "link"
  /\ \A q \in Request \ {r} : ~(txn[q].pc = "commit" /\ txn[q].mission = t.mission)
  /\ IF t.code # None /\ t.op = "link" /\ (t.old = None) # (now = None)
       THEN RolledBack(r)
       ELSE To(r, "commit") /\ UNCHANGED <<db, lock>>
  /\ UNCHANGED key

-----------------------------------------------------------------------------
\* The links of the missions that agents are placed at: those of their latest tasks, unless the
\* task has been over for a while.
ReadLinks(r) ==
  /\ txn[r].pc = "town"
  /\ \E placed \in SUBSET {m \in Mission : link[m] # Absent} :
       Set(r, [txn[r] EXCEPT !.pc = "projects", !.refs = {link[m] : m \in placed} \cap Code])
  /\ UNCHANGED <<db, lock, key>>

\* Variant with a bug: the archived are left out.
ListedActive(refs) == Active

\* The projects in the response: the active ones, and those that a placed agent is at.
Listed(refs) == Active \cup {c \in refs : project[c] # "none"}

\* The response has refs and Listed(refs).
ReadProjects(r) ==
  /\ txn[r].pc = "projects"
  /\ RolledBack(r)
  /\ UNCHANGED key

-----------------------------------------------------------------------------
\* The row and the event are committed together; the advisory lock is released.
Commit(r) ==
  LET t == txn[r] IN
  /\ t.pc = "commit"
  /\ project' = [c \in Code |->
       IF c # t.code \/ t.event = "none" THEN project[c]
       ELSE IF t.event = "created" THEN "active" ELSE "archived"]
  /\ audit' = [c \in Code |-> IF c = t.code /\ t.event # "none" THEN audit[c] \cup {t.event} ELSE audit[c]]
  /\ link'  = [m \in Mission |-> IF m = t.mission THEN t.code ELSE link[m]]
  /\ lock'  = IF lock = r THEN None ELSE lock
  /\ Set(r, Idle)
  /\ UNCHANGED key

\* A statement fails, or the process stops: also between INCR and EXPIRE.
RequestFails(r) ==
  /\ txn[r].pc # "idle"
  /\ RolledBack(r)
  /\ UNCHANGED key

Call(r) ==
  \/ \E op \in {"create", "archive"}, c \in Code : CallProject(r, op, c)
  \/ \E m \in Mission, c \in Code \cup {None} : CallLink(r, m, c)
  \/ CallTown(r)

Step(r) ==
  \/ Incr(r) \/ Expire(r) \/ Check(r) \/ Insert(r) \/ Load(r) \/ Resolve(r) \/ Commit(r)
  \/ ReadLinks(r) \/ ReadProjects(r)

\* The steps that wait for a lock of another transaction.
Waiting(r) == TakeLock(r) \/ Archive(r) \/ WriteLink(r)

Next ==
  \/ KeyExpires
  \/ \E r \in Request : Call(r) \/ Waiting(r) \/ Step(r) \/ RequestFails(r)

\* Requests go on, PostgreSQL serves the waiters of a lock in turn, and Redis drops expired keys.
Spec ==
  /\ Init /\ [][Next]_vars
  /\ WF_vars(KeyExpires)
  /\ \A r \in Request : WF_vars(Step(r)) /\ SF_vars(Waiting(r))

-----------------------------------------------------------------------------
\* The values each variable takes.
TypeOK ==
  /\ project \in [Code -> {"none", "active", "archived"}]
  /\ link \in [Mission -> Code \cup {None, Absent}]
  /\ audit \in [Code -> SUBSET {"created", "archived"}]
  /\ lock \in Request \cup {None} /\ calls \in 0..MaxCalls + 1 /\ expires \in BOOLEAN

\* A tenant never has more active projects than the town has lots, however many create_project
\* calls count them at once: the advisory lock serialises counting and inserting.
ActiveWithinCap == Cardinality(Active) =< MaxActive

\* The audit events of a project are of exactly the kinds of the changes that were committed: publish
\* adds them to the transaction of the change, so that a failure at any step keeps or loses both.
AuditMatchesRows ==
  \A c \in Code :
    audit[c] = CASE project[c] = "none" -> {}
                 [] project[c] = "active" -> {"created"}
                 [] OTHER -> {"created", "archived"}

\* An agent in the town view is at a project that the view has too, also when the project was
\* archived, or the mission linked elsewhere, since the links were read (_projects_summary:
\* "even archived").
ReferencedIsListed ==
  \A r \in Request : txn[r].pc = "projects" => txn[r].refs \subseteq Listed(txn[r].refs)

\* A tenant whose calls go on being refused is let in again: a request that stops between INCR
\* and EXPIRE leaves a counter that would never expire, and the next call repairs it.
RefusalEnds ==
  []<><<\E r \in Request : txn[r].refused /\ Expire(r)>>_vars => []<>(calls = 0)

\* Every request ends: whichever way a create_project call ends, it gives the advisory lock back.
RequestsEnd == \A r \in Request : txn[r].pc # "idle" ~> txn[r].pc = "idle"
=============================================================================
