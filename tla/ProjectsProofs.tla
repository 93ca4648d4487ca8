--------------------------- MODULE ProjectsProofs ---------------------------
(***************************************************************************)
(* For every set of projects, missions and requests and every cap: a        *)
(* tenant never has more active projects than the cap, and the audit events *)
(* of a project are those of its committed changes.                         *)
(*                                                                         *)
(* The argument: a request that has counted and not yet committed holds the *)
(* advisory lock, so it is alone, and the count it found still bounds the   *)
(* number of active projects, since every other commit can only lower it.   *)
(***************************************************************************)
EXTENDS Projects, FiniteSetTheorems, TLAPS

Fields == {"pc", "op", "code", "mission", "refused", "old", "event", "refs"}

\* What the proofs need of the types.
Types ==
  /\ project \in [Code -> {"none", "active", "archived"}]
  /\ audit \in [Code -> SUBSET {"created", "archived"}]
  /\ DOMAIN txn = Request /\ txn = [r \in Request |-> txn[r]]
  /\ \A r \in Request : DOMAIN txn[r] = Fields /\ txn[r].event \in {"none", "created", "archived"}

\* The request is about to commit a change of this kind.
Writes(r, event) == txn[r].pc = "commit" /\ txn[r].event = event

\* The request is to create a project and has counted the active ones.
Counted(r) == txn[r].pc = "insert" \/ Writes(r, "created")

\* A request that counts, or has counted, holds the lock; one that has counted leaves room for
\* its project; an event is pending only in a request about to commit.
Locked ==
  \A r \in Request :
    /\ (txn[r].pc = "check" \/ Counted(r)) => lock = r
    /\ Counted(r) => Cardinality(Active) < MaxActive
    /\ txn[r].pc # "commit" => txn[r].event = "none"

\* The steps of create_project and archive_project before the commit.
OnProject == {"incr", "expire", "lock", "check", "insert", "load", "archive"}

\* A request about to insert a project has not found it, and one about to archive it has.
Pending ==
  \A r \in Request :
    /\ txn[r].pc \in OnProject \/ txn[r].event # "none" => txn[r].code \in Code
    /\ Writes(r, "created") => project[txn[r].code] = "none"
    /\ txn[r].pc = "archive" \/ Writes(r, "archived") => project[txn[r].code] # "none"

\* A project that is linked, or is about to be, or has been read from a link, is stored.
Stored(c) == c \in Code => project[c] # "none"

Referred ==
  \A r \in Request :
    /\ txn[r].pc \in {"link", "commit"} => Writes(r, "created") \/ Stored(txn[r].code)
    /\ \A c \in txn[r].refs : c \in Code /\ Stored(c)

Linked == \A m \in Mission : Stored(link[m])

\* The inductive invariant is Inv /\ Linked.
Inv == Types /\ Locked /\ Pending /\ Referred /\ ActiveWithinCap /\ AuditMatchesRows
-----------------------------------------------------------------------------
\* Updating the record of one request, the only write to txn, keeps the shape of txn.
LEMMA SetType ==
  ASSUME Types, NEW r \in Request, NEW t, DOMAIN t = Fields,
         t.event \in {"none", "created", "archived"}, Set(r, t)
  PROVE  /\ DOMAIN txn' = Request /\ txn' = [q \in Request |-> txn'[q]]
         /\ txn'[r] = t /\ \A q \in Request \ {r} : txn'[q] = txn[q]
         /\ \A q \in Request : DOMAIN txn'[q] = Fields
                               /\ txn'[q].event \in {"none", "created", "archived"}
BY DEF Types, Set

\* What Locked and Pending ask of one request that is about to be in state t.
Fits(r, t) ==
  LET created  == t.pc = "commit" /\ t.event = "created"
      archived == t.pc = "commit" /\ t.event = "archived"
  IN
  /\ DOMAIN t = Fields /\ t.event \in {"none", "created", "archived"}
  /\ t.pc = "check" \/ t.pc = "insert" \/ created => lock' = r
  /\ t.pc = "insert" \/ created => Cardinality(Active) < MaxActive
  /\ t.pc # "commit" => t.event = "none"
  /\ t.pc \in OnProject \/ t.event # "none" => t.code \in Code
  /\ created => project[t.code] = "none"
  /\ t.pc = "archive" \/ archived => project[t.code] # "none"
  /\ t.pc \in {"link", "commit"} => created \/ Stored(t.code)
  /\ \A c \in t.refs : c \in Code /\ Stored(c)

\* A step of one request that commits nothing keeps the invariant, if the request's new state
\* fits and no other request loses the lock.
LEMMA Quiet ==
  ASSUME Inv, NEW r \in Request, NEW t, Set(r, t), Fits(r, t), UNCHANGED <<project, audit>>,
         \A q \in Request \ {r} : lock = q => lock' = q
  PROVE  Inv'
<1>1. /\ DOMAIN txn' = Request /\ txn' = [q \in Request |-> txn'[q]]
      /\ txn'[r] = t /\ \A q \in Request \ {r} : txn'[q] = txn[q]
      /\ \A q \in Request : DOMAIN txn'[q] = Fields
                            /\ txn'[q].event \in {"none", "created", "archived"}
  BY SetType DEF Inv, Fits
<1>2. Types'
  BY <1>1 DEF Inv, Types
<1>3. Active' = Active
  BY DEF Active
<1>4. Locked'
  BY <1>1, <1>3 DEF Inv, Locked, Counted, Writes, Fits
<1>5. Pending'
  BY <1>1 DEF Inv, Pending, Writes, Fits
<1>6. Referred'
  BY <1>1 DEF Inv, Referred, Writes, Stored, Fits
<1>7. ActiveWithinCap' /\ AuditMatchesRows'
  BY <1>3 DEF Inv, ActiveWithinCap, AuditMatchesRows
<1> QED BY <1>2, <1>4, <1>5, <1>6, <1>7 DEF Inv

\* Ending a request without effect keeps the invariant.
LEMMA RolledBackKeeps ==
  ASSUME Inv, NEW r \in Request, RolledBack(r)
  PROVE  Inv'
<1>1. Fits(r, Idle)
  BY ProjectsAssumption DEF Fits, OnProject, Idle, Fields, Stored
<1>2. Set(r, Idle) /\ UNCHANGED <<project, audit>> /\ \A q \in Request \ {r} : lock = q => lock' = q
  BY DEF RolledBack, db
<1> QED BY <1>1, <1>2, Quiet

\* Every step before the commit keeps the invariant.
LEMMA StepKeeps ==
  ASSUME Inv, Linked, NEW r \in Request,
         \/ Incr(r) \/ Expire(r) \/ TakeLock(r) \/ Check(r) \/ Insert(r) \/ Load(r)
         \/ Archive(r) \/ Resolve(r) \/ WriteLink(r) \/ ReadLinks(r) \/ ReadProjects(r)
  PROVE  Inv'
<1> DEFINE t == txn[r]
<1>0. DOMAIN t = Fields /\ t.event \in {"none", "created", "archived"}
      /\ (t.pc # "commit" => t.event = "none") /\ (t.pc \in OnProject => t.code \in Code)
      /\ (\A c \in t.refs : c \in Code /\ Stored(c))
  BY DEF Inv, Types, Locked, Pending, Referred
<1>1. CASE Incr(r)
  <2> DEFINE u == [t EXCEPT !.pc = "expire", !.refused = calls' > MaxCalls]
  <2>1. Fits(r, u)
    BY <1>0, <1>1 DEF Fits, OnProject, Fields, Incr
  <2> QED BY <2>1, <1>1, Quiet DEF Incr, db
<1>2. CASE Expire(r)
  <2> DEFINE u == IF t.refused THEN Idle
                  ELSE [t EXCEPT !.pc = IF t.op = "create" THEN "lock" ELSE "load"]
  <2>1. Fits(r, u)
    BY <1>0, <1>2 DEF Fits, OnProject, Fields, Idle, Expire
  <2> QED BY <2>1, <1>2, Quiet DEF Expire, db
<1>3. CASE TakeLock(r)
  <2>1. Fits(r, [t EXCEPT !.pc = "check"])
    BY <1>0, <1>3 DEF Fits, OnProject, Fields, TakeLock
  <2>2. \A q \in Request \ {r} : lock = q => lock' = q
    BY <1>3, ProjectsAssumption DEF TakeLock
  <2> QED BY <2>1, <2>2, <1>3, Quiet DEF TakeLock, To, db
<1>4. CASE Check(r)
  <2>1. CASE RolledBack(r)
    BY <2>1, RolledBackKeeps
  <2>2. CASE /\ ~(Cardinality(Active) >= MaxActive)
             /\ To(r, "insert") /\ UNCHANGED <<db, lock>>
    <3>1. Cardinality(Active) < MaxActive
      <4>1. IsFiniteSet(Active)
        BY ProjectsAssumption, FS_Subset DEF Active
      <4> QED BY <4>1, <2>2, FS_CardinalityType, ProjectsAssumption
    <3>2. lock = r
      BY <1>4 DEF Check, Inv, Locked
    <3>3. Fits(r, [t EXCEPT !.pc = "insert"])
      BY <1>0, <1>4, <2>2, <3>1, <3>2 DEF Fits, OnProject, Fields, Check
    <3> QED BY <2>2, <3>3, Quiet DEF To, db
  <2> QED BY <1>4, <2>1, <2>2 DEF Check
<1>5. CASE Insert(r)
  <2>1. CASE RolledBack(r)
    BY <2>1, RolledBackKeeps
  <2> DEFINE u == [t EXCEPT !.pc = "commit", !.event = "created"]
  <2>2. CASE project[t.code] = "none" /\ t.code \in Code /\ Set(r, u) /\ UNCHANGED <<db, lock>>
    <3>1. Fits(r, u)
      BY <1>0, <1>5, <2>2 DEF Fits, OnProject, Fields, Insert, Inv, Locked, Counted
    <3> QED BY <2>2, <3>1, Quiet DEF db
  <2> QED BY <1>0, <1>5, <2>1, <2>2 DEF Insert, OnProject
<1>6. CASE Load(r)
  <2>1. CASE RolledBack(r)
    BY <2>1, RolledBackKeeps
  <2>2. CASE project[t.code] = "active" /\ To(r, "archive") /\ UNCHANGED <<db, lock>>
    <3>1. Fits(r, [t EXCEPT !.pc = "archive"])
      BY <1>0, <1>6, <2>2 DEF Fits, OnProject, Fields, Load
    <3> QED BY <2>2, <3>1, Quiet DEF To, db
  <2> QED BY <1>6, <2>1, <2>2 DEF Load
<1>7. CASE Archive(r)
  <2> DEFINE u == [t EXCEPT !.pc = "commit", !.event = "archived"]
  <2>1. Fits(r, u)
    BY <1>0, <1>7 DEF Fits, OnProject, Fields, Archive, Inv, Pending, Stored
  <2> QED BY <2>1, <1>7, Quiet DEF Archive, db
<1>8. CASE Resolve(r)
  <2>1. CASE RolledBack(r)
    BY <2>1, RolledBackKeeps
  <2> DEFINE u == [t EXCEPT !.pc = "link", !.old = link[t.mission]]
  <2>2. CASE Stored(t.code) /\ Set(r, u) /\ UNCHANGED <<db, lock>>
    <3>1. Fits(r, u)
      BY <1>0, <1>8, <2>2 DEF Fits, OnProject, Fields, Resolve
    <3> QED BY <2>2, <3>1, Quiet DEF db
  <2> QED BY <1>8, <2>1, <2>2, ProjectsAssumption DEF Resolve, Stored
<1>9. CASE WriteLink(r)
  <2>1. CASE RolledBack(r)
    BY <2>1, RolledBackKeeps
  <2>2. CASE To(r, "commit") /\ UNCHANGED <<db, lock>>
    <3>1. Stored(t.code)
      BY <1>0, <1>9 DEF Inv, Referred, Writes, WriteLink
    <3>2. Fits(r, [t EXCEPT !.pc = "commit"])
      BY <1>0, <1>9, <2>2, <3>1 DEF Fits, OnProject, Fields, WriteLink
    <3> QED BY <2>2, <3>2, Quiet DEF To, db
  <2> QED BY <1>9, <2>1, <2>2 DEF WriteLink
<1>10. CASE ReadLinks(r)
  <2>1. PICK placed \in SUBSET Mission :
          Set(r, [t EXCEPT !.pc = "projects", !.refs = {link[m] : m \in placed} \cap Code])
    BY <1>10, Zenon DEF ReadLinks
  <2> DEFINE u == [t EXCEPT !.pc = "projects", !.refs = {link[m] : m \in placed} \cap Code]
  <2>2. Fits(r, u)
    BY <1>0, <1>10, Zenon DEF Fits, OnProject, Fields, ReadLinks, Linked
  <2> QED BY <1>10, <2>1, <2>2, Quiet, Zenon DEF ReadLinks, db
<1>11. CASE ReadProjects(r)
  BY <1>11, RolledBackKeeps DEF ReadProjects
<1> QED BY <1>1, <1>2, <1>3, <1>4, <1>5, <1>6, <1>7, <1>8, <1>9, <1>10, <1>11

\* A call of a route keeps the invariant.
LEMMA CallKeeps ==
  ASSUME Inv, NEW r \in Request, Call(r)
  PROVE  Inv'
<1>1. ASSUME NEW op, NEW c \in Code, CallProject(r, op, c)
      PROVE  Inv'
  <2> DEFINE u == [Idle EXCEPT !.pc = "incr", !.op = op, !.code = c]
  <2>1. Fits(r, u)
    BY DEF Fits, OnProject, Fields, Idle
  <2> QED BY <1>1, <2>1, Quiet DEF CallProject, db
<1>2. ASSUME NEW m, NEW c, CallLink(r, m, c)
      PROVE  Inv'
  <2> DEFINE u == [Idle EXCEPT !.pc = "resolve",
                               !.op = IF link[m] = Absent THEN "mission" ELSE "link",
                               !.code = c, !.mission = m]
  <2>1. Fits(r, u)
    BY DEF Fits, OnProject, Fields, Idle
  <2> QED BY <1>2, <2>1, Quiet DEF CallLink, db
<1>3. CASE CallTown(r)
  <2> DEFINE u == [Idle EXCEPT !.pc = "town", !.op = "town"]
  <2>1. Fits(r, u)
    BY DEF Fits, OnProject, Fields, Idle
  <2> QED BY <1>3, <2>1, Quiet DEF CallTown, db
<1> QED BY <1>1, <1>2, <1>3 DEF Call

\* A commit keeps the invariant.  One that creates a project is alone in having counted; one
\* that archives a project lowers the count; one of a link leaves the projects as they are.
LEMMA CommitKeeps ==
  ASSUME Inv, NEW r \in Request, Commit(r)
  PROVE  Inv'
<1> DEFINE t == txn[r]
<1>0. t.pc = "commit" /\ DOMAIN t = Fields /\ t.event \in {"none", "created", "archived"}
      /\ (t.event # "none" => t.code \in Code)
  BY DEF Inv, Types, Pending, Commit
<1>1. /\ DOMAIN txn' = Request /\ txn' = [q \in Request |-> txn'[q]]
      /\ txn'[r] = Idle /\ \A q \in Request \ {r} : txn'[q] = txn[q]
      /\ \A q \in Request : DOMAIN txn'[q] = Fields
                            /\ txn'[q].event \in {"none", "created", "archived"}
  BY SetType DEF Inv, Commit, Idle, Fields
<1>2. Idle.pc = "idle" /\ Idle.event = "none"
  BY DEF Idle
<1>3. Types'
  BY <1>0, <1>1 DEF Inv, Types, Commit
<1>4. IsFiniteSet(Active) /\ Cardinality(Active) \in Nat
  BY ProjectsAssumption, FS_Subset, FS_CardinalityType DEF Active
<1>5. \A q \in Request \ {r} : lock = q => lock' = q
  BY DEF Commit
<1>9. \A c \in Code : project[c] # "none" => project'[c] # "none"
  BY DEF Commit
<1>10. Referred'
  <2>1. Idle.refs = {}
    BY DEF Idle
  <2> QED BY <1>1, <1>2, <1>9, <2>1 DEF Inv, Referred, Writes, Stored
<1>6. CASE t.event = "created"
  <2>1. lock = r /\ Cardinality(Active) < MaxActive
    BY <1>0, <1>6 DEF Inv, Locked, Counted, Writes
  <2>2. \A q \in Request \ {r} : ~Counted(q) /\ txn[q].pc # "check"
    BY <2>1 DEF Inv, Locked
  <2>3. Active' = Active \cup {t.code}
    BY <1>0, <1>6 DEF Active, Commit, Inv, Types
  <2>4. Cardinality(Active') =< MaxActive
    <3>1. \/ Cardinality(Active \cup {t.code}) = Cardinality(Active)
          \/ Cardinality(Active \cup {t.code}) = Cardinality(Active) + 1
      BY <1>4, FS_AddElement
    <3> QED BY <2>1, <2>3, <3>1, <1>4, ProjectsAssumption
  <2>5. Locked'
    BY <1>1, <1>2, <2>2 DEF Inv, Locked, Counted, Writes
  <2>6. Pending'
    BY <1>0, <1>1, <1>2, <1>6, <2>2 DEF Inv, Types, Pending, Commit, Counted, Writes, OnProject
  <2>7. AuditMatchesRows'
    <3>1. project[t.code] = "none" /\ audit[t.code] = {}
      BY <1>0, <1>6 DEF Inv, Pending, Writes, AuditMatchesRows
    <3>2. project'[t.code] = "active" /\ audit'[t.code] = {"created"}
      BY <1>0, <1>6, <3>1 DEF Commit
    <3>3. \A c \in Code \ {t.code} : project'[c] = project[c] /\ audit'[c] = audit[c]
      BY DEF Commit
    <3> QED BY Zenon, <3>2, <3>3 DEF Inv, AuditMatchesRows
  <2> QED BY <1>3, <1>10, <2>4, <2>5, <2>6, <2>7 DEF Inv, ActiveWithinCap
<1>7. CASE t.event = "archived"
  <2>1. Active' \subseteq Active
    BY <1>0, <1>7 DEF Active, Commit, Inv, Types
  <2>2. Cardinality(Active') \in Nat /\ Cardinality(Active') =< Cardinality(Active)
    BY <2>1, <1>4, FS_Subset, FS_CardinalityType
  <2>3. Cardinality(Active') =< MaxActive
    BY <2>2, <1>4, ProjectsAssumption DEF Inv, ActiveWithinCap
  <2>4. \A q \in Request : Counted(q) => Cardinality(Active') < MaxActive
    BY <2>2, <1>4, ProjectsAssumption DEF Inv, Locked
  <2>5. Locked'
    BY <1>1, <1>2, <1>5, <2>4 DEF Inv, Locked, Counted, Writes
  <2>6. project[t.code] # "none"
    BY <1>0, <1>7 DEF Inv, Pending, Writes
  <2>7. Pending'
    BY <1>0, <1>1, <1>2, <1>7, <2>6 DEF Inv, Types, Pending, Commit, Writes, OnProject
  <2>8. AuditMatchesRows'
    <3>1. audit[t.code] = {"created"} \/ audit[t.code] = {"created", "archived"}
      BY <1>0, <1>7, <2>6 DEF Inv, AuditMatchesRows
    <3>2. project'[t.code] = "archived" /\ audit'[t.code] = {"created", "archived"}
      BY <1>0, <1>7, <3>1 DEF Commit
    <3>3. \A c \in Code \ {t.code} : project'[c] = project[c] /\ audit'[c] = audit[c]
      BY DEF Commit
    <3> QED BY Zenon, <3>2, <3>3 DEF Inv, AuditMatchesRows
  <2> QED BY <1>3, <1>10, <2>3, <2>5, <2>7, <2>8 DEF Inv, ActiveWithinCap
<1>8. CASE t.event = "none"
  <2>1. UNCHANGED <<project, audit>>
    BY <1>8 DEF Commit, Inv, Types
  <2>2. Fits(r, Idle)
    BY DEF Fits, OnProject, Idle, Fields
  <2> QED BY <2>1, <2>2, <1>5, Quiet DEF Commit
<1> QED BY <1>0, <1>6, <1>7, <1>8

\* A commit links a mission to a stored project, and projects stay stored.
LEMMA CommitLinks ==
  ASSUME Inv, Linked, NEW r \in Request, Commit(r)
  PROVE  Linked'
<1> DEFINE t == txn[r]
<1>1. \A c \in Code : project[c] # "none" => project'[c] # "none"
  BY DEF Commit
<1>2. t.code \in Code => project'[t.code] # "none"
  BY <1>1 DEF Inv, Referred, Writes, Stored, Commit
<1>3. \A m \in Mission : link'[m] \in {t.code, link[m]}
  BY DEF Commit
<1> QED BY <1>1, <1>2, <1>3 DEF Linked, Stored

\* No other step changes a link or a project.
LEMMA OtherwiseUnchanged ==
  ASSUME NEW r \in Request, Call(r) \/ Waiting(r) \/ Step(r) \/ RequestFails(r), ~Commit(r)
  PROVE  UNCHANGED <<project, link>>
BY Zenon DEF Call, CallProject, CallLink, CallTown, Waiting, TakeLock, Archive, WriteLink, Step, Incr,
       Expire, Check, Insert, Load, Resolve, ReadLinks, ReadProjects, RequestFails, RolledBack, db

\* The invariant is inductive.
LEMMA Inductive == Inv /\ Linked /\ [Next]_vars => Inv' /\ Linked'
<1> SUFFICES ASSUME Inv, Linked, [Next]_vars PROVE Inv' /\ Linked'
  OBVIOUS
<1>1. CASE UNCHANGED vars \/ KeyExpires
  <2>1. UNCHANGED <<project, link, audit, lock, txn>>
    BY <1>1 DEF vars, db, KeyExpires
  <2> QED BY <2>1 DEF Inv, Types, Locked, Pending, Referred, Linked, Stored, Counted, Writes,
                      Active, ActiveWithinCap, AuditMatchesRows
<1>2. ASSUME NEW r \in Request, Call(r) \/ Waiting(r) \/ Step(r) \/ RequestFails(r)
      PROVE  Inv' /\ Linked'
  <2>1. Inv'
    BY <1>2, CallKeeps, StepKeeps, CommitKeeps, RolledBackKeeps DEF Waiting, Step, RequestFails
  <2>2. CASE Commit(r)
    BY <2>1, <2>2, CommitLinks
  <2>3. CASE ~Commit(r)
    <3>1. UNCHANGED <<project, link>>
      BY <1>2, <2>3, OtherwiseUnchanged
    <3> QED BY <2>1, <3>1 DEF Linked, Stored
  <2> QED BY <2>2, <2>3
<1> QED BY <1>1, <1>2 DEF Next

\* The invariant holds of a tenant without projects.
LEMMA Initially == Init => Inv /\ Linked
<1> SUFFICES ASSUME Init PROVE Inv /\ Linked
  OBVIOUS
<1>1. Types /\ Locked /\ Pending /\ Referred
  BY DEF Init, Types, Locked, Pending, Referred, Counted, Writes, Idle, Fields, OnProject
<1>2. Active = {}
  BY DEF Init, Active
<1>3. ActiveWithinCap
  BY <1>2, FS_EmptySet, ProjectsAssumption DEF ActiveWithinCap
<1>4. AuditMatchesRows
  BY DEF Init, AuditMatchesRows
<1>5. Linked
  BY ProjectsAssumption DEF Init, Linked, Stored
<1> QED BY <1>1, <1>3, <1>4, <1>5 DEF Inv

\* create_project keeps the number of active projects of a tenant within the cap, for every cap
\* and any number of concurrent requests.
THEOREM CapHolds == Spec => []ActiveWithinCap
<1>1. Inv => ActiveWithinCap
  BY DEF Inv
<1> QED BY <1>1, Initially, Inductive, PTL DEF Spec

\* publish adds the audit event to the transaction of the change it reports: the events of a
\* project are those of its committed changes, whichever requests fail and wherever.
THEOREM AuditIsOfCommits == Spec => []AuditMatchesRows
<1>1. Inv => AuditMatchesRows
  BY DEF Inv
<1> QED BY <1>1, Initially, Inductive, PTL DEF Spec

\* Every project that list_agent_rooms places an agent at is among those it returns, whatever is
\* archived, created or linked elsewhere between its two queries.
THEOREM TownIsComplete == Spec => []ReferencedIsListed
<1>1. Inv => ReferencedIsListed
  BY DEF Inv, Referred, Stored, ReferencedIsListed, Listed
<1> QED BY <1>1, Initially, Inductive, PTL DEF Spec

-----------------------------------------------------------------------------
\* The types of what the cap and the audit do not depend on.
Keys ==
  /\ link \in [Mission -> Code \cup {None, Absent}] /\ lock \in Request \cup {None}
  /\ calls \in 0..MaxCalls + 1 /\ expires \in BOOLEAN
  /\ \A r \in Request : txn[r].code \in Code \cup {None}

\* A step of a request keeps these types: it names a project of the tenant or none, takes or
\* releases the lock for itself, and INCR stops at the first refused value of the counter.
LEMMA KeysKept ==
  ASSUME Inv, Keys, NEW r \in Request, Call(r) \/ Waiting(r) \/ Step(r) \/ RequestFails(r)
  PROVE  Keys'
<1>1. /\ txn'[r].code \in Code \cup {None}
      /\ \A q \in Request \ {r} : txn'[q] = txn[q]
  <2>1. /\ DOMAIN txn = Request /\ DOMAIN txn[r] = Fields
        /\ txn[r].code \in Code \cup {None} /\ Idle.code = None
    BY DEF Inv, Types, Keys, Idle
  <2>2. CASE Call(r)
    <3>1. CASE \E op \in {"create", "archive"}, c \in Code : CallProject(r, op, c)
      BY <2>1, <3>1 DEF CallProject, Idle, Set
    <3>2. CASE \E m \in Mission, c \in Code \cup {None} : CallLink(r, m, c)
      BY <2>1, <3>2 DEF CallLink, Idle, Set
    <3>3. CASE CallTown(r)
      BY <2>1, <3>3 DEF CallTown, Idle, Set
    <3> QED BY <2>2, <3>1, <3>2, <3>3, Zenon DEF Call
  <2>3. CASE Incr(r) \/ Expire(r)
    BY <2>1, <2>3 DEF Incr, Expire, Fields, Set
  <2>4. CASE TakeLock(r) \/ Check(r) \/ Load(r) \/ WriteLink(r)
    BY <2>1, <2>4 DEF TakeLock, Check, Load, WriteLink, To, RolledBack, Fields, Set
  <2>5. CASE Insert(r) \/ Archive(r) \/ Resolve(r) \/ ReadLinks(r)
    BY <2>1, <2>5, Zenon DEF Insert, Archive, Resolve, ReadLinks, RolledBack, Fields, Set
  <2>6. CASE ReadProjects(r) \/ Commit(r) \/ RequestFails(r)
    BY <2>1, <2>6 DEF ReadProjects, Commit, RequestFails, RolledBack, Set
  <2> QED BY <2>2, <2>3, <2>4, <2>5, <2>6, Zenon DEF Waiting, Step
<1>2. \A q \in Request : txn'[q].code \in Code \cup {None}
  BY <1>1 DEF Keys
<1>3. lock' \in {lock, None, r}
  BY Zenon DEF Call, CallProject, CallLink, CallTown, Waiting, TakeLock, Archive, WriteLink, Step, Incr,
     Expire, Check, Insert, Load, Resolve, ReadLinks, ReadProjects, RequestFails, RolledBack, Commit
<1>4. link' \in [Mission -> Code \cup {None, Absent}]
  <2>1. CASE Commit(r)
    BY <2>1 DEF Commit, Keys
  <2>2. CASE ~Commit(r)
    BY <2>2, OtherwiseUnchanged DEF Keys
  <2> QED BY <2>1, <2>2
<1>5. calls' \in 0..MaxCalls + 1
  <2>1. CASE Incr(r)
    BY <2>1, ProjectsAssumption DEF Incr, Keys
  <2>2. CASE ~Incr(r)
    <3>1. calls' = calls
      BY <2>2, Zenon DEF Call, CallProject, CallLink, CallTown, Waiting, TakeLock, Archive, WriteLink,
         Step, Expire, Check, Insert, Load, Resolve, ReadLinks, ReadProjects, RequestFails, Commit, key
    <3> QED BY <3>1 DEF Keys
  <2> QED BY <2>1, <2>2
<1>6. expires' \in BOOLEAN
  <2>1. CASE Expire(r)
    BY <2>1 DEF Expire, SetExpiry
  <2>2. CASE ~Expire(r)
    <3>1. expires' = expires
      BY <2>2, Zenon DEF Call, CallProject, CallLink, CallTown, Waiting, TakeLock, Archive, WriteLink,
         Step, Incr, Check, Insert, Load, Resolve, ReadLinks, ReadProjects, RequestFails, Commit, key
    <3> QED BY <3>1 DEF Keys
  <2> QED BY <2>1, <2>2
<1> QED BY <1>2, <1>3, <1>4, <1>5, <1>6 DEF Keys

\* Every variable keeps its type.
THEOREM TypeCorrect == Spec => []TypeOK
<1>1. Init => Keys
  <2>1. Init => expires \in BOOLEAN
    BY Zenon DEF Init
  <2> QED BY <2>1, ProjectsAssumption DEF Init, Keys, Idle
<1>2. Inv /\ Keys /\ [Next]_vars => Keys'
  <2> SUFFICES ASSUME Inv, Keys, [Next]_vars PROVE Keys'
    OBVIOUS
  <2>1. CASE UNCHANGED vars
    BY <2>1 DEF vars, db, key, Keys
  <2>2. CASE KeyExpires
    <3>1. expires' \in BOOLEAN
      BY <2>2, Zenon DEF KeyExpires
    <3> QED BY <2>2, <3>1, ProjectsAssumption DEF KeyExpires, db, Keys
  <2> QED BY <2>1, <2>2, KeysKept DEF Next
<1>3. Inv /\ Keys => TypeOK
  BY DEF Inv, Types, Keys, TypeOK
<1> QED BY <1>1, <1>2, <1>3, Initially, Inductive, PTL DEF Spec
=============================================================================
