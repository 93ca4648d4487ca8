---------------------------- MODULE AgentRegistry ----------------------------
(***************************************************************************)
(* The agents of a tenant: their rows, versions, apartment rooms and        *)
(* persona slots, and the requests that change them.                        *)
(*                                                                         *)
(* A request is one transaction under READ COMMITTED.  What it has flushed  *)
(* is its own until it commits; an insert or update waits while another     *)
(* transaction holds an uncommitted row with the same unique key, and fails *)
(* if that row was committed.  ensure_assignment and _claim_slot answer     *)
(* such a failure with session.rollback(): it undoes everything the request *)
(* has flushed, turns rows it had added back into plain objects, and        *)
(* expires every object it had loaded.  An expired object cannot be read    *)
(* again, so that the request ends in an error where it does.               *)
(***************************************************************************)
EXTENDS Integers, FiniteSets, FiniteSetsExt, Sequences

CONSTANTS
  Code,        \* agent_code
  Persona,     \* the codes of Claude Code personas
  Seeds,       \* the codes of the agents that seed.py creates, in its order
  Request,     \* API requests in flight, and runs of seed.py
  Cap,         \* PERSONA_SLOT_CAP
  Attempts,    \* _MAX_ALLOCATION_ATTEMPTS, _MAX_CLAIM_ATTEMPTS
  MaxVersions, \* bound: versions of an agent
  None

ASSUME RegistryAssumption ==
  /\ IsFiniteSet(Code) \* at most 64 characters
  /\ Persona \subseteq Code /\ Seeds \in Seq(Code) /\ None \notin Code \cup Int
  /\ Cap \in Nat /\ Attempts \in Nat \ {0} /\ MaxVersions \in Nat \ {0}

VARIABLES
  agent,    \* lifecycle_state of a committed row, or "none"
  versions, \* the version numbers of an agent
  rows,     \* how many rows hold them
  active,   \* the number of active_version_id, or 0
  room,     \* floor and room_index of an agent's unreleased assignment, or None
  slot,     \* the persona slot of a code, or None
  txn       \* the requests

db   == <<agent, versions, rows, active, room, slot>>
vars == <<db, txn>>

(***************************************************************************)
(* What a transaction has flushed: the agents it has inserted (with version *)
(* 1), a version number, the columns of an agent that it changes, rooms it  *)
(* has booked and whether it has released one, and a persona slot.          *)
(***************************************************************************)
Clean ==
  [new |-> {}, version |-> 0, state |-> "same", active |-> 0,
   booked |-> {}, released |-> FALSE, slot |-> None]

Idle ==
  [pc |-> "idle", op |-> "none", code |-> None, todo |-> {}, pick |-> 0, tries |-> 0,
   lost |-> FALSE, w |-> Clean]

\* A request that has made its last write has no more use for what it read.
Finish(t) == [t EXCEPT !.pc = "finish", !.pick = 0, !.tries = 0, !.todo = {}]

Set(r, t) == txn' = [txn EXCEPT ![r] = t]

-----------------------------------------------------------------------------
(***************************************************************************)
(* The apartment: slots from 0 are rooms from 1, four to a floor.           *)
(***************************************************************************)
RoomsPerFloor == 4

slot_to_room(s) == <<(s \div RoomsPerFloor) + 1, (s % RoomsPerFloor) + 1>>
room_to_slot(x) == (x[1] - 1) * RoomsPerFloor + (x[2] - 1)

\* There is always a free one: floors are added as they are needed.
lowest_free_slot(occupied) == Min(0..Cardinality(occupied) \ occupied)

-----------------------------------------------------------------------------
\* Variant with a bug: slots are counted from one.
FreeSlotsFromOne == 1..Cap \ {slot[c] : c \in Code}

\* The persona slots that no committed row holds.
FreeSlots == 0..Cap - 1 \ {slot[c] : c \in Code}

-----------------------------------------------------------------------------
(***************************************************************************)
(* Rows of other transactions, on which a request waits.                    *)
(***************************************************************************)
Other(r) == {txn[q] : q \in Request \ {r}}

\* An uncommitted update of the row of an agent (of changed columns only).
Updating(t, c) ==
  t.code = c /\ t.pc # "update" /\ (t.w.state # "same" \/ t.w.active # 0)

\* An uncommitted insert or release that concerns a room or the assignment of an agent.
Touches(t, c, x) ==
  \/ \E b \in t.w.booked : b[1] = c \/ b[2] = x
  \/ t.w.released /\ (t.code = c \/ room[t.code] = x)

\* The rooms that a transaction sees as taken, and the agents it sees in one.
Taken(t)  == {room[c] : c \in {d \in Code : room[d] # None}} \cup {b[2] : b \in t.w.booked}
Housed(t) == {c \in Code : room[c] # None} \cup {b[1] : b \in t.w.booked}

-----------------------------------------------------------------------------
Init ==
  /\ agent = [c \in Code |-> "none"]
  /\ versions = [c \in Code |-> {}] /\ rows = [c \in Code |-> 0]
  /\ active = [c \in Code |-> 0]
  /\ room = [c \in Code |-> None] /\ slot = [c \in Code |-> None]
  /\ txn = [r \in Request |-> Idle]

Begins(r, t) ==
  /\ txn[r].pc = "idle"
  /\ Set(r, t)
  /\ UNCHANGED db

\* create_agent, up to its first flush.
Create(r, c) ==
  Begins(r, [Idle EXCEPT !.pc = "insert", !.op = "create", !.code = c])

\* A run of seed.py; pick counts its agents.
Seed(r) == Begins(r, [Idle EXCEPT !.pc = "seed", !.op = "seed", !.pick = 1])

\* create_agent_version reads the highest number.
CreateVersion(r, c) ==
  /\ agent[c] # "none" /\ Cardinality(versions[c]) < MaxVersions
  /\ Begins(r, [Idle EXCEPT !.pc = "version", !.op = "version", !.code = c,
                            !.pick = Max(versions[c]) + 1])

\* activate_agent loads the agent and the version, and changes what differs.
Activate(r, c, v) ==
  /\ agent[c] # "none" /\ v \in versions[c]
  /\ Begins(r, [Idle EXCEPT !.pc = "update", !.op = "activate", !.code = c,
                            !.w.state = IF agent[c] = "active" THEN "same" ELSE "active",
                            !.w.active = IF active[c] = v THEN 0 ELSE v])

\* suspend_agent.
Suspend(r, c) ==
  /\ agent[c] # "none"
  /\ Begins(r, [Idle EXCEPT !.pc = "update", !.op = "suspend", !.code = c,
                            !.w.state = IF agent[c] = "suspended" THEN "same" ELSE "suspended"])

\* list_agent_rooms finds agents without a room.
ListRooms(r) ==
  LET homeless == {c \in Code : agent[c] = "active" /\ room[c] = None}
  IN  \E c \in homeless :
        Begins(r, [Idle EXCEPT !.pc = "look", !.op = "list", !.code = c, !.todo = homeless \ {c}])

\* ensure_persona for a code that is not there yet, up to _claim_slot's first read.
RegisterPersona(r, c) ==
  /\ agent[c] = "none" /\ FreeSlots # {}
  /\ Begins(r, [Idle EXCEPT !.pc = "claim", !.op = "register", !.code = c, !.pick = Min(FreeSlots)])

-----------------------------------------------------------------------------
\* The request ends with an error: everything it has flushed is rolled back.
EndInError(r) == Set(r, Idle) /\ UNCHANGED db

\* An agent is inserted, with version 1 and active, unless there is one of its code
\* (uq_agents_tenant_code); then the request is u.
Insert(r, u) ==
  LET t == txn[r] IN
  /\ t.pc = "insert"
  /\ \A q \in Other(r) : t.code \notin q.w.new
  /\ IF agent[t.code] # "none" THEN EndInError(r) ELSE Set(r, u) /\ UNCHANGED db

InsertAgent(r) ==
  /\ txn[r].op = "create"
  /\ Insert(r, [txn[r] EXCEPT !.pc = "look", !.w.new = {txn[r].code}])

\* ensure_persona, once it has its slot.
InsertPersona(r) ==
  /\ txn[r].op = "register"
  /\ Insert(r, Finish([txn[r] EXCEPT !.w.new = {txn[r].code}]))

\* seed.py looks its next agent up: it is there, or is inserted.
SeedNext(r) ==
  LET t == txn[r]
      c == Seeds[t.pick]
  IN
  /\ t.pc = "seed"
  /\ Set(r, IF t.pick > Len(Seeds) THEN Finish(t)
            ELSE IF agent[c] # "none" THEN [t EXCEPT !.pick = @ + 1]
            ELSE [t EXCEPT !.pc = "insert", !.code = c])
  /\ UNCHANGED db

InsertSeeded(r) ==
  /\ txn[r].op = "seed"
  /\ Insert(r, [txn[r] EXCEPT !.pc = "seed", !.pick = @ + 1, !.w.new = @ \cup {txn[r].code}])

\* Variant with a bug: versions are not unique by agent and number.
InsertVersionAnyway(r) ==
  LET t == txn[r] IN
  /\ t.pc = "version"
  /\ Set(r, Finish([t EXCEPT !.w.version = t.pick]))
  /\ UNCHANGED db

\* The version is inserted (unique by agent and number).
InsertVersion(r) ==
  LET t == txn[r] IN
  /\ t.pc = "version"
  /\ \A q \in Other(r) : ~(q.code = t.code /\ q.w.version = t.pick)
  /\ IF t.pick \in versions[t.code]
       THEN EndInError(r)
       ELSE /\ Set(r, Finish([t EXCEPT !.w.version = t.pick]))
            /\ UNCHANGED db

\* The row of the agent is updated, if a column has changed.
UpdateAgent(r) ==
  LET t == txn[r] IN
  /\ t.pc = "update"
  /\ t.w.state # "same" \/ t.w.active # 0 => \A q \in Other(r) : ~Updating(q, t.code)
  /\ Set(r, [t EXCEPT !.pc = IF t.op = "activate" THEN "look" ELSE "release"])
  /\ UNCHANGED db

\* release_assignment.
ReleaseRoom(r) ==
  LET t == txn[r] IN
  /\ t.pc = "release"
  /\ room[t.code] # None => \A q \in Other(r) : ~(q.w.released /\ q.code = t.code)
  /\ Set(r, Finish([t EXCEPT !.w.released = room[t.code] # None]))
  /\ UNCHANGED db

-----------------------------------------------------------------------------
(***************************************************************************)
(* ensure_assignment: at most Attempts times, look for a free room and      *)
(* book it.                                                                *)
(***************************************************************************)

\* The request after it: list_agent_rooms goes on to the next agent, which is
\* expired if there was a collision.
Housekept(r, t) ==
  IF t.op = "list" /\ ~t.lost /\ t.todo # {}
    THEN \E c \in t.todo :
           Set(r, [t EXCEPT !.pc = "look", !.code = c, !.todo = @ \ {c}, !.pick = 0, !.tries = 0])
    ELSE Set(r, Finish(t))

\* The agent that the request asks a room for was inserted by itself, and is lost.
Orphaned(t) == t.op = "create" /\ t.lost

Look(r) ==
  LET t == txn[r] IN
  /\ t.pc = "look"
  /\ IF t.code \in Housed(t) /\ ~Orphaned(t)
       THEN Housekept(r, t)
       ELSE Set(r, [t EXCEPT !.pc = "book", !.pick = lowest_free_slot({room_to_slot(x) : x \in Taken(t)})])
  /\ UNCHANGED db

\* Variants with a bug: one of the two unique indexes is missing.
CollidesNotOnRoom(t)  == t.code \in Housed(t) \/ Orphaned(t)
CollidesNotOnAgent(t) == slot_to_room(t.pick) \in Taken(t) \/ Orphaned(t)

\* Whether an insert of the assignment violates a constraint: the two unique indexes, or the
\* foreign key of an agent that the request had inserted and lost.
Collides(t) ==
  \/ slot_to_room(t.pick) \in Taken(t) \/ t.code \in Housed(t)
  \/ Orphaned(t)

\* session.rollback(), and the next attempt if there is one.
RollBack(r, t) ==
  LET u == [t EXCEPT !.w = Clean, !.lost = TRUE, !.tries = @ + 1]
  IN  IF u.tries < Attempts THEN Set(r, [u EXCEPT !.pc = "look", !.pick = 0]) ELSE Housekept(r, u)

Book(r) ==
  LET t == txn[r] IN
  /\ t.pc = "book"
  /\ \A q \in Other(r) : ~Touches(q, t.code, slot_to_room(t.pick))
  /\ IF Collides(t)
       THEN RollBack(r, t)
       ELSE Housekept(r, [t EXCEPT !.w.booked = @ \cup {<<t.code, slot_to_room(t.pick)>>}])
  /\ UNCHANGED db

-----------------------------------------------------------------------------
\* Variant with a bug: the claim is committed on its own.
ClaimSlotAtOnce(r) ==
  LET t == txn[r] IN
  /\ t.pc = "claim"
  /\ slot[t.code] = None /\ \A d \in Code : slot[d] # t.pick
  /\ slot' = [slot EXCEPT ![t.code] = t.pick]
  /\ Set(r, [t EXCEPT !.pc = "insert"])
  /\ UNCHANGED <<agent, versions, rows, active, room>>

\* _claim_slot: claim a slot for the code, or after a collision find the winner's agent, or
\* that no slot is left, or try again.
ClaimSlot(r) ==
  LET t == txn[r] IN
  /\ t.pc = "claim"
  /\ \A q \in Other(r) : q.w.slot # None => q.w.slot # t.pick /\ q.code # t.code
  /\ IF slot[t.code] = None /\ \A d \in Code : slot[d] # t.pick
       THEN Set(r, [t EXCEPT !.pc = "insert", !.w.slot = t.pick])
       ELSE IF agent[t.code] # "none" \/ FreeSlots = {} \/ t.tries + 1 = Attempts
         THEN Set(r, Idle)
         ELSE Set(r, [t EXCEPT !.w = Clean, !.lost = TRUE, !.tries = @ + 1, !.pick = Min(FreeSlots)])
  /\ UNCHANGED db

-----------------------------------------------------------------------------
\* The objects that the handler reads at its end: all but the agent that create_agent added
\* were loaded, and are expired after a rollback.
Readable(t) == ~t.lost \/ t.op = "create"

\* The response is built and the transaction committed.
Commit(r) ==
  LET t == txn[r]
      c == t.code
      w == t.w
      stays(d) == ~(w.released /\ d = c)
  IN
  /\ t.pc = "finish" /\ Readable(t)
  /\ agent'    = [d \in Code |-> IF d \in w.new THEN "active"
                                   ELSE IF d = c /\ w.state # "same" THEN w.state ELSE agent[d]]
  /\ versions' = [d \in Code |-> versions[d] \cup (IF d \in w.new THEN {1}
                                   ELSE IF d = c THEN {w.version} \ {0} ELSE {})]
  /\ rows'     = [d \in Code |-> rows[d] + (IF d \in w.new \/ (d = c /\ w.version # 0) THEN 1 ELSE 0)]
  /\ active'   = [d \in Code |-> IF d \in w.new THEN 1
                                   ELSE IF d = c /\ w.active # 0 THEN w.active ELSE active[d]]
  /\ room'     = [d \in Code |-> IF \E b \in w.booked : b[1] = d
                                   THEN (CHOOSE b \in w.booked : b[1] = d)[2]
                                   ELSE IF stays(d) THEN room[d] ELSE None]
  /\ slot'     = [d \in Code |-> IF d = c /\ w.slot # None THEN w.slot ELSE slot[d]]
  /\ Set(r, Idle)

\* The response cannot be built: MissingGreenlet.
ReadFails(r) == txn[r].pc = "finish" /\ ~Readable(txn[r]) /\ EndInError(r)

\* A statement fails, a deadlock is broken, or the process stops.
RequestFails(r) == txn[r].pc # "idle" /\ EndInError(r)

Step(r) ==
  \/ InsertAgent(r) \/ InsertPersona(r) \/ SeedNext(r) \/ InsertSeeded(r)
  \/ InsertVersion(r) \/ UpdateAgent(r) \/ ReleaseRoom(r)
  \/ Look(r) \/ Book(r) \/ ClaimSlot(r) \/ Commit(r) \/ ReadFails(r)

Next ==
  \E r \in Request :
    \/ \E c \in Code : Create(r, c) \/ CreateVersion(r, c) \/ Suspend(r, c)
    \/ \E c \in Code, v \in 1..MaxVersions : Activate(r, c, v)
    \/ \E c \in Persona : RegisterPersona(r, c)
    \/ Seed(r) \/ ListRooms(r)
    \/ Step(r) \/ RequestFails(r)

Spec == Init /\ [][Next]_vars

-----------------------------------------------------------------------------
\* The values each variable takes.
TypeOK ==
  /\ agent \in [Code -> {"none", "active", "suspended"}]
  /\ versions \in [Code -> SUBSET (1..MaxVersions)] /\ rows \in [Code -> Nat]
  /\ active \in [Code -> 0..MaxVersions]
  /\ room \in [Code -> (Nat \X (1..RoomsPerFloor)) \cup {None}]
  /\ slot \in [Code -> (0..Cap - 1) \cup {None}]

\* No two agents are given the same room: concurrent allocations that computed the same lowest
\* free slot meet at uq_agent_room_assignments_active_room, and the loser starts over.
OneRoomEach ==
  \A c, d \in Code : c # d /\ room[c] # None => room[d] # room[c]

\* An agent keeps its room until it is released: no allocation that raced with another one for
\* the same agent replaces it (ensure_assignment is idempotent).
RoomIsKept ==
  [][\A c \in Code : room[c] # None => room'[c] \in {room[c], None}]_vars

\* A persona slot is taken by one persona, which is registered: _claim_slot claims it before the
\* agent is inserted, and no collision or failure in between leaves a claim behind that would
\* use up one of the PERSONA_SLOT_CAP slots.
SlotHasItsPersona ==
  \A c \in Code : slot[c] # None =>
    /\ agent[c] # "none"
    /\ \A d \in Code \ {c} : slot[d] # slot[c]

\* The versions of an agent are numbered from 1 without gap or repetition, however many
\* create_agent_version calls read the same highest number, and the active one is among them.
VersionsContiguous ==
  \A c \in Code :
    /\ versions[c] = 1..rows[c]
    /\ agent[c] # "none" <=> active[c] \in versions[c]

\* An agent for which create_agent answers 201 is stored ("assignment never gates
\* registration", routes/agents.py).  It is not when ensure_assignment has rolled the
\* transaction back: two agents created at once compute the same lowest free room.
RegisteredIsStored ==
  [][\A r \in Request : txn[r].op = "create" /\ Commit(r) => agent'[txn[r].code] # "none"]_vars
=============================================================================
