------------------------- MODULE AgentRegistryProofs -------------------------
(***************************************************************************)
(* For every set of agents and requests: no two agents have the same room,  *)
(* an agent keeps its room until it is released, and a persona slot belongs *)
(* to one registered persona.  The allocator always finds a room, and a     *)
(* room is the one of its slot.  The versions of an agent are numbered      *)
(* without gap or repetition, and the columns keep their types.             *)
(*                                                                         *)
(* The argument is about uncommitted rows.  Book and ClaimSlot wait for the *)
(* rows of other transactions that they could collide with and fail on the  *)
(* committed ones, so that no two rows, committed or not, ever collide; a   *)
(* commit then only turns rows of one transaction into committed ones.      *)
(***************************************************************************)
EXTENDS AgentRegistry, FiniteSetTheorems, WellFoundedInduction, TLAPS

TxnFields   == {"pc", "op", "code", "todo", "pick", "tries", "lost", "w"}
WriteFields == {"new", "version", "state", "active", "booked", "released", "slot"}

\* What the proofs need of the types.
Shape(t) ==
  /\ DOMAIN t = TxnFields /\ DOMAIN t.w = WriteFields /\ t.w.state # "none"
  /\ t.pc = "claim" => t.op = "register"
  /\ t.pc = "seed" => t.op = "seed"

Types ==
  /\ txn = [r \in Request |-> txn[r]] /\ \A r \in Request : Shape(txn[r])
  /\ agent = [c \in Code |-> agent[c]]
  /\ room = [c \in Code |-> room[c]]
  /\ slot = [c \in Code |-> slot[c]]

\* The assignments that a request has booked meet no committed one, nor one another.
BookedApart(t) ==
  \A b \in t.w.booked :
    /\ \A c \in Code : room[c] # None => c # b[1] /\ room[c] # b[2]
    /\ \A a \in t.w.booked : a # b => a[1] # b[1] /\ a[2] # b[2]

\* The slot that a request has claimed meets no committed one, and the request inserts the agent
\* before it commits.
ClaimApart(t) ==
  t.w.slot # None =>
    /\ \A c \in Code : slot[c] # None => c # t.code /\ slot[c] # t.w.slot
    /\ t.op = "register" /\ (t.pc = "insert" \/ t.code \in t.w.new)

\* The uncommitted rows of two requests do not meet.
Apart(t, u) ==
  /\ \A b \in t.w.booked, a \in u.w.booked : a[1] # b[1] /\ a[2] # b[2]
  /\ t.w.slot # None /\ u.w.slot # None => t.w.slot # u.w.slot /\ t.code # u.code

Rows ==
  \A r \in Request :
    /\ BookedApart(txn[r]) /\ ClaimApart(txn[r])
    /\ \A q \in Request \ {r} : Apart(txn[r], txn[q])

\* The inductive invariant.
Inv == Types /\ Rows /\ OneRoomEach /\ SlotHasItsPersona
-----------------------------------------------------------------------------
\* A step of one request that commits nothing keeps the invariant, if its rows stay apart.
LEMMA Quiet ==
  ASSUME Inv, NEW r \in Request, NEW t, Set(r, t), UNCHANGED db,
         Shape(t), BookedApart(t), ClaimApart(t),
         \A q \in Request \ {r} : Apart(t, txn[q])
  PROVE  Inv'
<1>1. /\ txn' = [q \in Request |-> txn'[q]]
      /\ txn'[r] = t /\ \A q \in Request \ {r} : txn'[q] = txn[q]
  BY Zenon DEF Inv, Types, Set
<1>2. UNCHANGED <<agent, room, slot>>
  BY Zenon DEF db
<1>3. Types'
  BY <1>1, <1>2 DEF Inv, Types, Shape
<1>4. Rows'
  <2>1. \A q \in Request : BookedApart(txn[q])' /\ ClaimApart(txn[q])'
    BY <1>1, <1>2 DEF Inv, Rows, BookedApart, ClaimApart
  <2>2. \A p \in Request : \A q \in Request \ {p} : Apart(txn[p], txn[q])'
    BY <1>1 DEF Inv, Rows, Apart
  <2> QED BY Zenon, <2>1, <2>2 DEF Rows
<1>5. OneRoomEach' /\ SlotHasItsPersona'
  BY Zenon, <1>2 DEF Inv, OneRoomEach, SlotHasItsPersona
<1> QED BY Zenon, <1>3, <1>4, <1>5 DEF Inv

\* A request that has written nothing is apart from all others.
LEMMA CleanIsApart ==
  ASSUME NEW t, t.w = Clean
  PROVE  BookedApart(t) /\ ClaimApart(t) /\ \A u : Apart(t, u)
BY DEF BookedApart, ClaimApart, Apart, Clean

\* A step that keeps the rows of the request keeps the invariant.
LEMMA SameRows ==
  ASSUME Inv, NEW r \in Request, NEW t, Set(r, t), UNCHANGED db, Shape(t),
         t.w.booked = txn[r].w.booked, t.w.slot = txn[r].w.slot, 
         t.w.slot # None => /\ t.code = txn[r].code /\ t.op = txn[r].op
                            /\ (t.pc = "insert" \/ t.code \in t.w.new)
  PROVE  Inv'
<1>1. BookedApart(t) /\ ClaimApart(t)
  BY DEF Inv, Rows, BookedApart, ClaimApart
<1>2. \A q \in Request \ {r} : Apart(t, txn[q])
  BY DEF Inv, Rows, Apart
<1> QED BY Zenon, <1>1, <1>2, Quiet

\* A request that begins, or ends in an error, keeps the invariant.
LEMMA FreshKeeps ==
  ASSUME Inv, NEW r \in Request, NEW t, Set(r, t), UNCHANGED db, Shape(t),
         t.w.booked = {}, t.w.slot = None
  PROVE  Inv'
<1>1. BookedApart(t) /\ ClaimApart(t) /\ \A q \in Request \ {r} : Apart(t, txn[q])
  BY Zenon DEF BookedApart, ClaimApart, Apart
<1> QED BY Zenon, <1>1, Quiet

LEMMA EndInErrorKeeps ==
  ASSUME Inv, NEW r \in Request, EndInError(r)
  PROVE  Inv'
BY Zenon, FreshKeeps DEF EndInError, Shape, Idle, Clean, TxnFields, WriteFields

\* Every first step of a request keeps the invariant.
LEMMA BeginKeeps ==
  ASSUME Inv, NEW r \in Request,
         \/ \E c \in Code : Create(r, c) \/ CreateVersion(r, c) \/ Suspend(r, c)
         \/ \E c \in Code, v \in 1..MaxVersions : Activate(r, c, v)
         \/ \E c \in Persona : RegisterPersona(r, c)
         \/ Seed(r) \/ ListRooms(r)
  PROVE  Inv'
<1>0. /\ DOMAIN Idle = TxnFields /\ DOMAIN Idle.w = WriteFields /\ Idle.pc = "idle"
      /\ Idle.w.state = "same" /\ Idle.w.booked = {} /\ Idle.w.slot = None
  BY Zenon DEF Idle, Clean, TxnFields, WriteFields
<1>1. ASSUME NEW t, Begins(r, t), DOMAIN t = TxnFields, DOMAIN t.w = WriteFields,
             t.w.state # "none", t.w.booked = {}, t.w.slot = None,
             t.pc = "claim" => t.op = "register", t.pc = "seed" => t.op = "seed"
      PROVE  Inv'
  BY Zenon, <1>1, FreshKeeps DEF Begins, Shape
<1>2. ASSUME NEW c, Create(r, c)
      PROVE  Inv'
  BY Zenon, <1>0, <1>1, <1>2 DEF Create, TxnFields, WriteFields
<1>3. ASSUME NEW c, CreateVersion(r, c)
      PROVE  Inv'
  BY Zenon, <1>0, <1>1, <1>3 DEF CreateVersion, TxnFields, WriteFields
<1>4. ASSUME NEW c, NEW v, Activate(r, c, v)
      PROVE  Inv'
  BY Zenon, <1>0, <1>1, <1>4 DEF Activate, TxnFields, WriteFields
<1>5. ASSUME NEW c, Suspend(r, c)
      PROVE  Inv'
  BY Zenon, <1>0, <1>1, <1>5 DEF Suspend, TxnFields, WriteFields
<1>6. ASSUME NEW c, RegisterPersona(r, c)
      PROVE  Inv'
  BY Zenon, <1>0, <1>1, <1>6 DEF RegisterPersona, TxnFields, WriteFields
<1>7. CASE ListRooms(r)
  BY Zenon, <1>0, <1>1, <1>7 DEF ListRooms, TxnFields, WriteFields
<1>8. CASE Seed(r)
  BY Zenon, <1>0, <1>1, <1>8 DEF Seed, TxnFields, WriteFields
<1> QED BY Zenon, <1>2, <1>3, <1>4, <1>5, <1>6, <1>7, <1>8

\* An insert of an agent keeps the rows that are to stay apart.
LEMMA InsertKeeps ==
  ASSUME Inv, NEW r \in Request, NEW u, Insert(r, u), Shape(u),
         u.w.booked = txn[r].w.booked, u.w.slot = txn[r].w.slot,
         u.code = txn[r].code, u.op = txn[r].op, u.code \in u.w.new
  PROVE  Inv'
BY Zenon, SameRows, EndInErrorKeeps DEF Insert

\* The steps of a request that insert an agent.
LEMMA InsertsKeep ==
  ASSUME Inv, NEW r \in Request,
         InsertAgent(r) \/ InsertPersona(r) \/ InsertSeeded(r) \/ SeedNext(r)
  PROVE  Inv'
<1> DEFINE t == txn[r]
<1>0. Shape(t) /\ ClaimApart(t)
  BY Zenon DEF Inv, Types, Rows
<1>1. CASE InsertAgent(r)
  BY Zenon, <1>0, <1>1, InsertKeeps DEF InsertAgent, Shape, TxnFields, WriteFields
<1>2. CASE InsertPersona(r)
  BY Zenon, <1>0, <1>2, InsertKeeps DEF InsertPersona, Finish, Shape, TxnFields, WriteFields
<1>3. CASE InsertSeeded(r)
  BY Zenon, <1>0, <1>3, InsertKeeps DEF InsertSeeded, Shape, TxnFields, WriteFields
<1>4. CASE SeedNext(r)
  <2>1. t.w.slot = None
    BY Zenon, <1>0, <1>4 DEF SeedNext, Shape, ClaimApart
  <2>2. ASSUME NEW u, Set(r, u), UNCHANGED db, Shape(u), u.w = t.w
        PROVE  Inv'
    BY Zenon, <2>1, <2>2, SameRows
  <2>3. CASE Set(r, Finish(t))
    BY Zenon, <1>0, <1>4, <2>2, <2>3 DEF SeedNext, Finish, Shape, TxnFields
  <2>4. CASE Set(r, [t EXCEPT !.pick = @ + 1])
    BY Zenon, <1>0, <1>4, <2>2, <2>4 DEF SeedNext, Shape, TxnFields
  <2>5. CASE Set(r, [t EXCEPT !.pc = "insert", !.code = Seeds[t.pick]])
    BY Zenon, <1>0, <1>4, <2>2, <2>5 DEF SeedNext, Shape, TxnFields
  <2> QED BY Zenon, <1>4, <2>3, <2>4, <2>5 DEF SeedNext
<1> QED BY Zenon, <1>1, <1>2, <1>3, <1>4

\* The other steps of a request that book no room and claim no slot.
LEMMA PlainKeeps ==
  ASSUME Inv, NEW r \in Request, InsertVersion(r) \/ UpdateAgent(r) \/ ReleaseRoom(r)
  PROVE  Inv'
<1> DEFINE t == txn[r]
<1>0. Shape(t) /\ ClaimApart(t)
  BY Zenon DEF Inv, Types, Rows
<1>2. CASE InsertVersion(r)
  BY Zenon, <1>0, <1>2, SameRows, EndInErrorKeeps
     DEF InsertVersion, ClaimApart, Finish, Shape, TxnFields, WriteFields
<1>3. CASE UpdateAgent(r)
  BY Zenon, <1>0, <1>3, SameRows DEF UpdateAgent, ClaimApart, Shape, TxnFields, WriteFields
<1>4. CASE ReleaseRoom(r)
  <2> DEFINE u == Finish([t EXCEPT !.w.released = room[t.code] # None])
  <2>1. /\ Shape(u) /\ u.w.booked = t.w.booked /\ u.w.slot = t.w.slot
        /\ u.code = t.code /\ u.op = t.op /\ u.w.new = t.w.new
    BY <1>0 DEF Finish, Shape, TxnFields, WriteFields
  <2>2. t.w.slot # None => t.code \in t.w.new
    BY <1>0, <1>4 DEF ReleaseRoom, ClaimApart
  <2>3. Set(r, u) /\ UNCHANGED db
    BY <1>4 DEF ReleaseRoom
  <2> QED BY <2>1, <2>2, <2>3, SameRows
<1> QED BY Zenon, <1>2, <1>3, <1>4

\* Going on after ensure_assignment keeps the invariant, if the rows so far stay apart.
LEMMA HousekeptKeeps ==
  ASSUME Inv, NEW r \in Request, NEW t, Housekept(r, t), UNCHANGED db,
         Shape(t), BookedApart(t), t.w.slot # None => t.op = "register" /\ t.code \in t.w.new, ClaimApart(t),
         \A q \in Request \ {r} : Apart(t, txn[q])
  PROVE  Inv'
<1>1. ASSUME NEW u, Set(r, u), Shape(u), u.w = t.w, u.op = t.op,
             t.op # "list" => u.code = t.code
      PROVE  Inv'
  <2>1. BookedApart(u) /\ ClaimApart(u)
    BY Zenon, <1>1 DEF BookedApart, ClaimApart
  <2>2. \A q \in Request \ {r} : Apart(u, txn[q])
    BY Zenon, <1>1 DEF Apart
  <2> QED BY Zenon, <1>1, <2>1, <2>2, Quiet
<1>2. ASSUME NEW c \in t.todo, t.op = "list",
             Set(r, [t EXCEPT !.pc = "look", !.code = c, !.todo = @ \ {c}, !.pick = 0, !.tries = 0])
      PROVE  Inv'
  BY Zenon, <1>1, <1>2 DEF Shape, TxnFields
<1>3. CASE Set(r, Finish(t))
  BY Zenon, <1>1, <1>3 DEF Finish, Shape, TxnFields
<1> QED BY Zenon, <1>2, <1>3 DEF Housekept

\* Looking for a room and booking it keep the invariant.
LEMMA LookKeeps ==
  ASSUME Inv, NEW r \in Request, Look(r)
  PROVE  Inv'
<1> DEFINE t == txn[r]
<1>0. Shape(t) /\ BookedApart(t) /\ ClaimApart(t) /\ \A q \in Request \ {r} : Apart(t, txn[q])
  BY Zenon DEF Inv, Types, Rows
<1>1. t.w.slot # None => t.op = "register" /\ t.code \in t.w.new
  BY Zenon, <1>0 DEF Look, ClaimApart
<1>2. CASE Housekept(r, t)
  BY Zenon, <1>0, <1>1, <1>2, HousekeptKeeps DEF Look
<1>3. CASE Set(r, [t EXCEPT !.pc = "book", !.pick = lowest_free_slot({room_to_slot(x) : x \in Taken(t)})])
  BY Zenon, <1>0, <1>1, <1>3, SameRows DEF Look, Shape, TxnFields
<1> QED BY Zenon, <1>2, <1>3 DEF Look

LEMMA BookKeeps ==
  ASSUME Inv, NEW r \in Request, Book(r)
  PROVE  Inv'
<1> DEFINE t == txn[r]
           u == [t EXCEPT !.w = Clean, !.lost = TRUE, !.tries = @ + 1]
           v == [t EXCEPT !.w.booked = @ \cup {<<t.code, slot_to_room(t.pick)>>}]
<1>0. Shape(t) /\ BookedApart(t) /\ ClaimApart(t) /\ \A q \in Request \ {r} : Apart(t, txn[q])
  BY DEF Inv, Types, Rows
<1>1. t.w.slot # None => t.op = "register" /\ t.code \in t.w.new
  BY Zenon, <1>0 DEF Book, ClaimApart
<1>2. CASE RollBack(r, t)
  <2>1. Shape(u) /\ u.w = Clean
    BY Zenon, <1>0 DEF Shape, Clean, TxnFields, WriteFields
  <2>2. CASE Housekept(r, u)
    <3>1. u.w.slot = None
      BY <2>1 DEF Clean
    <3> QED BY Zenon, <2>1, <2>2, <3>1, CleanIsApart, HousekeptKeeps DEF Book
  <2>3. CASE Set(r, [u EXCEPT !.pc = "look", !.pick = 0])
    BY Zenon, <2>1, <2>3, FreshKeeps DEF Book, Shape, Clean, TxnFields
  <2> QED BY Zenon, <1>2, <2>2, <2>3 DEF RollBack
<1>3. CASE ~Collides(t) /\ Housekept(r, v)
  <2>1. /\ Shape(v) /\ v.w.booked = t.w.booked \cup {<<t.code, slot_to_room(t.pick)>>}
        /\ v.w.slot = t.w.slot /\ v.op = t.op /\ v.code = t.code /\ v.w.new = t.w.new
    BY Zenon, <1>0 DEF Shape, TxnFields, WriteFields
  <2>2. BookedApart(v)
    <3>1. \A c \in Code : room[c] # None => c # t.code /\ room[c] # slot_to_room(t.pick)
      BY Zenon, <1>3 DEF Collides, Taken, Housed
    <3>2. \A b \in t.w.booked : b[1] # t.code /\ b[2] # slot_to_room(t.pick)
      BY Zenon, <1>3 DEF Collides, Taken, Housed
    <3> QED BY <1>0, <2>1, <3>1, <3>2 DEF BookedApart
  <2>3. \A q \in Request \ {r} : Apart(v, txn[q])
    <3>1. ASSUME NEW q \in Request \ {r}, NEW b \in txn[q].w.booked
          PROVE  b[1] # t.code /\ b[2] # slot_to_room(t.pick)
      BY Zenon, <3>1 DEF Book, Other, Touches
    <3> QED BY <1>0, <2>1, <3>1 DEF Apart
  <2>4. ClaimApart(v)
    BY Zenon, <1>0, <1>1, <2>1 DEF ClaimApart
  <2> QED BY Zenon, <1>1, <1>3, <2>1, <2>2, <2>3, <2>4, HousekeptKeeps DEF Book
<1> QED BY Zenon, <1>2, <1>3 DEF Book

\* Claiming a persona slot keeps the invariant.
LEMMA ClaimSlotKeeps ==
  ASSUME Inv, NEW r \in Request, ClaimSlot(r)
  PROVE  Inv'
<1> DEFINE t == txn[r]
           u == [t EXCEPT !.pc = "insert", !.w.slot = t.pick]
<1>0. Shape(t) /\ BookedApart(t) /\ ClaimApart(t) /\ \A q \in Request \ {r} : Apart(t, txn[q])
  BY DEF Inv, Types, Rows
<1>1. CASE slot[t.code] = None /\ (\A d \in Code : slot[d] # t.pick) /\ Set(r, u)
  <2>1. /\ Shape(u) /\ u.w.booked = t.w.booked /\ u.w.slot = t.pick
        /\ u.pc = "insert" /\ u.op = t.op /\ u.code = t.code
    BY Zenon, <1>0 DEF Shape, TxnFields, WriteFields
  <2>2. BookedApart(u)
    BY Zenon, <1>0, <2>1 DEF BookedApart
  <2>3. ClaimApart(u)
    BY <1>0, <1>1, <2>1 DEF ClaimApart, ClaimSlot, Shape
  <2>4. \A q \in Request \ {r} : Apart(u, txn[q])
    BY <1>0, <2>1 DEF Apart, ClaimSlot, Other
  <2> QED BY Zenon, <1>1, <2>1, <2>2, <2>3, <2>4, Quiet DEF ClaimSlot
<1>2. CASE Set(r, Idle)
  BY Zenon, <1>2, EndInErrorKeeps DEF ClaimSlot, EndInError
<1>3. CASE Set(r, [t EXCEPT !.w = Clean, !.lost = TRUE, !.tries = @ + 1, !.pick = Min(FreeSlots)])
  BY Zenon, <1>0, <1>3, FreshKeeps DEF ClaimSlot, Shape, Clean, TxnFields, WriteFields
<1> QED BY Zenon, <1>1, <1>2, <1>3 DEF ClaimSlot

\* A commit makes the rows of one request visible.  They met no other row before.
LEMMA CommitKeeps ==
  ASSUME Inv, NEW r \in Request, Commit(r)
  PROVE  Inv' /\ \A c \in Code : room[c] # None => room'[c] \in {room[c], None}
<1> DEFINE t == txn[r]
           mine == {b[1] : b \in t.w.booked}
<1>0. Shape(t) /\ BookedApart(t) /\ ClaimApart(t) /\ \A q \in Request \ {r} : Apart(t, txn[q])
  BY DEF Inv, Types, Rows
<1>1. /\ txn' = [q \in Request |-> txn'[q]]
      /\ txn'[r] = Idle /\ \A q \in Request \ {r} : txn'[q] = txn[q]
  BY Zenon DEF Inv, Types, Set, Commit
<1>2. Idle.w = Clean /\ Shape(Idle)
  BY Zenon DEF Shape, Idle, Clean, TxnFields, WriteFields
<1>3. Types'
  <2>1. \A q \in Request : Shape(txn[q])'
    BY <1>1, <1>2 DEF Inv, Types, Shape
  <2>2. agent' = [c \in Code |-> agent'[c]] /\ slot' = [c \in Code |-> slot'[c]]
    BY Zenon DEF Inv, Types, Commit
  <2>3. room' = [c \in Code |-> room'[c]]
    BY Zenon DEF Commit
  <2> QED BY Zenon, <1>1, <2>1, <2>2, <2>3 DEF Types
<1>4. \A b \in t.w.booked : b[1] \in Code => room'[b[1]] = b[2]
  <2> SUFFICES ASSUME NEW b \in t.w.booked, b[1] \in Code
               PROVE  room'[b[1]] = b[2]
    OBVIOUS
  <2>1. room'[b[1]] = (CHOOSE a \in t.w.booked : a[1] = b[1])[2]
    BY Zenon DEF Commit
  <2>2. \A a \in t.w.booked : a[1] = b[1] => a = b
    BY Zenon, <1>0 DEF BookedApart
  <2>3. (CHOOSE a \in t.w.booked : a[1] = b[1]) = b
    BY Zenon, <2>2
  <2> QED BY Zenon, <2>1, <2>3
<1>5. \A c \in Code \ mine : room'[c] \in {room[c], None}
  BY Zenon DEF Commit
<1>6. \A c \in Code : room[c] # None => room'[c] \in {room[c], None}
  BY <1>0, <1>5 DEF BookedApart
<1>7. OneRoomEach'
  <2>1. \A c \in Code : room'[c] # None /\ room'[c] # room[c] =>
          \E b \in t.w.booked : b[1] = c /\ b[2] = room'[c]
    BY Zenon, <1>4, <1>5
  <2> SUFFICES ASSUME NEW c \in Code, NEW d \in Code, c # d, room'[c] # None, room'[d] = room'[c]
               PROVE  FALSE
    BY Zenon DEF OneRoomEach
  <2>2. CASE room'[c] = room[c] /\ room'[d] = room[d]
    BY Zenon, <2>2 DEF Inv, OneRoomEach
  <2>3. CASE room'[c] # room[c] /\ room'[d] # room[d]
    BY <2>1, <2>3, <1>0 DEF BookedApart
  <2>4. CASE room'[c] # room[c] /\ room'[d] = room[d]
    <3>1. PICK b \in t.w.booked : b[1] = c /\ b[2] = room'[c]
      BY Zenon, <2>1, <2>4
    <3> QED BY Zenon, <1>0, <2>4, <3>1 DEF BookedApart
  <2>5. CASE room'[c] = room[c] /\ room'[d] # room[d]
    BY <2>1, <2>5, <1>0 DEF BookedApart
  <2> QED BY Zenon, <2>2, <2>3, <2>4, <2>5
<1>8. \A c \in Code : slot'[c] # slot[c] => t.w.slot # None /\ c = t.code /\ slot'[c] = t.w.slot
  BY Zenon DEF Inv, Types, Commit
<1>9. SlotHasItsPersona'
  <2>1. \A c \in Code : agent[c] # "none" => agent'[c] # "none"
    BY Zenon, <1>0 DEF Inv, Types, Commit, Shape
  <2>2. t.w.slot # None /\ t.code \in Code => agent'[t.code] # "none"
    BY Zenon, <1>0 DEF Inv, Types, Commit, ClaimApart
  <2> QED BY <1>0, <1>8, <2>1, <2>2 DEF Inv, SlotHasItsPersona, ClaimApart
<1>10. Rows'
  <2>1. BookedApart(Idle)' /\ ClaimApart(Idle)'
    BY <1>2 DEF BookedApart, ClaimApart, Clean
  <2>2. ASSUME NEW q \in Request \ {r}
        PROVE  BookedApart(txn[q])' /\ ClaimApart(txn[q])'
    <3>1. BookedApart(txn[q]) /\ ClaimApart(txn[q]) /\ Apart(t, txn[q]) /\ txn'[q] = txn[q]
      BY Zenon, <1>0, <1>1 DEF Inv, Rows
    <3>2. \A c \in Code : room'[c] # None /\ room'[c] # room[c] =>
            \E b \in t.w.booked : b[1] = c /\ b[2] = room'[c]
      BY <1>4, <1>5
    <3>3. BookedApart(txn[q])'
      BY <3>1, <3>2 DEF BookedApart, Apart
    <3>4. ClaimApart(txn[q])'
      BY <3>1, <1>8 DEF ClaimApart, Apart
    <3> QED BY Zenon, <3>3, <3>4
  <2>3. \A p \in Request : \A q \in Request \ {p} : Apart(txn[p], txn[q])'
    BY <1>1, <1>2 DEF Inv, Rows, Apart, Clean
  <2> QED BY Zenon, <1>1, <2>1, <2>2, <2>3 DEF Rows
<1> QED BY Zenon, <1>3, <1>6, <1>7, <1>9, <1>10 DEF Inv

\* Every step keeps the invariant, and only a commit changes the rooms.
LEMMA Inductive ==
  Inv /\ [Next]_vars => Inv' /\ \A c \in Code : room[c] # None => room'[c] \in {room[c], None}
<1> SUFFICES ASSUME Inv, [Next]_vars
             PROVE  Inv' /\ \A c \in Code : room[c] # None => room'[c] \in {room[c], None}
  OBVIOUS
<1>1. CASE UNCHANGED vars
  BY <1>1 DEF vars, db, Inv, Types, Rows, Shape, BookedApart, ClaimApart, Apart, OneRoomEach,
              SlotHasItsPersona
<1>2. ASSUME NEW r \in Request, Commit(r)
      PROVE  Inv' /\ \A c \in Code : room[c] # None => room'[c] \in {room[c], None}
  BY Zenon, <1>2, CommitKeeps
<1>3. ASSUME NEW r \in Request,
             \/ InsertAgent(r) \/ InsertPersona(r) \/ SeedNext(r) \/ InsertSeeded(r)
             \/ InsertVersion(r) \/ UpdateAgent(r) \/ ReleaseRoom(r)
             \/ Look(r) \/ Book(r) \/ ClaimSlot(r) \/ ReadFails(r) \/ RequestFails(r)
      PROVE  Inv' /\ UNCHANGED room
  <2>1. Inv'
    BY Zenon, <1>3, InsertsKeep, PlainKeeps, LookKeeps, BookKeeps, ClaimSlotKeeps, EndInErrorKeeps
       DEF ReadFails, RequestFails
  <2>2. UNCHANGED room
    BY Zenon, <1>3 DEF InsertAgent, InsertPersona, SeedNext, InsertSeeded, Insert, InsertVersion,
                UpdateAgent, ReleaseRoom, Look, Book, ClaimSlot,
                ReadFails, RequestFails, EndInError, db
  <2> QED BY Zenon, <2>1, <2>2
<1>4. ASSUME NEW r \in Request,
             \/ \E c \in Code : Create(r, c) \/ CreateVersion(r, c) \/ Suspend(r, c)
             \/ \E c \in Code, v \in 1..MaxVersions : Activate(r, c, v)
             \/ \E c \in Persona : RegisterPersona(r, c)
             \/ Seed(r) \/ ListRooms(r)
      PROVE  Inv' /\ UNCHANGED room
  <2>1. Inv'
    BY Zenon, <1>4, BeginKeeps
  <2>2. UNCHANGED room
    BY Zenon, <1>4 DEF Create, Seed, CreateVersion, Suspend, Activate, RegisterPersona, ListRooms,
                Begins, db
  <2> QED BY <2>1, <2>2
<1> QED BY Zenon, <1>1, <1>2, <1>3, <1>4 DEF Next, Step

\* The invariant holds of an empty registry.
LEMMA Initially == Init => Inv
BY DEF Init, Inv, Types, Shape, Rows, BookedApart, ClaimApart, Apart, OneRoomEach,
       SlotHasItsPersona, Idle, Clean, TxnFields, WriteFields

\* ensure_assignment never gives two agents one room.
THEOREM RoomsAreExclusive == Spec => []OneRoomEach
<1>1. Inv => OneRoomEach
  BY DEF Inv
<1> QED BY <1>1, Initially, Inductive, PTL DEF Spec

\* ensure_assignment never moves an agent out of the room it has.
THEOREM RoomsAreKept == Spec => RoomIsKept
<1>1. Inv /\ [Next]_vars =>
        [\A c \in Code : room[c] # None => room'[c] \in {room[c], None}]_vars
  BY Inductive
<1> QED BY <1>1, Initially, Inductive, PTL DEF Spec, RoomIsKept

\* _claim_slot leaves no slot to a persona that is not registered, and none to two of them.
THEOREM SlotsAreUsed == Spec => []SlotHasItsPersona
<1>1. Inv => SlotHasItsPersona
  BY DEF Inv
<1> QED BY <1>1, Initially, Inductive, PTL DEF Spec

\* The least of a set of slots is one of them.
LEMMA LeastIsThere ==
  ASSUME NEW S \in SUBSET Nat, S # {}
  PROVE  Min(S) \in S /\ \A i \in S : Min(S) <= i
<1> DEFINE less == {p \in Nat \X Nat : p[1] < p[2]}
<1>1. IsWellFoundedOn(less, Nat)
  BY NatLessThanWellFounded DEF OpToRel
<1>2. \A i, j \in Nat : i < j => <<i, j>> \in less
  OBVIOUS
<1> HIDE DEF less
<1>3. PICK s \in S : \A i \in S : <<i, s>> \notin less
  BY <1>1, WFMin
<1>4. ASSUME NEW i \in S
      PROVE  s <= i
  <2>1. i \in Nat /\ s \in Nat /\ ~(i < s)
    BY Zenon, <1>2, <1>3
  <2> QED BY <2>1
<1> QED BY <1>4 DEF Min

\* lowest_free_slot ends, whatever rooms are occupied: the result is free and every slot below it
\* is occupied.  (The loop has no upper bound; there are at most as many occupied slots as rows.)
THEOREM LowestIsFree ==
  ASSUME NEW occupied, IsFiniteSet(occupied)
  PROVE  LET s == lowest_free_slot(occupied) IN
         /\ s \in 0..Cardinality(occupied) /\ s \notin occupied
         /\ \A i \in Nat : i < s => i \in occupied
<1> DEFINE n == Cardinality(occupied)
           free == 0..n \ occupied
<1>1. n \in Nat
  BY FS_CardinalityType
<1>2. IsFiniteSet(0..n) /\ Cardinality(0..n) = n + 1
  BY <1>1, FS_Interval
<1>3. free # {}
  <2> SUFFICES ASSUME 0..n \subseteq occupied
               PROVE  FALSE
    OBVIOUS
  <2>1. Cardinality(0..n) <= n
    BY FS_Subset
  <2> QED BY <1>1, <1>2, <2>1
<1>4. free \subseteq Nat
  BY <1>1
<1>5. Min(free) \in free /\ \A i \in free : Min(free) <= i
  <2> HIDE DEF free
  <2> QED BY <1>3, <1>4, LeastIsThere
<1> QED BY <1>1, <1>5 DEF lowest_free_slot

\* room_to_slot undoes slot_to_room.
LEMMA RoomsAreSlots ==
  \A s \in Nat : slot_to_room(s) \in Nat \X (1..RoomsPerFloor) /\ room_to_slot(slot_to_room(s)) = s
BY DEF slot_to_room, room_to_slot, RoomsPerFloor

\* Whatever rooms are in use, the one that ensure_assignment computes from them is not: the slots
\* of the rows, the lowest free one and its room fit together.
THEOREM RoomIsFree ==
  ASSUME NEW rooms, IsFiniteSet(rooms)
  PROVE  slot_to_room(lowest_free_slot({room_to_slot(x) : x \in rooms})) \notin rooms
<1> DEFINE occupied == {room_to_slot(x) : x \in rooms}
           s == lowest_free_slot(occupied)
<1>1. IsFiniteSet(occupied)
  <2> DEFINE f == [x \in rooms |-> room_to_slot(x)]
  <2>1. f \in Surjection(rooms, occupied)
    BY Zenon DEF Surjection
  <2> HIDE DEF f, occupied
  <2> QED BY <2>1, FS_Surjection
<1>2. s \in Nat /\ s \notin occupied
  <2> HIDE DEF occupied
  <2> QED BY <1>1, LowestIsFree, FS_CardinalityType
<1> QED BY <1>2, RoomsAreSlots, Zenon
-----------------------------------------------------------------------------
(***************************************************************************)
(* Version numbers and columns.  create_agent_version computes its number   *)
(* from a read that may be stale when it inserts; then the number is taken, *)
(* because a committed number is never below one that is missing.  A number *)
(* that is inserted therefore follows the last committed one, and stays so  *)
(* until it is committed, because no other request can insert it.           *)
(***************************************************************************)

\* What is committed of an agent: its versions are counted by its rows, and it has one of them
\* active from the commit of its insert on.
Committed(c) ==
  /\ agent[c] \in {"none", "active", "suspended"}
  /\ rows[c] \in 0..MaxVersions /\ versions[c] = 1..rows[c]
  /\ active[c] \in 0..rows[c]
  /\ agent[c] = "none" <=> rows[c] = 0
  /\ agent[c] = "none" <=> active[c] = 0

\* What a request has written or is about to write of an agent fits what is committed.  A version
\* that create_agent_version is about to insert may be taken by now; one that it has inserted
\* follows the last committed one.
Numbered(t) ==
  /\ \A c \in t.w.new \cap Code : agent[c] = "none"
  /\ t.pc = "version" =>
       /\ t.op = "version" /\ t.code \in Code /\ agent[t.code] # "none"
       /\ t.pick \in 1..MaxVersions /\ t.pick <= rows[t.code] + 1
  /\ t.w.version # 0 =>
       /\ t.op = "version" /\ t.code \in Code /\ agent[t.code] # "none"
       /\ t.w.version = rows[t.code] + 1 /\ t.w.version <= MaxVersions
  /\ t.w.state # "same" \/ t.w.active # 0 =>
       /\ t.op \in {"activate", "suspend"} /\ t.code \in Code /\ agent[t.code] # "none"
       /\ t.w.active \in 0..rows[t.code]
  /\ t.w.state \in {"same", "active", "suspended"}

\* Two requests insert different agents, and versions of different agents.
Differ(t, u) ==
  /\ \A c \in t.w.new \cap Code : c \notin u.w.new
  /\ t.w.version # 0 /\ u.w.version # 0 => t.code # u.code

\* The rooms and the slot that a request has written or is about to write exist.
Exists(t) ==
  /\ IsFiniteSet(t.w.booked) /\ \A b \in t.w.booked : b[2] \in Nat \X (1..RoomsPerFloor)
  /\ t.pc = "book" => t.pick \in Nat
  /\ t.pc = "claim" => t.pick \in 0..Cap - 1
  /\ t.w.slot \in (0..Cap - 1) \cup {None}

\* The columns of the tables.
Columns ==
  /\ versions = [c \in Code |-> versions[c]] /\ rows = [c \in Code |-> rows[c]]
  /\ active = [c \in Code |-> active[c]]
  /\ room \in [Code -> (Nat \X (1..RoomsPerFloor)) \cup {None}]
  /\ slot \in [Code -> (0..Cap - 1) \cup {None}]

\* The inductive invariant for the columns and the version numbers.
Numbering ==
  /\ Columns /\ \A c \in Code : Committed(c)
  /\ \A r \in Request :
       /\ Numbered(txn[r]) /\ Exists(txn[r])
       /\ \A q \in Request \ {r} : Differ(txn[r], txn[q])
-----------------------------------------------------------------------------
\* A step of one request that commits nothing keeps the numbering, if what the request holds fits.
LEMMA QuietNumbers ==
  ASSUME Inv, Numbering, NEW r \in Request, NEW t, Set(r, t), UNCHANGED db,
         Numbered(t), Exists(t), \A q \in Request \ {r} : Differ(t, txn[q])
  PROVE  Numbering'
<1>1. txn'[r] = t /\ \A q \in Request \ {r} : txn'[q] = txn[q]
  BY Zenon DEF Inv, Types, Set
<1>2. UNCHANGED <<agent, versions, rows, active, room, slot>>
  BY Zenon DEF db
<1>3. Columns' /\ \A c \in Code : Committed(c)'
  BY <1>2 DEF Numbering, Columns, Committed
<1>4. ASSUME NEW q \in Request
      PROVE  Numbered(txn[q])' /\ Exists(txn[q])'
  <2>1. CASE q = r
    BY Zenon, <1>1, <1>2, <2>1 DEF Numbered, Exists
  <2>2. CASE q # r
    <3>1. Numbered(txn[q]) /\ Exists(txn[q]) /\ txn'[q] = txn[q]
      BY Zenon, <1>1, <2>2 DEF Numbering
    <3> QED BY Zenon, <1>2, <3>1 DEF Numbered, Exists
  <2> QED BY <2>1, <2>2
<1>5. \A p \in Request : \A q \in Request \ {p} : Differ(txn[p], txn[q])'
  BY <1>1 DEF Numbering, Differ
<1> QED BY Zenon, <1>3, <1>4, <1>5 DEF Numbering

\* A step that keeps what a request has written, and prepares no write of its own.
LEMMA SameNumbers ==
  ASSUME Inv, Numbering, NEW r \in Request, NEW t, Set(r, t), UNCHANGED db,
         \A f \in WriteFields \ {"released"} : t.w[f] = txn[r].w[f],
         t.pc \notin {"version", "claim"}, t.pc = "book" => t.pick \in Nat,
         t.op = txn[r].op, t.code = txn[r].code \/ t.op \in {"seed", "list"}
  PROVE  Numbering'
<1>0. /\ t.w.new = txn[r].w.new /\ t.w.version = txn[r].w.version
      /\ t.w.state = txn[r].w.state /\ t.w.active = txn[r].w.active
      /\ t.w.booked = txn[r].w.booked /\ t.w.slot = txn[r].w.slot
  BY DEF WriteFields
<1>1. Numbered(t)
  BY <1>0 DEF Numbering, Numbered
<1>2. Exists(t)
  BY Zenon, <1>0 DEF Numbering, Exists
<1>3. \A q \in Request \ {r} : Differ(t, txn[q])
  BY <1>0 DEF Numbering, Numbered, Differ
<1> QED BY Zenon, <1>1, <1>2, <1>3, QuietNumbers

\* A request that has written nothing, or no more than the columns of an agent that exists.
LEMMA FreshNumbers ==
  ASSUME Inv, Numbering, NEW r \in Request, NEW t, Set(r, t), UNCHANGED db,
         t.w.new = {}, t.w.version = 0, t.w.booked = {}, t.w.slot = None, 
         Numbered(t), t.pc # "book", t.pc = "claim" => t.pick \in 0..Cap - 1
  PROVE  Numbering'
<1>1. IsFiniteSet(t.w.booked)
  BY FS_EmptySet
<1>2. Exists(t) 
  BY Zenon, <1>1 DEF Exists
<1>3. \A q \in Request \ {r} : Differ(t, txn[q])
  BY Zenon DEF Differ
<1> QED BY Zenon, <1>2, <1>3, QuietNumbers

\* A request that has written nothing fits whatever is committed.
LEMMA CleanNumbers ==
  ASSUME NEW t, t.w = Clean, t.pc # "version"
  PROVE  /\ Numbered(t)
         /\ t.w.new = {} /\ t.w.version = 0 /\ t.w.booked = {} /\ t.w.slot = None
BY DEF Numbered, Clean

\* A request that ends in an error keeps the numbering.
LEMMA ErrorNumbers ==
  ASSUME Inv, Numbering, NEW r \in Request, EndInError(r)
  PROVE  Numbering'
<1>1. Idle.w = Clean /\ Idle.pc = "idle"
  BY DEF Idle
<1> QED BY Zenon, <1>1, FreshNumbers, CleanNumbers DEF EndInError

\* The number that create_agent_version computes is the next one.
LEMMA NextNumber ==
  ASSUME NEW n \in Nat \ {0}
  PROVE  Cardinality(1..n) = n /\ Max(1..n) = n
<1>1. Cardinality(1..n) = n
  BY FS_Interval
<1>2. n \in 1..n /\ \A i \in 1..n : i <= n
  OBVIOUS
<1>3. \A k \in 1..n : (\A i \in 1..n : i <= k) => k = n
  BY <1>2
<1> QED BY <1>1, <1>2, <1>3 DEF Max

\* _claim_slot picks a slot below PERSONA_SLOT_CAP.
LEMMA FreeSlotExists ==
  ASSUME FreeSlots # {}
  PROVE  Min(FreeSlots) \in 0..Cap - 1
BY LeastIsThere DEF FreeSlots

\* Every first step of a request keeps the numbering.
LEMMA BeginNumbers ==
  ASSUME Inv, Numbering, NEW r \in Request,
         \/ \E c \in Code : Create(r, c) \/ CreateVersion(r, c) \/ Suspend(r, c)
         \/ \E c \in Code, v \in 1..MaxVersions : Activate(r, c, v)
         \/ \E c \in Persona : RegisterPersona(r, c)
         \/ Seed(r) \/ ListRooms(r)
  PROVE  Numbering'
<1>0. DOMAIN Idle = TxnFields /\ DOMAIN Idle.w = WriteFields /\ Idle.w = Clean
      /\ Clean.new = {} /\ Clean.version = 0 /\ Clean.active = 0 /\ Clean.booked = {}
      /\ Clean.slot = None
  BY Zenon DEF Idle, Clean, TxnFields, WriteFields
<1>1. ASSUME NEW t, Begins(r, t), t.w = Clean, t.pc \notin {"version", "book"}, 
             t.pc = "claim" => t.pick \in 0..Cap - 1
      PROVE  Numbering'
  BY Zenon, <1>1, FreshNumbers, CleanNumbers DEF Begins
<1>2. ASSUME NEW c, Create(r, c)
      PROVE  Numbering'
  BY Zenon, <1>0, <1>1, <1>2 DEF Create, TxnFields
<1>3. CASE Seed(r)
  BY Zenon, <1>0, <1>1, <1>3 DEF Seed, TxnFields
<1>4. CASE ListRooms(r)
  BY Zenon, <1>0, <1>1, <1>4 DEF ListRooms, TxnFields
<1>5. ASSUME NEW c, RegisterPersona(r, c)
      PROVE  Numbering'
  BY Zenon, <1>0, <1>1, <1>5, FreeSlotExists DEF RegisterPersona, TxnFields
<1>6. ASSUME NEW c \in Code, CreateVersion(r, c)
      PROVE  Numbering'
  <2> DEFINE t == [Idle EXCEPT !.pc = "version", !.op = "version", !.code = c,
                               !.pick = Max(versions[c]) + 1]
  <2>1. t.w = Clean /\ t.pc = "version" /\ t.op = "version" /\ t.code = c
    BY Zenon, <1>0 DEF TxnFields
  <2>2. t.pick = Max(versions[c]) + 1
    BY Zenon, <1>0 DEF TxnFields
  <2>3. /\ agent[c] # "none" /\ Cardinality(versions[c]) < MaxVersions
        /\ Set(r, t) /\ UNCHANGED db
    BY Zenon, <1>6 DEF CreateVersion, Begins
  <2>4. rows[c] \in 1..MaxVersions /\ versions[c] = 1..rows[c]
    BY <2>3 DEF Numbering, Committed
  <2>5. t.pick = rows[c] + 1 /\ rows[c] < MaxVersions
    BY <2>2, <2>3, <2>4, NextNumber, RegistryAssumption
  <2> HIDE DEF t
  <2>6. Numbered(t)
    BY <2>1, <2>3, <2>4, <2>5, RegistryAssumption DEF Numbered, Clean
  <2> QED BY <2>1, <2>3, <2>6, FreshNumbers DEF Clean
<1>7. ASSUME NEW c \in Code, NEW v, Activate(r, c, v)
      PROVE  Numbering'
  <2> DEFINE s == IF agent[c] = "active" THEN "same" ELSE "active"
             a == IF active[c] = v THEN 0 ELSE v
             t == [Idle EXCEPT !.pc = "update", !.op = "activate", !.code = c,
                               !.w.state = s, !.w.active = a]
  <2>1. /\ t.pc = "update" /\ t.op = "activate" /\ t.code = c /\ t.w.state = s /\ t.w.active = a
        /\ t.w.new = {} /\ t.w.version = 0 /\ t.w.booked = {} /\ t.w.slot = None
    BY Zenon, <1>0 DEF TxnFields, WriteFields
  <2>2. agent[c] # "none" /\ v \in versions[c] /\ Set(r, t) /\ UNCHANGED db
    BY Zenon, <1>7 DEF Activate, Begins
  <2>3. a \in 0..rows[c] /\ s \in {"same", "active"}
    BY <2>2 DEF Numbering, Committed
  <2> HIDE DEF t, a, s
  <2>4. Numbered(t)
    BY <2>1, <2>2, <2>3 DEF Numbered
  <2> QED BY Zenon, <2>1, <2>2, <2>4, FreshNumbers
<1>8. ASSUME NEW c \in Code, Suspend(r, c)
      PROVE  Numbering'
  <2> DEFINE s == IF agent[c] = "suspended" THEN "same" ELSE "suspended"
             t == [Idle EXCEPT !.pc = "update", !.op = "suspend", !.code = c, !.w.state = s]
  <2>1. /\ t.pc = "update" /\ t.op = "suspend" /\ t.code = c /\ t.w.state = s /\ t.w.active = 0
        /\ t.w.new = {} /\ t.w.version = 0 /\ t.w.booked = {} /\ t.w.slot = None
    BY Zenon, <1>0 DEF TxnFields, WriteFields
  <2>2. agent[c] # "none" /\ Set(r, t) /\ UNCHANGED db
    BY Zenon, <1>8 DEF Suspend, Begins
  <2>3. rows[c] \in Nat /\ s \in {"same", "suspended"}
    BY RegistryAssumption DEF Numbering, Committed
  <2> HIDE DEF t, s
  <2>4. Numbered(t)
    BY <2>1, <2>2, <2>3 DEF Numbered
  <2> QED BY Zenon, <2>1, <2>2, <2>4, FreshNumbers
<1> QED BY Zenon, <1>2, <1>3, <1>4, <1>5, <1>6, <1>7, <1>8, RegistryAssumption
\* An insert of an agent keeps the numbering: no agent of the code is committed, and no other
\* request has inserted one.
LEMMA InsertNumbers ==
  ASSUME Inv, Numbering, NEW r \in Request, NEW u, Insert(r, u),
         u.w.new \subseteq txn[r].w.new \cup {txn[r].code},
         \A f \in WriteFields \ {"new"} : u.w[f] = txn[r].w[f],
         u.op = txn[r].op, u.code = txn[r].code, u.pc \notin {"version", "book", "claim"}
  PROVE  Numbering'
<1> DEFINE t == txn[r]
<1>0. Numbered(t) /\ Exists(t) /\ \A q \in Request \ {r} : Differ(t, txn[q])
  BY Zenon DEF Numbering
<1>1. /\ u.w.version = t.w.version /\ u.w.state = t.w.state /\ u.w.active = t.w.active
      /\ u.w.booked = t.w.booked /\ u.w.slot = t.w.slot
  BY DEF WriteFields
<1>2. CASE EndInError(r)
  BY Zenon, <1>2, ErrorNumbers
<1>3. CASE agent[t.code] = "none" /\ Set(r, u) /\ UNCHANGED db
  <2>1. Numbered(u)
    BY <1>0, <1>1, <1>3 DEF Numbered
  <2>2. Exists(u)
    BY Zenon, <1>0, <1>1 DEF Exists
  <2>3. \A q \in Request \ {r} : t.code \notin txn[q].w.new
    BY Zenon DEF Insert, Other
  <2>4. \A q \in Request \ {r} : Differ(u, txn[q])
    BY <1>0, <1>1, <2>3 DEF Differ
  <2> QED BY Zenon, <1>3, <2>1, <2>2, <2>4, QuietNumbers
<1> QED BY Zenon, <1>2, <1>3 DEF Insert

\* The steps of a request that insert an agent.
LEMMA InsertsNumber ==
  ASSUME Inv, Numbering, NEW r \in Request,
         InsertAgent(r) \/ InsertPersona(r) \/ InsertSeeded(r) \/ SeedNext(r)
  PROVE  Numbering'
<1> DEFINE t == txn[r]
<1>0. Shape(t)
  BY Zenon DEF Inv, Types
<1>1. ASSUME NEW u, Insert(r, u), u.w.new \subseteq t.w.new \cup {t.code},
             \A f \in WriteFields \ {"new"} : u.w[f] = t.w[f],
             u.op = t.op, u.code = t.code, u.pc \in {"look", "finish", "seed"}
      PROVE  Numbering'
  BY Zenon, <1>1, InsertNumbers
<1>2. CASE InsertAgent(r)
  <2> DEFINE u == [t EXCEPT !.pc = "look", !.w.new = {t.code}]
  <2>1. /\ u.pc = "look" /\ u.op = t.op /\ u.code = t.code /\ u.w.new = {t.code}
        /\ \A f \in WriteFields \ {"new"} : u.w[f] = t.w[f]
    BY Zenon, <1>0 DEF Shape, TxnFields, WriteFields
  <2>2. Insert(r, u)
    BY Zenon, <1>2 DEF InsertAgent
  <2> HIDE DEF u
  <2> QED BY Zenon, <1>1, <2>1, <2>2
<1>3. CASE InsertPersona(r)
  <2> DEFINE u == Finish([t EXCEPT !.w.new = {t.code}])
  <2>1. /\ u.pc = "finish" /\ u.op = t.op /\ u.code = t.code /\ u.w.new = {t.code}
        /\ \A f \in WriteFields \ {"new"} : u.w[f] = t.w[f]
    BY Zenon, <1>0 DEF Finish, Shape, TxnFields, WriteFields
  <2>2. Insert(r, u)
    BY Zenon, <1>3 DEF InsertPersona
  <2> HIDE DEF u
  <2> QED BY Zenon, <1>1, <2>1, <2>2
<1>4. CASE InsertSeeded(r)
  <2> DEFINE u == [t EXCEPT !.pc = "seed", !.pick = @ + 1, !.w.new = @ \cup {t.code}]
  <2>1. /\ u.pc = "seed" /\ u.op = t.op /\ u.code = t.code /\ u.w.new = t.w.new \cup {t.code}
        /\ \A f \in WriteFields \ {"new"} : u.w[f] = t.w[f]
    BY Zenon, <1>0 DEF Shape, TxnFields, WriteFields
  <2>2. Insert(r, u)
    BY Zenon, <1>4 DEF InsertSeeded
  <2> HIDE DEF u
  <2> QED BY Zenon, <1>1, <2>1, <2>2
<1>5. CASE SeedNext(r)
  <2>1. t.op = "seed" /\ UNCHANGED db
    BY Zenon, <1>0, <1>5 DEF SeedNext, Shape
  <2>2. ASSUME NEW u, Set(r, u), u.w = t.w, u.op = t.op, u.pc \in {"seed", "insert", "finish"}
        PROVE  Numbering'
    BY Zenon, <2>1, <2>2, SameNumbers
  <2>3. CASE Set(r, Finish(t))
    BY Zenon, <1>0, <2>2, <2>3 DEF Finish, Shape, TxnFields
  <2>4. CASE Set(r, [t EXCEPT !.pick = @ + 1])
    BY Zenon, <1>0, <1>5, <2>2, <2>4 DEF SeedNext, Shape, TxnFields
  <2>5. CASE Set(r, [t EXCEPT !.pc = "insert", !.code = Seeds[t.pick]])
    BY Zenon, <1>0, <2>2, <2>5 DEF Shape, TxnFields
  <2> QED BY Zenon, <1>5, <2>3, <2>4, <2>5 DEF SeedNext
<1> QED BY Zenon, <1>2, <1>3, <1>4, <1>5

\* The insert of a version: the number is free, so that it follows the last committed one; and no
\* other request has inserted it.
LEMMA VersionNumbers ==
  ASSUME Inv, Numbering, NEW r \in Request, InsertVersion(r)
  PROVE  Numbering'
<1> DEFINE t == txn[r]
           u == Finish([t EXCEPT !.w.version = t.pick])
<1>0. Shape(t) /\ Numbered(t) /\ Exists(t) /\ \A q \in Request \ {r} : Differ(t, txn[q])
  BY Zenon DEF Inv, Types, Numbering
<1>1. CASE EndInError(r)
  BY Zenon, <1>1, ErrorNumbers
<1>2. CASE t.pick \notin versions[t.code] /\ Set(r, u) /\ UNCHANGED db
  <2>1. /\ u.pc = "finish" /\ u.op = t.op /\ u.code = t.code /\ u.w.version = t.pick
        /\ u.w.new = t.w.new /\ u.w.state = t.w.state /\ u.w.active = t.w.active
        /\ u.w.booked = t.w.booked /\ u.w.slot = t.w.slot
    BY Zenon, <1>0 DEF Finish, Shape, TxnFields, WriteFields
  <2> HIDE DEF u
  <2>2. /\ t.op = "version" /\ t.code \in Code /\ agent[t.code] # "none"
        /\ t.pick \in 1..MaxVersions /\ t.pick <= rows[t.code] + 1
    BY <1>0 DEF InsertVersion, Numbered
  <2>3. versions[t.code] = 1..rows[t.code] /\ rows[t.code] \in Nat
    BY <2>2, RegistryAssumption DEF Numbering, Committed
  <2>4. t.pick = rows[t.code] + 1
    BY <1>2, <2>2, <2>3, RegistryAssumption
  <2>5. Numbered(u)
    BY <1>0, <2>1, <2>2, <2>4, RegistryAssumption DEF Numbered
  <2>6. Exists(u)
    BY Zenon, <1>0, <2>1 DEF Exists
  <2>7. ASSUME NEW q \in Request \ {r}
        PROVE  Differ(u, txn[q])
    <3>1. ~(txn[q].code = t.code /\ txn[q].w.version = t.pick)
      BY Zenon DEF InsertVersion, Other
    <3>2. txn[q].w.version # 0 => txn[q].w.version = rows[txn[q].code] + 1
      BY DEF Numbering, Numbered
    <3> QED BY <1>0, <2>1, <2>4, <3>1, <3>2 DEF Differ
  <2> QED BY Zenon, <1>2, <2>1, <2>5, <2>6, <2>7, QuietNumbers
<1> QED BY Zenon, <1>1, <1>2 DEF InsertVersion

\* An update of an agent, and the release of its room.
LEMMA PlainNumbers ==
  ASSUME Inv, Numbering, NEW r \in Request, UpdateAgent(r) \/ ReleaseRoom(r)
  PROVE  Numbering'
<1> DEFINE t == txn[r]
<1>0. Shape(t)
  BY Zenon DEF Inv, Types
<1>1. CASE UpdateAgent(r)
  <2> DEFINE u == [t EXCEPT !.pc = IF t.op = "activate" THEN "look" ELSE "release"]
  <2>1. u.pc \in {"look", "release"} /\ u.op = t.op /\ u.code = t.code /\ u.w = t.w
    BY Zenon, <1>0 DEF Shape, TxnFields
  <2>2. Set(r, u) /\ UNCHANGED db
    BY Zenon, <1>1 DEF UpdateAgent
  <2> HIDE DEF u
  <2> QED BY Zenon, <2>1, <2>2, SameNumbers
<1>2. CASE ReleaseRoom(r)
  <2> DEFINE u == Finish([t EXCEPT !.w.released = room[t.code] # None])
  <2>1. /\ u.pc = "finish" /\ u.op = t.op /\ u.code = t.code
        /\ \A f \in WriteFields \ {"released"} : u.w[f] = t.w[f]
    BY Zenon, <1>0 DEF Finish, Shape, TxnFields, WriteFields
  <2>2. Set(r, u) /\ UNCHANGED db
    BY Zenon, <1>2 DEF ReleaseRoom
  <2> HIDE DEF u
  <2> QED BY Zenon, <2>1, <2>2, SameNumbers
<1> QED BY Zenon, <1>1, <1>2

\* Going on after ensure_assignment keeps the numbering.
LEMMA HousekeptNumbers ==
  ASSUME Inv, Numbering, NEW r \in Request, NEW t, Housekept(r, t), UNCHANGED db, Shape(t),
         Numbered(t), t.pc # "version",
         IsFiniteSet(t.w.booked), \A b \in t.w.booked : b[2] \in Nat \X (1..RoomsPerFloor),
         t.w.slot \in (0..Cap - 1) \cup {None},
         \A q \in Request \ {r} : Differ(t, txn[q])
  PROVE  Numbering'
<1>1. ASSUME NEW u, Set(r, u), u.w = t.w, u.op = t.op, u.pc \in {"look", "finish"},
             u.code = t.code \/ u.op = "list"
      PROVE  Numbering'
  <2>1. Numbered(u)
    BY <1>1 DEF Numbered
  <2>2. Exists(u)
    BY Zenon, <1>1 DEF Exists
  <2>3. \A q \in Request \ {r} : Differ(u, txn[q])
    BY <1>1 DEF Numbered, Differ
  <2> QED BY Zenon, <1>1, <2>1, <2>2, <2>3, QuietNumbers
<1>2. ASSUME NEW c \in t.todo, t.op = "list",
             Set(r, [t EXCEPT !.pc = "look", !.code = c, !.todo = @ \ {c}, !.pick = 0, !.tries = 0])
      PROVE  Numbering'
  BY Zenon, <1>1, <1>2 DEF Shape, TxnFields
<1>3. CASE Set(r, Finish(t))
  BY Zenon, <1>1, <1>3 DEF Finish, Shape, TxnFields
<1> QED BY Zenon, <1>2, <1>3 DEF Housekept

\* The rooms that a request sees as taken are finitely many, so that a slot is found.
LEMMA SlotIsFound ==
  ASSUME NEW t, IsFiniteSet(t.w.booked)
  PROVE  lowest_free_slot({room_to_slot(x) : x \in Taken(t)}) \in Nat
<1> DEFINE housed == {d \in Code : room[d] # None}
           theirs == {room[c] : c \in housed}
           mine == {b[2] : b \in t.w.booked}
           occupied == {room_to_slot(x) : x \in theirs \cup mine}
<1>1. IsFiniteSet(housed)
  BY FS_Subset, RegistryAssumption
<1>2. IsFiniteSet(theirs)
  <2> DEFINE f == [c \in housed |-> room[c]]
  <2>1. f \in Surjection(housed, theirs)
    BY Zenon DEF Surjection
  <2> HIDE DEF f, housed, theirs
  <2> QED BY <1>1, <2>1, FS_Surjection
<1>3. IsFiniteSet(mine)
  <2> DEFINE f == [b \in t.w.booked |-> b[2]]
  <2>1. f \in Surjection(t.w.booked, mine)
    BY Zenon DEF Surjection
  <2> HIDE DEF f, mine
  <2> QED BY <2>1, FS_Surjection
<1>4. IsFiniteSet(occupied)
  <2> DEFINE all == theirs \cup mine
             f == [x \in all |-> room_to_slot(x)]
  <2>1. f \in Surjection(all, occupied)
    BY Zenon DEF Surjection
  <2>2. IsFiniteSet(all)
    <3> HIDE DEF theirs, mine
    <3> QED BY <1>2, <1>3, FS_Union
  <2> HIDE DEF f, all, occupied
  <2> QED BY <2>1, <2>2, FS_Surjection
<1>5. lowest_free_slot(occupied) \in Nat
  <2> HIDE DEF occupied
  <2> QED BY <1>4, LowestIsFree, FS_CardinalityType
<1> QED BY Zenon, <1>5 DEF Taken

\* Looking for a room and booking it keep the numbering.
LEMMA LookNumbers ==
  ASSUME Inv, Numbering, NEW r \in Request, Look(r)
  PROVE  Numbering'
<1> DEFINE t == txn[r]
<1>0. /\ Shape(t) /\ Numbered(t) /\ Exists(t) /\ \A q \in Request \ {r} : Differ(t, txn[q])
      /\ t.pc = "look" /\ UNCHANGED db
  BY Zenon DEF Inv, Types, Numbering, Look
<1>1. CASE Housekept(r, t)
  BY Zenon, <1>0, <1>1, HousekeptNumbers DEF Exists
<1>2. CASE Set(r, [t EXCEPT !.pc = "book", !.pick = lowest_free_slot({room_to_slot(x) : x \in Taken(t)})])
  <2>1. lowest_free_slot({room_to_slot(x) : x \in Taken(t)}) \in Nat
    BY Zenon, <1>0, SlotIsFound DEF Exists
  <2> QED BY Zenon, <1>0, <1>2, <2>1, SameNumbers DEF Shape, TxnFields
<1> QED BY Zenon, <1>1, <1>2 DEF Look

\* Booking a room, or rolling back after a collision, keeps the numbering.
LEMMA BookNumbers ==
  ASSUME Inv, Numbering, NEW r \in Request, Book(r)
  PROVE  Numbering'
<1> DEFINE t == txn[r]
           x == <<t.code, slot_to_room(t.pick)>>
           u == [t EXCEPT !.w = Clean, !.lost = TRUE, !.tries = @ + 1]
           v == [t EXCEPT !.w.booked = @ \cup {x}]
<1>0. /\ Shape(t) /\ Numbered(t) /\ Exists(t) /\ \A q \in Request \ {r} : Differ(t, txn[q])
      /\ t.pc = "book" /\ t.pick \in Nat /\ UNCHANGED db
  BY Zenon DEF Inv, Types, Numbering, Exists, Book
<1>1. CASE RollBack(r, t)
  <2>1. Shape(u) /\ u.w = Clean /\ u.pc = "book"
    BY Zenon, <1>0 DEF Shape, Clean, TxnFields, WriteFields
  <2>2. CASE Housekept(r, u)
    <3> HIDE DEF u
    <3>1. Numbered(u) /\ u.w.booked = {} /\ u.w.slot = None /\ u.w.new = {} /\ u.w.version = 0
      BY Zenon, <2>1, CleanNumbers
    <3>2. \A q \in Request \ {r} : Differ(u, txn[q])
      BY Zenon, <3>1 DEF Differ
    <3>3. IsFiniteSet(u.w.booked)
      BY <3>1, FS_EmptySet
    <3> QED BY Zenon, <1>0, <2>1, <2>2, <3>1, <3>2, <3>3, HousekeptNumbers
  <2>3. CASE Set(r, [u EXCEPT !.pc = "look", !.pick = 0])
    <3> DEFINE s == [u EXCEPT !.pc = "look", !.pick = 0]
    <3>1. s.w = Clean /\ s.pc = "look"
      BY Zenon, <2>1 DEF Shape, TxnFields
    <3>2. Set(r, s)
      BY Zenon, <2>3
    <3> HIDE DEF s
    <3> QED BY Zenon, <1>0, <3>1, <3>2, FreshNumbers, CleanNumbers
  <2> QED BY Zenon, <1>1, <2>2, <2>3 DEF RollBack
<1>2. CASE Housekept(r, v)
  <2>1. /\ Shape(v) /\ v.w.booked = t.w.booked \cup {x} /\ v.w.slot = t.w.slot
        /\ v.w.new = t.w.new /\ v.w.version = t.w.version /\ v.w.state = t.w.state
        /\ v.w.active = t.w.active /\ v.op = t.op /\ v.code = t.code /\ v.pc = t.pc
    BY Zenon, <1>0 DEF Shape, TxnFields, WriteFields
  <2>2. x[2] \in Nat \X (1..RoomsPerFloor)
    BY Zenon, <1>0, RoomsAreSlots
  <2> HIDE DEF v, x
  <2>3. Numbered(v)
    BY <1>0, <2>1 DEF Numbered
  <2>4. IsFiniteSet(v.w.booked)
    BY <1>0, <2>1, FS_AddElement DEF Exists
  <2>5. \A b \in v.w.booked : b[2] \in Nat \X (1..RoomsPerFloor)
    BY Zenon, <1>0, <2>1, <2>2 DEF Exists
  <2>6. \A q \in Request \ {r} : Differ(v, txn[q])
    BY Zenon, <1>0, <2>1 DEF Differ
  <2>7. v.w.slot \in (0..Cap - 1) \cup {None}
    BY Zenon, <1>0, <2>1 DEF Exists
  <2>8. Housekept(r, v)
    BY <1>2 DEF v
  <2> QED BY Zenon, <1>0, <2>1, <2>3, <2>4, <2>5, <2>6, <2>7, <2>8, HousekeptNumbers
<1> QED BY Zenon, <1>1, <1>2 DEF Book

\* Claiming a persona slot keeps the numbering.
LEMMA ClaimNumbers ==
  ASSUME Inv, Numbering, NEW r \in Request, ClaimSlot(r)
  PROVE  Numbering'
<1> DEFINE t == txn[r]
           u == [t EXCEPT !.pc = "insert", !.w.slot = t.pick]
           v == [t EXCEPT !.w = Clean, !.lost = TRUE, !.tries = @ + 1, !.pick = Min(FreeSlots)]
<1>0. /\ Shape(t) /\ Numbered(t) /\ Exists(t) /\ \A q \in Request \ {r} : Differ(t, txn[q])
      /\ t.pc = "claim" /\ t.pick \in 0..Cap - 1 /\ UNCHANGED db
  BY Zenon DEF Inv, Types, Numbering, Exists, ClaimSlot
<1>1. CASE Set(r, u)
  <2>1. /\ u.w.booked = t.w.booked /\ u.w.slot = t.pick
        /\ u.w.new = t.w.new /\ u.w.version = t.w.version /\ u.w.state = t.w.state
        /\ u.w.active = t.w.active /\ u.op = t.op /\ u.code = t.code /\ u.pc = "insert"
    BY Zenon, <1>0 DEF Shape, TxnFields, WriteFields
  <2>2. Set(r, u)
    BY Zenon, <1>1
  <2> HIDE DEF u
  <2>3. Numbered(u)
    BY <1>0, <2>1 DEF Numbered
  <2>4. Exists(u)
    BY Zenon, <1>0, <2>1 DEF Exists
  <2>5. \A q \in Request \ {r} : Differ(u, txn[q])
    BY Zenon, <1>0, <2>1 DEF Differ
  <2> QED BY Zenon, <1>0, <2>2, <2>3, <2>4, <2>5, QuietNumbers
<1>2. CASE Set(r, Idle)
  BY Zenon, <1>0, <1>2, ErrorNumbers DEF EndInError
<1>3. CASE FreeSlots # {} /\ Set(r, v)
  <2>1. v.w = Clean /\ v.pc = "claim" /\ v.pick = Min(FreeSlots)
    BY Zenon, <1>0 DEF Shape, TxnFields
  <2>2. Set(r, v)
    BY Zenon, <1>3
  <2>3. Min(FreeSlots) \in 0..Cap - 1
    BY Zenon, <1>3, FreeSlotExists
  <2> HIDE DEF v
  <2> QED BY Zenon, <1>0, <2>1, <2>2, <2>3, FreshNumbers, CleanNumbers
<1> QED BY Zenon, <1>1, <1>2, <1>3 DEF ClaimSlot

\* A commit keeps the numbering: a new agent has its first version, a new version follows the last
\* one, and what the other requests have written or read still fits.
LEMMA CommitNumbers ==
  ASSUME Inv, Numbering, NEW r \in Request, Commit(r)
  PROVE  Numbering'
<1> DEFINE t == txn[r]
           w == t.w
<1>0. Shape(t) /\ Numbered(t) /\ Exists(t) /\ \A q \in Request \ {r} : Differ(t, txn[q])
  BY Zenon DEF Inv, Types, Numbering
<1>1. txn'[r] = Idle /\ \A q \in Request \ {r} : txn'[q] = txn[q]
  BY Zenon DEF Inv, Types, Set, Commit
<1>2. \A c \in Code : Committed(c)
  BY DEF Numbering
<1>3. \A c \in w.new \cap Code :
        /\ agent[c] = "none" /\ agent'[c] = "active" /\ active'[c] = 1
        /\ versions'[c] = versions[c] \cup {1} /\ rows'[c] = rows[c] + 1
  BY Zenon, <1>0 DEF Commit, Numbered
<1>4. \A c \in Code : c \notin w.new /\ c # t.code =>
        /\ agent'[c] = agent[c] /\ active'[c] = active[c]
        /\ versions'[c] = versions[c] \cup {} /\ rows'[c] = rows[c] + 0
  BY Zenon DEF Commit
<1>5. t.code \in Code \ w.new =>
        /\ agent'[t.code] = IF w.state # "same" THEN w.state ELSE agent[t.code]
        /\ active'[t.code] = IF w.active # 0 THEN w.active ELSE active[t.code]
        /\ versions'[t.code] = versions[t.code] \cup ({w.version} \ {0})
        /\ rows'[t.code] = rows[t.code] + IF w.version # 0 THEN 1 ELSE 0
  BY Zenon DEF Commit
<1>6. \A c \in Code : rows[c] \in 0..MaxVersions
  BY Zenon, <1>2 DEF Committed
<1>7. ASSUME NEW c \in Code
      PROVE  Committed(c)'
  <2>1. CASE c \in w.new
    <3>1. rows[c] = 0 /\ versions[c] = {} 
      BY <1>2, <1>3, <2>1 DEF Committed
    <3>2. rows'[c] = 1 /\ versions'[c] = 1..1
      BY <1>3, <2>1, <3>1
    <3> QED BY <1>3, <2>1, <3>2, RegistryAssumption DEF Committed
  <2>2. CASE c \notin w.new /\ c # t.code
    <3>1. agent'[c] = agent[c] /\ active'[c] = active[c] /\ versions'[c] = versions[c]
      BY Zenon, <1>4, <2>2
    <3>2. rows'[c] = rows[c]
      BY <1>4, <1>6, <2>2, RegistryAssumption
    <3> QED BY Zenon, <1>2, <3>1, <3>2 DEF Committed
  <2>3. CASE c \notin w.new /\ c = t.code /\ w.version = 0
    <3>1. versions'[c] = versions[c] /\ rows'[c] = rows[c]
      <4>1. /\ versions'[c] = versions[c] \cup ({w.version} \ {0})
            /\ rows'[c] = rows[c] + IF w.version # 0 THEN 1 ELSE 0
        BY Zenon, <1>5, <2>3
      <4>2. versions'[c] = versions[c] /\ rows'[c] = rows[c] + 0
        BY Zenon, <2>3, <4>1
      <4> QED BY <1>6, <4>2, RegistryAssumption
    <3>2. agent'[c] \in {"none", "active", "suspended"} /\ (agent'[c] = "none" <=> agent[c] = "none")
      BY <1>0, <1>2, <1>5, <2>3 DEF Numbered, Committed
    <3>3. active'[c] \in 0..rows[c] /\ (agent[c] = "none" <=> active'[c] = 0)
      <4>1. CASE w.active = 0
        BY Zenon, <1>2, <1>5, <2>3, <4>1 DEF Committed
      <4>2. CASE w.active # 0
        <5>1. active'[c] = w.active /\ agent[c] # "none" /\ w.active \in 0..rows[c]
          BY Zenon, <1>0, <1>5, <2>3, <4>2 DEF Numbered
        <5> QED BY Zenon, <4>2, <5>1
      <4> QED BY <4>1, <4>2
    <3> QED BY <1>2, <3>1, <3>2, <3>3 DEF Committed
  <2>4. CASE c \notin w.new /\ c = t.code /\ w.version # 0
    <3>1. /\ w.version = rows[c] + 1 /\ w.version <= MaxVersions /\ agent[c] # "none"
          /\ t.op = "version" /\ w.state = "same" /\ w.active = 0
      BY <1>0, <2>4 DEF Numbered
    <3>2. agent'[c] = agent[c] /\ active'[c] = active[c]
      BY Zenon, <1>5, <2>4, <3>1
    <3>3. rows'[c] = rows[c] + 1 /\ versions'[c] = versions[c] \cup {rows[c] + 1}
      BY <1>5, <2>4, <3>1
    <3>4. versions'[c] = 1..rows'[c] /\ rows'[c] \in 0..MaxVersions
      BY <1>2, <1>6, <3>1, <3>3, RegistryAssumption DEF Committed
    <3> QED BY <1>2, <1>6, <3>1, <3>2, <3>3, <3>4, RegistryAssumption DEF Committed
  <2> QED BY Zenon, <2>1, <2>2, <2>3, <2>4
<1>8. Columns'
  <2>1. /\ versions' = [c \in Code |-> versions'[c]] /\ rows' = [c \in Code |-> rows'[c]]
        /\ active' = [c \in Code |-> active'[c]]
    BY Zenon DEF Commit
  <2>2. slot' \in [Code -> (0..Cap - 1) \cup {None}]
    BY <1>0 DEF Commit, Exists, Numbering, Columns
  <2>3. ASSUME NEW c \in Code
        PROVE  room'[c] \in (Nat \X (1..RoomsPerFloor)) \cup {None}
    <3>1. CASE \E b \in w.booked : b[1] = c
      <4>1. (CHOOSE b \in w.booked : b[1] = c) \in w.booked
        BY Zenon, <3>1
      <4>2. room'[c] = (CHOOSE b \in w.booked : b[1] = c)[2]
        BY Zenon, <3>1 DEF Commit
      <4> QED BY Zenon, <1>0, <4>1, <4>2 DEF Exists
    <3>2. CASE ~\E b \in w.booked : b[1] = c
      <4>1. room'[c] \in {room[c], None}
        BY Zenon, <3>2 DEF Commit
      <4> QED BY Zenon, <4>1 DEF Numbering, Columns
    <3> QED BY <3>1, <3>2
  <2>4. room' = [c \in Code |-> room'[c]]
    BY Zenon DEF Commit
  <2>5. room' \in [Code -> (Nat \X (1..RoomsPerFloor)) \cup {None}]
    BY Zenon, <2>3, <2>4
  <2> QED BY Zenon, <2>1, <2>2, <2>5 DEF Columns
<1>9. \A c \in Code : /\ agent[c] # "none" => agent'[c] # "none" /\ c \notin w.new
                       /\ rows'[c] \in Nat /\ rows[c] \in Nat /\ rows[c] <= rows'[c]
  <2> SUFFICES ASSUME NEW c \in Code
               PROVE  /\ agent[c] # "none" => agent'[c] # "none" /\ c \notin w.new
                      /\ rows'[c] \in Nat /\ rows[c] \in Nat /\ rows[c] <= rows'[c]
    OBVIOUS
  <2>1. agent[c] # "none" => agent'[c] # "none" /\ c \notin w.new
    BY <1>0, <1>3, <1>4, <1>5 DEF Shape
  <2>2. rows'[c] \in {rows[c], rows[c] + 0, rows[c] + 1}
    BY <1>3, <1>4, <1>5
  <2> QED BY <1>6, <2>1, <2>2, RegistryAssumption
<1>10. ASSUME NEW q \in Request \ {r}
       PROVE  Numbered(txn[q])' /\ Exists(txn[q])'
  <2> DEFINE u == txn[q]
  <2>1. Numbered(u) /\ Exists(u) /\ Differ(t, u) /\ txn'[q] = u
    BY Zenon, <1>0, <1>1 DEF Numbering
  <2>2. Exists(txn[q])'
    BY Zenon, <2>1 DEF Exists
  <2>3. \A c \in u.w.new \cap Code : agent'[c] = "none"
    BY <1>0, <1>4, <1>5, <2>1 DEF Numbered, Differ
  <2>4. u.pc = "version" => agent'[u.code] # "none" /\ u.pick <= rows'[u.code] + 1
    BY <1>9, <2>1, RegistryAssumption DEF Numbered
  <2>5. u.w.version # 0 => agent'[u.code] # "none" /\ u.w.version = rows'[u.code] + 1
    <3> SUFFICES ASSUME u.w.version # 0
                 PROVE  agent'[u.code] # "none" /\ u.w.version = rows'[u.code] + 1
      OBVIOUS
    <3>1. u.code \in Code /\ agent[u.code] # "none" /\ u.w.version = rows[u.code] + 1
      BY <2>1 DEF Numbered
    <3>2. u.code = t.code => w.version = 0
      BY Zenon, <2>1 DEF Differ
    <3>3. rows'[u.code] = rows[u.code]
      BY <1>4, <1>5, <1>9, <3>1, <3>2
    <3> QED BY <1>9, <3>1, <3>3
  <2>6. u.w.state # "same" \/ u.w.active # 0 =>
          agent'[u.code] # "none" /\ u.w.active \in 0..rows'[u.code]
    BY <1>9, <2>1 DEF Numbered
  <2>7. Numbered(txn[q])'
    BY Zenon, <2>1, <2>3, <2>4, <2>5, <2>6 DEF Numbered
  <2> QED BY <2>2, <2>7
<1>11. Idle.w = Clean /\ Idle.pc = "idle"
  BY DEF Idle
<1>12. Numbered(txn[r])' /\ Exists(txn[r])'
  <2>1. IsFiniteSet({})
    BY FS_EmptySet
  <2> QED BY <1>1, <1>11, <2>1 DEF Numbered, Exists, Clean
<1>13. \A p \in Request : \A q \in Request \ {p} : Differ(txn[p], txn[q])'
  BY <1>1, <1>11 DEF Numbering, Differ, Clean
<1> QED BY Zenon, <1>7, <1>8, <1>10, <1>12, <1>13 DEF Numbering

\* Every step keeps the numbering.
LEMMA NumbersStay == Inv /\ Numbering /\ [Next]_vars => Numbering'
<1> SUFFICES ASSUME Inv, Numbering, [Next]_vars
             PROVE  Numbering'
  OBVIOUS
<1>1. CASE UNCHANGED vars
  BY <1>1 DEF vars, db, Numbering, Columns, Committed, Numbered, Exists, Differ
<1>2. ASSUME NEW r \in Request, Step(r) \/ RequestFails(r)
      PROVE  Numbering'
  BY Zenon, <1>2, InsertsNumber, VersionNumbers, PlainNumbers, LookNumbers, BookNumbers,
     ClaimNumbers, CommitNumbers, ErrorNumbers DEF Step, ReadFails, RequestFails
<1> QED BY Zenon, <1>1, <1>2, BeginNumbers DEF Next

\* The numbering holds of an empty registry.
LEMMA NumbersBegin == Init => Numbering
<1> SUFFICES ASSUME Init
             PROVE  Numbering
  OBVIOUS
<1>1. \A r \in Request : txn[r].w = Clean /\ txn[r].pc = "idle"
  BY DEF Init, Idle
<1>2. Columns /\ \A c \in Code : Committed(c)
  BY RegistryAssumption DEF Init, Columns, Committed
<1>3. \A r \in Request : Numbered(txn[r]) /\ txn[r].w.booked = {} /\ txn[r].w.slot = None
                          /\ txn[r].w.new = {} /\ txn[r].w.version = 0
  BY Zenon, <1>1, CleanNumbers
<1>4. IsFiniteSet({})
  BY FS_EmptySet
<1>5. \A r \in Request : Exists(txn[r])
  BY <1>1, <1>3, <1>4 DEF Exists
<1>6. \A r, q \in Request : Differ(txn[r], txn[q])
  BY Zenon, <1>3 DEF Differ
<1> QED BY Zenon, <1>2, <1>3, <1>5, <1>6 DEF Numbering

\* In every state of the registry, what is committed and what the requests have written and read
\* fit together.
THEOREM NumberingInvariant == Spec => [](Inv /\ Numbering)
BY Initially, Inductive, NumbersBegin, NumbersStay, PTL DEF Spec

\* create_agent_version numbers the versions of an agent from 1 without gap or repetition, though
\* every call reads the highest number before it inserts the next; and an agent has one of its
\* versions active as soon as it is stored, whatever calls of activate_agent race with that.
THEOREM NumbersAreContiguous == Spec => []VersionsContiguous
<1>1. Numbering => VersionsContiguous
  BY RegistryAssumption DEF Numbering, Committed, VersionsContiguous
<1> QED BY <1>1, NumberingInvariant, PTL

\* The columns of the registry have their types: a room is on a floor and one of four, a persona
\* slot below PERSONA_SLOT_CAP.
THEOREM TypeCorrect == Spec => []TypeOK
<1>1. Inv /\ Numbering => TypeOK
  <2> SUFFICES ASSUME Inv, Numbering
               PROVE  TypeOK
    OBVIOUS
  <2>1. \A c \in Code : /\ agent[c] \in {"none", "active", "suspended"}
                         /\ versions[c] \subseteq 1..MaxVersions /\ rows[c] \in Nat
                         /\ active[c] \in 0..MaxVersions
    BY RegistryAssumption DEF Numbering, Committed
  <2>2. /\ agent \in [Code -> {"none", "active", "suspended"}]
        /\ versions \in [Code -> SUBSET (1..MaxVersions)] /\ rows \in [Code -> Nat]
        /\ active \in [Code -> 0..MaxVersions]
    BY <2>1 DEF Inv, Types, Numbering, Columns
  <2> QED BY Zenon, <2>2 DEF Numbering, Columns, TypeOK
<1> QED BY <1>1, NumberingInvariant, PTL
=============================================================================
