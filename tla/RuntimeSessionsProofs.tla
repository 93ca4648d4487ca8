------------------------ MODULE RuntimeSessionsProofs ------------------------
(***************************************************************************)
(* Proofs about RuntimeSessions, for any sessions, subagents, requests and *)
(* reapers: rows, closures, Tasks and Missions agree under every           *)
(* interleaving of the transactions.                                       *)
(***************************************************************************)
EXTENDS RuntimeSessions, TLAPS

\* What a transaction's record looks like, whatever the database holds.
Shape(t, r) ==
  /\ r.closing \cup r.late \cup r.ends \subseteq r.locks
  /\ r.running \subseteq r.ends
  /\ r.pc \in {"insert", "inserted", "external"} => r.row \in Row
  /\ r.pc = "lock" => r.row \in Session /\ r.by = "session_end"
  /\ r.pc \in {"idle", "insert", "inserted", "lock", "external"} => r.locks = {}
  /\ r.pc = "external" \/ r.by = "hook" => r.outcome \in {"completed", "failed"}
  /\ r.by = "none" => r.locks = {}
  /\ r.by = "hook" => r.pc = "write" /\ r.ends = {}
  /\ r.pc \in {"reap", "ending"} => r.by \in {"session_end", "reaper"}
  /\ r.pc = "reap" => r.ends = {}
  /\ r.by = "reaper" => t \in Reaper
  /\ r.pc \in {"reap", "write"} => r.todo = {}

\* Locks and inserts of a transaction exclude those of the others.
Excludes(t, r) ==
  \A u \in Txn \ {t} :
    /\ r.locks \cap txn[u].locks = {}
    /\ \A x \in r.locks : ~Shared(u, x)
    /\ r.pc = "inserted" =>
         /\ ~(txn[u].pc = "inserted" /\ txn[u].row = r.row)
         /\ r.row \in Sub => Parent[r.row] \notin txn[u].locks

\* What it has read still holds.
Knows(r) ==
  /\ r.pc = "inserted" => status[r.row] = "none"
  /\ r.pc \in {"lock", "external"} => status[r.row] # "none"
  /\ \A x \in r.todo \cup r.ends : status[x] # "none"
  /\ \A a \in r.closing : status[a] = "open"
  /\ \A a \in r.late : closure[a].by = "reaper"
  /\ r.by = "hook" => \A a \in r.locks \ (r.closing \cup r.late) :
       a \in Sub /\ closure[a] # NoClosure /\ (closure[a].by = "reaper" => closure[a].late)

\* The open subagents of a session that it ends are among those it closes: its lock keeps a
\* subagent's insert out (the foreign key), which is what EndClosesAll rests on.
Completes(r) ==
  \A s \in r.ends : \A a \in Sub : Parent[a] = s /\ status[a] = "open" => a \in r.todo \cup r.closing

\* Without external requests: what was over when loaded has ended, and a session to end whose
\* Mission is running was loaded with it running.
Undetoured(r) ==
  externals = 0 =>
    /\ r.pc # "external"
    /\ \A x \in r.over : status[x] = "ended"
    /\ r.pc = "write" => \A s \in r.ends : mission[s] = "running" => s \in r.running

\* What holds of a transaction's record r, also of the record it is about to have.
Fits(t, r) == Shape(t, r) /\ Excludes(t, r) /\ Knows(r) /\ Completes(r) /\ Undetoured(r)

\* The inductive invariant.
Inv == TypeOK /\ Agreement /\ \A t \in Txn : Fits(t, txn[t])

\* The part of TypeOK about the bounds.
CountersOK == {aborts, externals, aborts + externals} \subseteq 0..MaxDetours

\* A step that changes no row keeps the invariant if the transaction's next record fits.
LEMMA LoadKeeps ==
  ASSUME Inv, NEW t \in Txn, NEW r \in Record, Set(t, r), UNCHANGED <<db, fresh>>, CountersOK',
         externals' = 0 => externals = 0 /\ Undetoured(r),
         Shape(t, r), Excludes(t, r), Knows(r), Completes(r)
  PROVE  Inv'
<1>1. /\ txn' \in [Txn -> Record] /\ txn'[t] = r
      /\ \A u \in Txn \ {t} : txn'[u] = txn[u]
  BY DEF Set, Inv, TypeOK
<1>2. UNCHANGED <<status, outcome, task, mission, closure, fresh>>
  BY DEF db
<1>3. TypeOK'
  BY <1>1, <1>2 DEF Inv, TypeOK, CountersOK
<1>4. Agreement'
  <2>1. ASSUME NEW u \in Txn, NEW v \in Txn, u # v PROVE txn'[u].locks \cap txn'[v].locks = {}
    <3>1. CASE u = t
      BY <1>1, <2>1, <3>1 DEF Excludes
    <3>2. CASE v = t
      <4>1. r.locks \cap txn[u].locks = {}
        BY Zenon, <2>1, <3>2 DEF Excludes
      <4> QED
        BY <1>1, <2>1, <3>2, <4>1
    <3>3. CASE u # t /\ v # t
      BY <1>1, <2>1, <3>3 DEF Inv, Agreement
    <3> QED
      BY Zenon, <3>1, <3>2, <3>3
  <2> QED
    BY Zenon, <1>2, <2>1 DEF Inv, Agreement
<1>5. ASSUME NEW u \in Txn PROVE Fits(u, txn[u])'
  <2>1. CASE u = t
    <3>1. \A v \in Txn \ {t} : \A x \in r.locks : Shared(v, x)' <=> Shared(v, x)
      BY <1>1 DEF Shared
    <3>2. Shape(u, txn[u])'
      BY Zenon, <1>1, <2>1 DEF Shape
    <3>3. Excludes(u, txn[u])'
      BY Zenon, <1>1, <2>1, <3>1 DEF Excludes
    <3>4. Knows(txn[u])' /\ Completes(txn[u])'
      BY Zenon, <1>1, <1>2, <2>1 DEF Knows, Completes
    <3>5. Undetoured(txn[u])'
      BY Zenon, <1>1, <1>2, <2>1 DEF Undetoured
    <3> QED
      BY Zenon, <3>2, <3>3, <3>4, <3>5 DEF Fits
  <2>2. CASE u # t
    <3>0. Fits(u, txn[u]) /\ txn'[u] = txn[u]
      BY Zenon, <1>1, <2>2 DEF Inv
    <3>1. Shape(u, txn[u])'
      BY Zenon, <3>0 DEF Fits, Shape
    <3>2. Excludes(u, txn[u])'
      <4> SUFFICES ASSUME NEW v \in Txn \ {u}
                   PROVE  /\ txn[u].locks \cap txn'[v].locks = {}
                          /\ \A x \in txn[u].locks : ~Shared(v, x)'
                          /\ txn[u].pc = "inserted" =>
                               /\ ~(txn'[v].pc = "inserted" /\ txn'[v].row = txn[u].row)
                               /\ txn[u].row \in Sub => Parent[txn[u].row] \notin txn'[v].locks
        BY Zenon, <3>0 DEF Excludes
      <4>1. CASE v = t
        <5>1. r.locks \cap txn[u].locks = {} /\ \A x \in r.locks : ~Shared(u, x)
          BY Zenon, <2>2 DEF Excludes
        <5>2. r.pc = "inserted" => /\ ~(txn[u].pc = "inserted" /\ txn[u].row = r.row)
                                   /\ r.row \in Sub => Parent[r.row] \notin txn[u].locks
          BY Zenon, <2>2 DEF Excludes
        <5> QED
          BY <1>1, <4>1, <5>1, <5>2 DEF Shared
      <4>2. CASE v # t
        <5>1. Excludes(u, txn[u]) /\ txn'[v] = txn[v]
          BY Zenon, <1>1, <3>0, <4>2 DEF Fits
        <5> QED
          BY Zenon, <5>1 DEF Excludes, Shared
      <4> QED
        BY <4>1, <4>2
    <3>3. Knows(txn[u])' /\ Completes(txn[u])'
      BY Zenon, <1>2, <3>0 DEF Fits, Knows, Completes
    <3>4. Undetoured(txn[u])'
      BY Zenon, <1>2, <3>0 DEF Fits, Undetoured
    <3> QED
      BY Zenon, <3>1, <3>2, <3>3, <3>4 DEF Fits
  <2> QED
    BY <2>1, <2>2
<1> QED
  BY Zenon, <1>3, <1>4, <1>5 DEF Inv

-----------------------------------------------------------------------------
(***************************************************************************)
(* Steps that change a transaction and no row.                             *)
(***************************************************************************)

\* A transaction that has not begun holds nothing ...
LEMMA IdleFields ==
  /\ Idle.pc = "idle" /\ Idle.by = "none" /\ Idle.locks = {} /\ Idle.todo = {} /\ Idle.closing = {}
  /\ Idle.late = {} /\ Idle.ends = {} /\ Idle.over = {} /\ Idle.running = {}
BY DEF Idle

\* ... and always fits.
LEMMA IdleFits ==
  ASSUME NEW t \in Txn
  PROVE  /\ Idle \in Record
         /\ Shape(t, Idle) /\ Excludes(t, Idle) /\ Knows(Idle) /\ Completes(Idle) /\ Undetoured(Idle)
<1>1. Idle \in Record
  BY DEF Idle, Record
<1>2. Shape(t, Idle)
  BY IdleFields DEF Shape
<1>3. Excludes(t, Idle) /\ Knows(Idle)
  BY IdleFields DEF Excludes, Knows
<1>4. Completes(Idle) /\ Undetoured(Idle)
  BY IdleFields DEF Completes, Undetoured
<1> QED
  BY <1>1, <1>2, <1>3, <1>4

\* So a rollback keeps the invariant: what it gives up, others may take.
LEMMA IdleKeeps ==
  ASSUME Inv, NEW t \in Txn, Set(t, Idle), UNCHANGED <<db, fresh, externals>>, CountersOK'
  PROVE  Inv'
BY Zenon, IdleFits, LoadKeeps

\* Most steps leave the counters alone.
LEMMA SameCounters ==
  ASSUME Inv, UNCHANGED <<aborts, externals>>
  PROVE  CountersOK' /\ (externals' = 0 => externals = 0)
BY DEF Inv, TypeOK, CountersOK

\* register_session, up to its INSERT.
LEMMA RegisterLoadKeeps ==
  ASSUME Inv, NEW t \in Request, NEW x \in Row, RegisterLoad(t, x)
  PROVE  Inv'
<1> DEFINE r == [Idle EXCEPT !.pc = "insert", !.row = x]
<1>0. t \in Txn /\ Set(t, r) /\ UNCHANGED <<db, fresh>> /\ CountersOK' /\ (externals' = 0 => externals = 0)
  BY Zenon, SameCounters DEF RegisterLoad, Txn
<1>1. r \in Record /\ Shape(t, r)
  BY Zenon DEF Idle, Record, Shape
<1>2. Excludes(t, r) /\ Knows(r) /\ Completes(r) /\ Undetoured(r)
  BY DEF Idle, Excludes, Knows, Completes, Undetoured
<1> HIDE DEF r
<1> QED
  BY Zenon, <1>0, <1>1, <1>2, LoadKeeps

\* The INSERT: unique by reference, and excluded by the lock of the session's row.
LEMMA RegisterInsertKeeps ==
  ASSUME Inv, NEW t \in Txn, RegisterInsert(t)
  PROVE  Inv'
<1> DEFINE r == [txn[t] EXCEPT !.pc = "inserted"]
<1>0. UNCHANGED <<db, fresh, externals>> /\ CountersOK' /\ (externals' = 0 => externals = 0)
  BY Zenon, SameCounters DEF RegisterInsert
<1>1. CASE Set(t, Idle)
  BY Zenon, <1>0, <1>1, IdleKeeps
<1>2. CASE Set(t, r) /\ status[txn[t].row] = "none"
           /\ (txn[t].row \in Sub => \A u \in Txn : ~Held(u, Parent[txn[t].row]))
  <2>1. /\ txn[t] \in Record /\ txn[t].pc = "insert" /\ Fits(t, txn[t])
        /\ \A u \in Txn : ~(txn[u].pc = "inserted" /\ txn[u].row = txn[t].row)
    BY Zenon DEF RegisterInsert, Inv, TypeOK
  <2>2. r \in Record /\ r.pc = "inserted" /\ r.row = txn[t].row /\ r.locks = {} /\ r.by = txn[t].by
        /\ r.closing = {} /\ r.late = {} /\ r.ends = {} /\ r.running = {} /\ r.outcome = txn[t].outcome
        /\ r.todo = txn[t].todo
    BY <2>1 DEF Record, Fits, Shape
  <2>3. Shape(t, r)
    BY <2>1, <2>2 DEF Fits, Shape
  <2>4. Excludes(t, r)
    BY <1>2, <2>1, <2>2 DEF Excludes, Held
  <2>5. Knows(r) /\ Completes(r) /\ Undetoured(r)
    BY <1>2, <2>1, <2>2 DEF Fits, Knows, Completes, Undetoured
  <2> HIDE DEF r
  <2> QED
    BY Zenon, <1>0, <1>2, <2>2, <2>3, <2>4, <2>5, LoadKeeps
<1> QED
  BY Zenon, <1>1, <1>2 DEF RegisterInsert

\* A rollback.
LEMMA AbortKeeps ==
  ASSUME Inv, NEW t \in Txn, Abort(t)
  PROVE  Inv'
<1>1. CountersOK'
  BY SessionsAssumption DEF Abort, Inv, TypeOK, CountersOK
<1> QED
  BY Zenon, <1>1, IdleKeeps DEF Abort

\* complete-external and fail-external, before their commit.
LEMMA ExternalLoadKeeps ==
  ASSUME Inv, NEW t \in Request, NEW x \in Row, NEW result \in {"completed", "failed"},
         ExternalLoad(t, x, result)
  PROVE  Inv'
<1> DEFINE r == [Idle EXCEPT !.pc = "external", !.row = x, !.outcome = result]
<1>0. t \in Txn /\ Set(t, r) /\ UNCHANGED <<db, fresh>> /\ status[x] # "none"
  BY Zenon DEF ExternalLoad, Txn
<1>1. CountersOK' /\ externals' # 0
  BY SessionsAssumption DEF ExternalLoad, Inv, TypeOK, CountersOK
<1>2. r \in Record /\ Shape(t, r)
  BY Zenon DEF Idle, Record, Shape
<1>3. Excludes(t, r) /\ Knows(r) /\ Completes(r)
  BY <1>0 DEF Idle, Excludes, Knows, Completes
<1> HIDE DEF r
<1> QED
  BY Zenon, <1>0, <1>1, <1>2, <1>3, LoadKeeps

\* update_session's read without a lock.
LEMMA EndLoadKeeps ==
  ASSUME Inv, NEW t \in Request, NEW s \in Session, NEW result \in Outcome, EndLoad(t, s, result)
  PROVE  Inv'
<1> DEFINE r == [Idle EXCEPT !.pc = "lock", !.row = s, !.by = "session_end", !.outcome = result,
                             !.ended = (status[s] = "ended")]
<1>0. t \in Txn /\ Set(t, r) /\ UNCHANGED <<db, fresh>> /\ status[s] # "none" /\ CountersOK' /\ (externals' = 0 => externals = 0)
  BY Zenon, SameCounters DEF EndLoad, Txn
<1>2. r \in Record /\ Shape(t, r)
  BY Zenon, SessionsAssumption DEF Idle, Record, Shape, Row
<1>3. Excludes(t, r) /\ Knows(r) /\ Completes(r) /\ Undetoured(r)
  BY <1>0 DEF Idle, Excludes, Knows, Completes, Undetoured
<1> HIDE DEF r
<1> QED
  BY Zenon, <1>0, <1>2, <1>3, LoadKeeps

\* c is r once it holds subagent a and has looked up its closure.
Closes(r, a, c) ==
  /\ c \in Record /\ c.pc = r.pc /\ c.row = r.row /\ c.by = r.by /\ c.outcome = r.outcome
  /\ c.todo = r.todo /\ c.ends = r.ends /\ c.running = r.running
  /\ c.locks = r.locks \cup {a}
  /\ c.closing = r.closing \cup (IF closure[a] = NoClosure THEN {a} ELSE {})
  /\ c.late = r.late \cup (IF closure[a] # NoClosure /\ Stamps(r.by, closure[a]) THEN {a} ELSE {})
  /\ c.over \subseteq r.over \cup (IF closure[a] = NoClosure THEN Over({a}) ELSE {})

\* Close does that.
LEMMA CloseFields ==
  ASSUME Inv, NEW r \in Record, NEW a \in Sub
  PROVE  Closes(r, a, Close(r, a))
<1>0. a \in Row /\ r.locks \cup {a} \in SUBSET Row /\ r.closing \cup {a} \in SUBSET Sub /\ r.late \cup {a} \in SUBSET Sub
  BY DEF Row, Record
<1>1. CASE closure[a] = NoClosure
  <2>1. Close(r, a) = [r EXCEPT !.locks = @ \cup {a}, !.closing = @ \cup {a}, !.over = @ \cup Over({a})]
    BY <1>1 DEF Close, Stamps, NoClosure
  <2>2. r.over \cup Over({a}) \in SUBSET Row
    BY <1>0 DEF Over, Record
  <2>3. Close(r, a) \in Record
    BY Zenon, <1>0, <2>1, <2>2 DEF Record
  <2>4. LET c == Close(r, a) IN
        /\ c.pc = r.pc /\ c.row = r.row /\ c.by = r.by /\ c.outcome = r.outcome
        /\ c.todo = r.todo /\ c.ends = r.ends /\ c.running = r.running /\ c.locks = r.locks \cup {a}
        /\ c.closing = r.closing \cup {a} /\ c.late = r.late /\ c.over = r.over \cup Over({a})
    BY Zenon, <2>1 DEF Record
  <2> QED
    BY <1>1, <2>3, <2>4 DEF Closes
<1>2. CASE closure[a] # NoClosure /\ Stamps(r.by, closure[a])
  <2>1. Close(r, a) = [r EXCEPT !.locks = @ \cup {a}, !.late = @ \cup {a}]
    BY <1>2 DEF Close
  <2>3. Close(r, a) \in Record
    BY Zenon, <1>0, <2>1 DEF Record
  <2>4. LET c == Close(r, a) IN
        /\ c.pc = r.pc /\ c.row = r.row /\ c.by = r.by /\ c.outcome = r.outcome
        /\ c.todo = r.todo /\ c.ends = r.ends /\ c.running = r.running /\ c.locks = r.locks \cup {a}
        /\ c.closing = r.closing /\ c.late = r.late \cup {a} /\ c.over = r.over
    BY Zenon, <2>1 DEF Record
  <2> QED
    BY <1>2, <2>3, <2>4 DEF Closes
<1>3. CASE closure[a] # NoClosure /\ ~Stamps(r.by, closure[a])
  <2>1. Close(r, a) = [r EXCEPT !.locks = @ \cup {a}]
    BY <1>3 DEF Close
  <2>3. Close(r, a) \in Record
    BY Zenon, <1>0, <2>1 DEF Record
  <2>4. LET c == Close(r, a) IN
        /\ c.pc = r.pc /\ c.row = r.row /\ c.by = r.by /\ c.outcome = r.outcome
        /\ c.todo = r.todo /\ c.ends = r.ends /\ c.running = r.running /\ c.locks = r.locks \cup {a}
        /\ c.closing = r.closing /\ c.late = r.late /\ c.over = r.over
    BY Zenon, <2>1 DEF Record
  <2> QED
    BY <1>3, <2>3, <2>4 DEF Closes
<1> QED
  BY Zenon, <1>1, <1>2, <1>3

\* A registered subagent has its closure exactly when it is not open, and its Task waits while it is.
LEMMA ClosedFacts ==
  ASSUME Inv, NEW a \in Sub, status[a] # "none"
  PROVE  /\ closure[a] = NoClosure => status[a] = "open"
         /\ closure[a] = NoClosure /\ externals = 0 => Over({a}) = {}
         /\ status[a] = "open" => closure[a] = NoClosure
<1>1. a \in Row /\ status[a] \in {"none", "open", "ended"}
  BY DEF Inv, TypeOK, Row
<1>2. (status[a] = "ended" <=> closure[a] # NoClosure) /\ (externals = 0 => (status[a] = "open" <=> task[a] = "queued"))
  BY Zenon, <1>1 DEF Inv, Agreement
<1> QED
  BY <1>1, <1>2 DEF Over, Terminal

\* close_task for a hook.
LEMMA HookCloseKeeps ==
  ASSUME Inv, NEW t \in Request, NEW a \in Sub, NEW result \in {"completed", "failed"}, HookClose(t, a, result)
  PROVE  Inv'
<1> DEFINE b == [Idle EXCEPT !.pc = "write", !.by = "hook", !.outcome = result]
           r == Close(b, a)
<1>0. t \in Txn /\ Set(t, r) /\ UNCHANGED <<db, fresh>> /\ status[a] # "none" /\ CountersOK' /\ (externals' = 0 => externals = 0)
      /\ Lockable(t, a)
  BY Zenon, SameCounters DEF HookClose, Txn
<1>1. b \in Record /\ b.pc = "write" /\ b.by = "hook" /\ b.outcome = result /\ b.locks = {} /\ b.closing = {} /\ b.late = {}
      /\ b.over = {} /\ b.todo = {} /\ b.ends = {} /\ b.running = {}
  BY Zenon DEF Idle, Record
<1>2. /\ closure[a] = NoClosure => status[a] = "open"
      /\ closure[a] = NoClosure /\ externals = 0 => Over({a}) = {}
  BY Zenon, <1>0, ClosedFacts
<1> HIDE DEF b
<1>3. /\ r \in Record /\ r.pc = "write" /\ r.by = "hook" /\ r.outcome = result
      /\ r.todo = {} /\ r.ends = {} /\ r.running = {} /\ r.locks = {a}
      /\ r.closing = (IF closure[a] = NoClosure THEN {a} ELSE {})
      /\ r.late = (IF closure[a] # NoClosure /\ Stamps("hook", closure[a]) THEN {a} ELSE {})
      /\ r.over \subseteq (IF closure[a] = NoClosure THEN Over({a}) ELSE {})
  <2>1. Closes(b, a, r)
    BY Zenon, <1>1, CloseFields
  <2> HIDE DEF r
  <2> QED
    BY Zenon, <1>1, <2>1 DEF Closes
<1> HIDE DEF r
<1>4. Shape(t, r)
  BY <1>3 DEF Shape
<1>5. Excludes(t, r)
  BY <1>0, <1>3 DEF Excludes, Lockable, Held
<1>6. Knows(r)
  BY <1>2, <1>3 DEF Knows, Stamps
<1>7. Completes(r) /\ Undetoured(r)
  BY <1>2, <1>3 DEF Completes, Undetoured
<1> QED
  BY Zenon, <1>0, <1>3, <1>4, <1>5, <1>6, <1>7, LoadKeeps

\* end_session takes the session's row and selects the open subagents.
LEMMA EndLockKeeps ==
  ASSUME Inv, NEW t \in Txn, EndLock(t)
  PROVE  Inv'
<1> DEFINE s == txn[t].row
           r == [txn[t] EXCEPT !.pc = "ending", !.locks = {s}, !.ends = {s}, !.over = Over({s}),
                               !.todo = {a \in Sub : Parent[a] = s /\ status[a] = "open"}]
<1>0. /\ UNCHANGED <<db, fresh, externals>> /\ CountersOK' /\ (externals' = 0 => externals = 0)
      /\ txn[t].pc = "lock" /\ Lockable(t, s) /\ txn[t] \in Record /\ Fits(t, txn[t])
      /\ Set(t, Idle) \/ Set(t, r)
  BY Zenon, SameCounters DEF EndLock, Inv, TypeOK
<1>1. s \in Session /\ s \in Row /\ status[s] # "none" /\ txn[t].locks = {}
  BY <1>0 DEF Fits, Shape, Knows, Row
<1>2. CASE Set(t, Idle)
  BY Zenon, <1>0, <1>2, IdleKeeps
<1>3. CASE Set(t, r)
  <2>1. Over({s}) \subseteq {s}
    BY DEF Over
  <2>2. /\ r \in Record /\ r.pc = "ending" /\ r.by = txn[t].by /\ r.outcome = txn[t].outcome
        /\ r.locks = {s} /\ r.ends = {s} /\ r.over = Over({s}) /\ r.closing = {} /\ r.late = {} /\ r.running = {}
        /\ r.todo = {a \in Sub : Parent[a] = s /\ status[a] = "open"}
    BY Zenon, <1>0, <1>1, <2>1 DEF Record, Fits, Shape
  <2>3. externals = 0 /\ s \in Over({s}) => status[s] = "ended"
    BY <1>1 DEF Over, Terminal, Inv, TypeOK, Agreement
  <2>4. txn[t].by = "session_end"
    BY <1>0 DEF Fits, Shape
  <2> HIDE DEF r, s
  <2>5. Shape(t, r)
    BY <2>2, <2>4 DEF Shape
  <2>6. Excludes(t, r)
    BY <1>0, <2>2 DEF Excludes, Lockable, Held
  <2>7. Knows(r)
    BY <1>1, <2>2, <2>4 DEF Knows
  <2>8. Completes(r) /\ Undetoured(r)
    BY Zenon, <2>1, <2>2, <2>3 DEF Completes, Undetoured
  <2> QED
    BY Zenon, <1>0, <1>3, <2>2, <2>5, <2>6, <2>7, <2>8, LoadKeeps
<1> QED
  BY Zenon, <1>0, <1>2, <1>3

\* end_session closes one of them: also if it was closed since it was selected.
LEMMA EndSubKeeps ==
  ASSUME Inv, NEW t \in Txn, NEW a \in Sub, EndSub(t, a)
  PROVE  Inv'
<1> DEFINE c == Close(txn[t], a)
           r == [c EXCEPT !.todo = @ \ {a}]
<1>0. /\ UNCHANGED <<db, fresh>> /\ CountersOK' /\ (externals' = 0 => externals = 0)
      /\ txn[t].pc = "ending" /\ Lockable(t, a) /\ txn[t] \in Record /\ Fits(t, txn[t])
      /\ Set(t, r) /\ a \in txn[t].todo
  BY Zenon, SameCounters DEF EndSub, Inv, TypeOK
<1>1. /\ status[a] # "none" /\ txn[t].by # "hook" /\ txn[t].by # "none"
  BY <1>0 DEF Fits, Shape, Knows
<1>2. /\ closure[a] = NoClosure <=> status[a] = "open"
      /\ closure[a] = NoClosure /\ externals = 0 => Over({a}) = {}
  BY Zenon, <1>1, ClosedFacts
<1>3. Closes(txn[t], a, c)
  BY Zenon, <1>0, CloseFields
<1> HIDE DEF c
<1>4. /\ r \in Record /\ r.pc = "ending" /\ r.by = txn[t].by /\ r.outcome = txn[t].outcome
      /\ r.todo = txn[t].todo \ {a} /\ r.ends = txn[t].ends /\ r.running = txn[t].running
      /\ r.locks = txn[t].locks \cup {a}
      /\ r.closing = c.closing /\ r.late = c.late /\ r.over = c.over
  <2>1. c.todo \ {a} \in SUBSET Sub /\ c \in Record
    BY <1>3 DEF Closes, Record
  <2> QED
    BY Zenon, <1>0, <1>3, <2>1 DEF Closes, Record
<1>5. /\ r.closing = txn[t].closing \cup (IF closure[a] = NoClosure THEN {a} ELSE {})
      /\ r.late = txn[t].late
      /\ r.over \subseteq txn[t].over \cup (IF closure[a] = NoClosure THEN Over({a}) ELSE {})
  BY Zenon, <1>1, <1>3, <1>4 DEF Closes, Stamps
<1> HIDE DEF r
<1>6. Shape(t, r)
  BY <1>0, <1>1, <1>4, <1>5 DEF Fits, Shape
<1>7. Excludes(t, r)
  BY <1>0, <1>4 DEF Fits, Excludes, Lockable, Held
<1>8. Knows(r)
  BY <1>0, <1>1, <1>2, <1>4, <1>5 DEF Fits, Knows
<1>9. Completes(r)
  BY <1>0, <1>2, <1>4, <1>5 DEF Fits, Completes
<1>10. externals = 0 => Undetoured(r)
  <2> SUFFICES ASSUME externals = 0 PROVE Undetoured(r)
    OBVIOUS
  <2>1. r.over \subseteq txn[t].over
    BY <1>2, <1>5
  <2> QED
    BY <1>0, <1>4, <1>5, <2>1 DEF Fits, Undetoured
<1> QED
  BY Zenon, <1>0, <1>4, <1>6, <1>7, <1>8, <1>9, <1>10, LoadKeeps

\* end_session loads the Mission.
LEMMA EndMissionKeeps ==
  ASSUME Inv, NEW t \in Txn, EndMission(t)
  PROVE  Inv'
<1> DEFINE r == [txn[t] EXCEPT !.pc = "write", !.running = {s \in txn[t].ends : mission[s] = "running"}]
<1>0. /\ UNCHANGED <<db, fresh>> /\ CountersOK' /\ (externals' = 0 => externals = 0)
      /\ txn[t].pc = "ending" /\ txn[t] \in Record /\ Fits(t, txn[t])
      /\ Set(t, r) /\ txn[t].todo = {}
  BY Zenon, SameCounters DEF EndMission, Inv, TypeOK
<1>1. txn[t].by \notin {"none", "hook"}
  BY <1>0 DEF Fits, Shape
<1>2. /\ r \in Record /\ r.pc = "write" /\ r.by = txn[t].by /\ r.outcome = txn[t].outcome
      /\ r.todo = {} /\ r.ends = txn[t].ends /\ r.running = {s \in txn[t].ends : mission[s] = "running"}
      /\ r.locks = txn[t].locks /\ r.closing = txn[t].closing /\ r.late = txn[t].late /\ r.over = txn[t].over
  <2>1. {s \in txn[t].ends : mission[s] = "running"} \in SUBSET Session
    BY <1>0 DEF Record
  <2> QED
    BY Zenon, <1>0, <2>1 DEF Record
<1> HIDE DEF r
<1>3. Shape(t, r)
  BY <1>0, <1>1, <1>2 DEF Fits, Shape
<1>4. Excludes(t, r)
  BY <1>0, <1>2 DEF Fits, Excludes
<1>5. Knows(r)
  BY <1>0, <1>1, <1>2 DEF Fits, Knows
<1>6. Completes(r) /\ Undetoured(r)
  BY <1>0, <1>2 DEF Fits, Completes, Undetoured
<1> QED
  BY Zenon, <1>0, <1>2, <1>3, <1>4, <1>5, <1>6, LoadKeeps

\* A row that a sweep finds open is not over, and has no closure.
LEMMA StaleFacts ==
  ASSUME Inv, NEW x \in Row, status[x] = "open"
  PROVE  (externals = 0 => task[x] \notin Terminal) /\ (x \in Sub => closure[x] = NoClosure)
<1>1. /\ externals = 0 => task[x] = "queued"
      /\ x \in Sub => (status[x] = "ended" <=> closure[x] # NoClosure)
  BY Zenon DEF Inv, Agreement
<1> QED
  BY <1>1 DEF Terminal

\* The reaper takes the stale subagents that nobody holds.
LEMMA ReapSubsKeeps ==
  ASSUME Inv, NEW t \in Reaper, ReapSubs(t)
  PROVE  Inv'
<1> DEFINE S == {a \in StaleSubs : Lockable(t, a)}
           r == [Idle EXCEPT !.pc = "reap", !.by = "reaper", !.outcome = "abandoned", !.locks = S,
                             !.closing = {a \in S : closure[a] = NoClosure}, !.over = Over(S)]
<1>0. /\ UNCHANGED <<db, fresh>> /\ CountersOK' /\ (externals' = 0 => externals = 0)
      /\ t \in Txn /\ Set(t, r)
  BY Zenon, SameCounters DEF ReapSubs, Txn
<1>1. /\ S \subseteq Sub /\ S \subseteq Row
      /\ \A a \in S : status[a] = "open" /\ Lockable(t, a)
  BY DEF StaleSubs, Row
<1>2. Over(S) \subseteq S /\ (externals = 0 => Over(S) = {})
  BY <1>1, StaleFacts DEF Over
<1>3. \A a \in S : closure[a] = NoClosure
  BY <1>1, StaleFacts
<1> HIDE DEF S
<1>4. /\ r \in Record /\ r.pc = "reap" /\ r.by = "reaper" /\ r.locks = S /\ r.closing = S
      /\ r.over = Over(S) /\ r.late = {} /\ r.todo = {} /\ r.ends = {} /\ r.running = {}
  BY Zenon, <1>1, <1>2, <1>3 DEF Record, Idle
<1> HIDE DEF r
<1>5. Shape(t, r)
  BY <1>1, <1>2, <1>4 DEF Shape
<1>6. Excludes(t, r)
  BY <1>1, <1>4 DEF Excludes, Lockable, Held
<1>7. Knows(r) /\ Completes(r) /\ Undetoured(r)
  BY <1>1, <1>2, <1>4 DEF Knows, Completes, Undetoured
<1> QED
  BY Zenon, <1>0, <1>4, <1>5, <1>6, <1>7, LoadKeeps

\* The reaper takes the stale sessions that nobody holds.
LEMMA ReapSessionsKeeps ==
  ASSUME Inv, NEW t \in Txn, ReapSessions(t)
  PROVE  Inv'
<1> DEFINE S == {s \in StaleSessions(t) : Lockable(t, s)}
           r == [txn[t] EXCEPT !.pc = "ending", !.locks = @ \cup S, !.ends = S, !.over = @ \cup Over(S)]
<1>0. /\ UNCHANGED <<db, fresh>> /\ CountersOK' /\ (externals' = 0 => externals = 0)
      /\ Set(t, r) /\ txn[t] \in Record /\ Fits(t, txn[t]) /\ txn[t].pc = "reap"
  BY Zenon, SameCounters DEF ReapSessions, EndStale, Inv, TypeOK
<1>1. /\ S \subseteq Session /\ S \subseteq Row
      /\ \A s \in S : status[s] = "open" /\ Lockable(t, s)
      /\ \A s \in S : \A a \in Sub : Parent[a] = s /\ status[a] = "open" => a \in txn[t].closing
  BY DEF StaleSessions, Row
<1>2. Over(S) \subseteq S /\ (externals = 0 => Over(S) = {})
  BY <1>1, StaleFacts DEF Over
<1>3. txn[t].by \in {"session_end", "reaper"} /\ txn[t].ends = {} /\ txn[t].todo = {}
  BY <1>0 DEF Fits, Shape
<1> HIDE DEF S
<1>4. /\ r \in Record /\ r.pc = "ending" /\ r.by = txn[t].by /\ r.locks = txn[t].locks \cup S
      /\ r.closing = txn[t].closing /\ r.over = txn[t].over \cup Over(S) /\ r.late = txn[t].late /\ r.todo = {}
      /\ r.ends = S /\ r.running = txn[t].running /\ r.outcome = txn[t].outcome
  <2>1. txn[t].locks \cup S \in SUBSET Row /\ txn[t].over \cup Over(S) \in SUBSET Row /\ S \in SUBSET Session
    BY <1>0, <1>1, <1>2 DEF Record
  <2> QED
    BY Zenon, <1>0, <1>3, <2>1 DEF Record
<1> HIDE DEF r
<1>5. Shape(t, r)
  BY <1>0, <1>3, <1>4 DEF Fits, Shape
<1>6. Excludes(t, r)
  BY <1>0, <1>1, <1>4 DEF Fits, Excludes, Lockable, Held
<1>7. Knows(r)
  BY <1>0, <1>1, <1>3, <1>4 DEF Fits, Knows
<1>8. Completes(r)
  BY <1>1, <1>4 DEF Completes
<1>9. externals = 0 => Undetoured(r)
  BY <1>0, <1>1, <1>2, <1>3, <1>4, SessionsAssumption DEF Fits, Undetoured
<1> QED
  BY Zenon, <1>0, <1>4, <1>5, <1>6, <1>7, <1>8, <1>9, LoadKeeps

-----------------------------------------------------------------------------
(***************************************************************************)
(* Commits.                                                                *)
(***************************************************************************)

\* A commit keeps the invariant if what the other transactions have read still holds.
LEMMA CommitKeeps ==
  ASSUME Inv, NEW t \in Txn, Set(t, Idle), TypeOK', Agreement', UNCHANGED externals,
         \A u \in Txn \ {t} : Knows(txn[u])' /\ Completes(txn[u])' /\ Undetoured(txn[u])'
  PROVE  Inv'
<1>1. txn'[t] = Idle /\ \A u \in Txn \ {t} : txn'[u] = txn[u]
  BY DEF Set, Inv, TypeOK
<1>2. ASSUME NEW u \in Txn PROVE Fits(u, txn[u])'
  <2>1. CASE u = t
    <3>0. txn'[u] = Idle
      BY Zenon, <1>1, <2>1
    <3>1. Shape(u, txn[u])'
      BY Zenon, <3>0, IdleFits DEF Shape
    <3>2. Knows(txn[u])' /\ Completes(txn[u])'
      BY <3>0, IdleFields DEF Knows, Completes
    <3>3. Undetoured(txn[u])' /\ Excludes(u, txn[u])'
      BY <3>0, IdleFields DEF Undetoured, Excludes
    <3> QED
      BY Zenon, <3>1, <3>2, <3>3 DEF Fits
  <2>2. CASE u # t
    <3>1. Fits(u, txn[u]) /\ txn'[u] = txn[u]
      BY Zenon, <1>1, <2>2 DEF Inv
    <3>2. Shape(u, txn[u])'
      BY Zenon, <3>1 DEF Fits, Shape
    <3>3. Excludes(u, txn[u])'
      <4> SUFFICES ASSUME NEW v \in Txn \ {u}
                   PROVE  /\ txn[u].locks \cap txn'[v].locks = {}
                          /\ \A x \in txn[u].locks : ~Shared(v, x)'
                          /\ txn[u].pc = "inserted" =>
                               /\ ~(txn'[v].pc = "inserted" /\ txn'[v].row = txn[u].row)
                               /\ txn[u].row \in Sub => Parent[txn[u].row] \notin txn'[v].locks
        BY Zenon, <3>1 DEF Excludes
      <4>1. CASE v = t
        BY <1>1, <4>1 DEF Idle, Shared
      <4>2. CASE v # t
        <5>1. Excludes(u, txn[u]) /\ txn'[v] = txn[v]
          BY Zenon, <1>1, <3>1, <4>2 DEF Fits
        <5> QED
          BY Zenon, <5>1 DEF Excludes, Shared
      <4> QED
        BY <4>1, <4>2
    <3> QED
      BY Zenon, <2>2, <3>2, <3>3 DEF Fits
  <2> QED
    BY <2>1, <2>2
<1> QED
  BY Zenon, <1>2 DEF Inv

\* It releases the locks, and the others' stay apart.
LEMMA IdleLocks ==
  ASSUME Inv, NEW t \in Txn, Set(t, Idle)
  PROVE  /\ txn' \in [Txn -> Record]
         /\ \A u \in Txn \ {t} : txn'[u] = txn[u]
         /\ \A u, v \in Txn : u # v => txn'[u].locks \cap txn'[v].locks = {}
<1>1. txn' \in [Txn -> Record] /\ txn'[t] = Idle /\ \A u \in Txn \ {t} : txn'[u] = txn[u]
  BY IdleFits DEF Set, Inv, TypeOK
<1>2. Idle.locks = {}
  BY DEF Idle
<1>3. ASSUME NEW u \in Txn, NEW v \in Txn, u # v PROVE txn'[u].locks \cap txn'[v].locks = {}
  <2>1. txn[u].locks \cap txn[v].locks = {}
    BY Zenon, <1>3 DEF Inv, Agreement
  <2> QED
    BY <1>1, <1>2, <1>3, <2>1
<1> QED
  BY Zenon, <1>1, <1>3

\* What a transaction has read still holds if the commit leaves the rows it has locked alone.
LEMMA StillKnows ==
  ASSUME Inv, NEW u \in Txn, NEW r \in Record, r = txn[u], txn'[u] = r, Fits(u, r),
         r.pc = "inserted" => status'[r.row] = status[r.row],
         \A x \in Row : status[x] # "none" => status'[x] # "none",
         \A x \in Row : x \in r.locks /\ status[x] # "none" => status'[x] = status[x],
         \A a \in Sub : a \in r.locks => closure'[a] = closure[a]
  PROVE  Knows(txn[u])'
<1>1. Shape(u, r) /\ Knows(r)
  BY Zenon DEF Fits
<1>2. r.todo \cup r.ends \subseteq Row /\ r.closing \cup r.late \subseteq Sub /\ r.closing \subseteq Row
  BY DEF Record, Row
<1>3. /\ r.pc = "inserted" => status'[r.row] = "none"
      /\ r.pc \in {"lock", "external"} => status'[r.row] # "none"
  BY Zenon, <1>1 DEF Shape, Knows, Row
<1>4. \A x \in r.todo \cup r.ends : status'[x] # "none"
  BY Zenon, <1>1, <1>2 DEF Knows
<1>5. \A a \in r.closing : status'[a] = "open"
  BY <1>1, <1>2 DEF Shape, Knows
<1>6. \A a \in r.late : closure'[a].by = "reaper"
  BY <1>1, <1>2 DEF Shape, Knows
<1>7. r.by = "hook" => \A a \in r.locks \ (r.closing \cup r.late) :
        a \in Sub /\ closure'[a] # NoClosure /\ (closure'[a].by = "reaper" => closure'[a].late)
  BY Zenon, <1>1 DEF Knows
<1> QED
  BY Zenon, <1>3, <1>4, <1>5, <1>6, <1>7 DEF Knows

\* The commit of a registration.
LEMMA RegisterCommitKeeps ==
  ASSUME Inv, NEW t \in Txn, RegisterCommit(t)
  PROVE  Inv'
<1>1. PICK x \in Row : x = txn[t].row
  BY Zenon DEF RegisterCommit, Inv, Fits, Shape
<1>2. /\ status[x] = "none" /\ Set(t, Idle) /\ txn[t].pc = "inserted"
      /\ status' = [status EXCEPT ![x] = "open"]
      /\ task' = [task EXCEPT ![x] = "queued"]
      /\ mission' = IF x \in Session THEN [mission EXCEPT ![x] = "running"] ELSE mission
      /\ fresh' = [fresh EXCEPT ![x] = TRUE]
      /\ UNCHANGED <<outcome, closure, aborts, externals>>
  BY Zenon, <1>1 DEF RegisterCommit, Inv, Fits, Knows
<1>3. /\ status' \in [Row -> {"none", "open", "ended"}] /\ status'[x] = "open"
      /\ \A y \in Row \ {x} : status'[y] = status[y]
      /\ task' \in [Row -> TaskStatus] /\ task'[x] = "queued"
      /\ \A y \in Row \ {x} : task'[y] = task[y]
  BY <1>2 DEF Inv, TypeOK, TaskStatus
<1>4. /\ mission' \in [Session -> MissionStatus \cup {"none"}]
      /\ x \in Session => mission'[x] = "running"
      /\ \A s \in Session \ {x} : mission'[s] = mission[s]
  BY <1>2 DEF Inv, TypeOK, MissionStatus
<1>5. TypeOK'
  BY <1>2, <1>3, <1>4, IdleLocks DEF Inv, TypeOK
<1>6. Agreement'
  <2>1. ASSUME NEW a \in Sub PROVE status'[a] = "ended" <=> closure'[a] # NoClosure
    <3>1. status[a] = "ended" <=> closure[a] # NoClosure
      BY Zenon DEF Inv, Agreement
    <3> QED
      BY <1>2, <1>3, <3>1 DEF Row
  <2>2. ASSUME externals = 0
        PROVE  /\ \A y \in Row : status'[y] = "open" <=> task'[y] = "queued"
               /\ \A a \in Sub : status'[a] = "ended" => task'[a] = closure'[a].outcome
               /\ \A s \in Session : /\ status'[s] = "open" <=> mission'[s] = "running"
                                     /\ status'[s] = "ended" => mission'[s] = "completed" /\ task'[s] = "completed"
    <3>1. /\ \A y \in Row : status[y] = "open" <=> task[y] = "queued"
          /\ \A a \in Sub : status[a] = "ended" => task[a] = closure[a].outcome
          /\ \A s \in Session : /\ status[s] = "open" <=> mission[s] = "running"
                                /\ status[s] = "ended" => mission[s] = "completed" /\ task[s] = "completed"
      BY Zenon, <2>2 DEF Inv, Agreement
    <3>2. \A y \in Row : status'[y] = "open" <=> task'[y] = "queued"
      BY <1>3, <3>1
    <3>3. \A a \in Sub : status'[a] = "ended" => task'[a] = closure'[a].outcome
      BY <1>2, <1>3, <3>1 DEF Row
    <3>4. \A s \in Session : /\ status'[s] = "open" <=> mission'[s] = "running"
                             /\ status'[s] = "ended" => mission'[s] = "completed" /\ task'[s] = "completed"
      BY <1>3, <1>4, <3>1 DEF Row
    <3> QED
      BY Zenon, <3>2, <3>3, <3>4
  <2> QED
    BY Zenon, <1>2, <2>1, <2>2, IdleLocks DEF Agreement
<1>7. ASSUME NEW u \in Txn \ {t} PROVE Knows(txn[u])' /\ Completes(txn[u])' /\ Undetoured(txn[u])'
  <2>0. txn'[u] = txn[u] /\ txn[u] \in Record /\ Fits(u, txn[u]) /\ Fits(t, txn[t])
    BY Zenon, <1>2, IdleLocks DEF Inv, TypeOK
  <2>1. /\ txn[u].pc = "inserted" => txn[u].row # x
        /\ x \in Sub => Parent[x] \notin txn[u].locks
    BY Zenon, <1>1, <1>2, <2>0 DEF Fits, Excludes
  <2>2. Knows(txn[u])'
    <3>1. PICK r \in Record : r = txn[u]
      BY Zenon, <2>0
    <3>2. \A y \in Row : status[y] # "none" => status'[y] = status[y]
      BY <1>2, <1>3
    <3>3. r.pc = "inserted" => status'[r.row] = status[r.row]
      <4>1. r.pc = "inserted" => r.row \in Row
        BY Zenon, <2>0, <3>1 DEF Fits, Shape
      <4> QED
        BY <1>3, <2>1, <3>1, <4>1
    <3> QED
      BY Zenon, <1>2, <2>0, <3>1, <3>2, <3>3, StillKnows
  <2>3. Completes(txn[u])'
    BY <1>2, <1>3, <2>0, <2>1 DEF Fits, Completes, Shape, Record, Row
  <2>4. Undetoured(txn[u])'
    <3>1. \A y \in txn[u].over : status[y] = "ended" => status'[y] = "ended"
      BY <1>2, <1>3, <2>0 DEF Record
    <3>2. \A s \in txn[u].ends : status[s] # "none"
      BY Zenon, <2>0 DEF Fits, Knows
    <3>3. \A s \in txn[u].ends : mission'[s] = mission[s]
      BY <1>2, <1>4, <2>0, <3>2 DEF Record
    <3> QED
      BY Zenon, <1>2, <2>0, <3>1, <3>3 DEF Fits, Undetoured
  <2> QED
    BY <2>2, <2>3, <2>4
<1> QED
  BY Zenon, <1>2, <1>5, <1>6, <1>7, CommitKeeps

\* The rows after the commit of r, a close, an end or a sweep.
Written(r, result) ==
  /\ closure' = [a \in Sub |->
       IF a \in r.closing THEN [by |-> r.by, outcome |-> result, late |-> FALSE]
       ELSE IF a \in r.late THEN [closure[a] EXCEPT !.late = TRUE] ELSE closure[a]]
  /\ task' = [x \in Row |->
       IF x \in (r.closing \cup r.ends) \ r.over THEN IF x \in r.closing THEN result ELSE "completed"
       ELSE task[x]]
  /\ mission' = [s \in Session |-> IF s \in r.running THEN "completed" ELSE mission[s]]
  /\ status' = [x \in Row |-> IF x \in r.closing \cup r.ends THEN "ended" ELSE status[x]]
  /\ outcome' = [s \in Session |-> IF s \in r.ends THEN r.outcome ELSE outcome[s]]

\* Commit does that: what a transaction closes under its lock has no closure yet, so that the
\* unique constraint never stops it, and its Task is advanced unless it was over.
LEMMA CommitWrites ==
  ASSUME Inv, NEW t \in Txn, Commit(t), NEW r, r = txn[t]
  PROVE  /\ r \in Record /\ Fits(t, r) /\ r.pc = "write" /\ r.todo = {}
         /\ CloseOutcome(r) \in {"completed", "failed"}
         /\ \A a \in r.closing : closure[a] = NoClosure /\ r.by # "none"
         /\ r.closing \cap r.late = {}
         /\ Written(r, CloseOutcome(r))
         /\ Set(t, Idle) /\ UNCHANGED <<fresh, aborts, externals>>
<1>1. /\ r \in Record /\ Fits(t, r) /\ r.pc = "write" /\ r.todo = {} /\ Set(t, Idle)
      /\ UNCHANGED <<fresh, aborts, externals>>
  <2>1. r \in Record /\ Fits(t, r) /\ r.pc = "write" /\ Set(t, Idle) /\ UNCHANGED <<fresh, aborts, externals>>
    BY Zenon DEF Commit, Inv, TypeOK
  <2> QED
    BY <2>1 DEF Fits, Shape
<1>2. CloseOutcome(r) \in {"completed", "failed"}
  BY <1>1 DEF CloseOutcome, Fits, Shape
<1>3. ASSUME NEW a \in r.closing PROVE closure[a] = NoClosure /\ r.by # "none"
  <2>1. a \in Sub /\ status[a] = "open" /\ a \in r.locks
    BY <1>1 DEF Fits, Shape, Knows, Record
  <2>2. status[a] = "ended" <=> closure[a] # NoClosure
    BY Zenon, <2>1 DEF Inv, Agreement
  <2>3. r.by # "none"
    BY <1>1, <2>1 DEF Fits, Shape
  <2> QED
    BY <2>1, <2>2, <2>3
<1>4. r.closing \cap r.late = {}
  BY <1>1, <1>3 DEF Fits, Knows, NoClosure
<1>5. {a \in r.closing : closure[a] = NoClosure} = r.closing
  BY <1>3
<1>6. /\ r.closing \subseteq Sub /\ r.ends \subseteq Session /\ Sub \cap Session = {}
  BY <1>1, SessionsAssumption DEF Record
<1> DEFINE result == CloseOutcome(r)
<1>7. /\ closure' = [a \in Sub |->
           CASE a \in r.closing -> [by |-> r.by, outcome |-> result, late |-> FALSE]
             [] a \in r.late -> [closure[a] EXCEPT !.late = TRUE]
             [] OTHER        -> closure[a]]
      /\ task' = [x \in Row |->
           CASE x \in r.closing -> AdvanceTask(t, x, result)
             [] x \in r.ends -> AdvanceTask(t, x, "completed")
             [] OTHER        -> task[x]]
      /\ mission' = [s \in Session |-> IF s \in r.running THEN "completed" ELSE mission[s]]
      /\ status' = [x \in Row |-> IF x \in r.closing \cup r.ends THEN "ended" ELSE status[x]]
      /\ outcome' = [s \in Session |-> IF s \in r.ends THEN r.outcome ELSE outcome[s]]
  BY <1>5 DEF Commit
<1> HIDE DEF result
<1>8. closure' = [a \in Sub |->
       IF a \in r.closing THEN [by |-> r.by, outcome |-> result, late |-> FALSE]
       ELSE IF a \in r.late THEN [closure[a] EXCEPT !.late = TRUE] ELSE closure[a]]
  BY <1>4, <1>7
<1>9. task' = [x \in Row |->
       IF x \in (r.closing \cup r.ends) \ r.over THEN IF x \in r.closing THEN result ELSE "completed"
       ELSE task[x]]
  BY <1>6, <1>7 DEF AdvanceTask
<1> QED
  BY <1>1, <1>2, <1>3, <1>4, <1>7, <1>8, <1>9 DEF Written, result

\* The commit seen from a row: what it closes or ends it holds, and the rest stays.
LEMMA WrittenRows ==
  ASSUME Inv, NEW t \in Txn, NEW r \in Record, r = txn[t], Fits(t, r), NEW result, Written(r, result),
         r.closing \cap r.late = {}
  PROVE  /\ \A x \in Row : status'[x] = IF x \in r.closing \cup r.ends THEN "ended" ELSE status[x]
         /\ \A x \in Row : x \in r.closing \cup r.ends => status[x] # "none" /\ x \in r.locks
         /\ \A a \in Sub : a \notin r.closing \cup r.late => closure'[a] = closure[a]
         /\ \A s \in Session : s \notin r.ends => mission'[s] = mission[s]
<1>1. /\ \A x \in Row : x \in r.closing \cup r.ends => status[x] # "none" /\ x \in r.locks
      /\ r.running \subseteq r.ends
  BY DEF Fits, Knows, Shape
<1> QED
  BY <1>1 DEF Written

\* The commit of a close, an end or a sweep.
LEMMA CommitCommitKeeps ==
  ASSUME Inv, NEW t \in Txn, Commit(t)
  PROVE  Inv'
<1>0. PICK r \in Record : r = txn[t]
  BY Zenon DEF Inv, TypeOK
<1> DEFINE result == CloseOutcome(r)
<1>1. /\ Fits(t, r) /\ r.pc = "write" /\ r.todo = {} /\ result \in {"completed", "failed"}
      /\ \A a \in r.closing : closure[a] = NoClosure /\ r.by # "none"
      /\ r.closing \cap r.late = {}
      /\ Written(r, result)
      /\ Set(t, Idle) /\ UNCHANGED <<fresh, aborts, externals>>
  BY Zenon, <1>0, CommitWrites
<1> HIDE DEF result
<1>2. /\ \A x \in Row : status'[x] = IF x \in r.closing \cup r.ends THEN "ended" ELSE status[x]
      /\ \A x \in Row : x \in r.closing \cup r.ends => status[x] # "none" /\ x \in r.locks
      /\ \A a \in Sub : a \notin r.closing \cup r.late => closure'[a] = closure[a]
      /\ \A s \in Session : s \notin r.ends => mission'[s] = mission[s]
  BY Zenon, <1>0, <1>1, WrittenRows
<1>3. TypeOK'
  <2>1. txn' \in [Txn -> Record]
    BY Zenon, <1>1, IdleLocks
  <2>2. task' \in [Row -> TaskStatus] /\ status' \in [Row -> {"none", "open", "ended"}]
    BY <1>1 DEF Written, Inv, TypeOK, TaskStatus
  <2>3. mission' \in [Session -> MissionStatus \cup {"none"}] /\ outcome' \in [Session -> {"none", "completed", "failed", "abandoned"}]
    BY <1>1 DEF Written, Inv, TypeOK, MissionStatus, Record
  <2>4. closure' \in [Sub -> [by : {"none", "hook", "session_end", "reaper"},
                          outcome : {"none", "completed", "failed"}, late : BOOLEAN]]
    <3> DEFINE C == [by : {"none", "hook", "session_end", "reaper"}, outcome : {"none", "completed", "failed"}, late : BOOLEAN]
    <3>1. [by |-> r.by, outcome |-> result, late |-> FALSE] \in C
      BY <1>1 DEF Record
    <3>2. \A a \in Sub : closure[a] \in C /\ [closure[a] EXCEPT !.late = TRUE] \in C
      BY Zenon DEF Inv, TypeOK
    <3> HIDE DEF C
    <3>3. closure' \in [Sub -> C]
      BY <1>1, <3>1, <3>2 DEF Written
    <3> QED
      BY Zenon, <3>3 DEF C
  <2> QED
    BY <1>1, <2>1, <2>2, <2>3, <2>4 DEF Inv, TypeOK
<1>4. r.closing \subseteq Sub /\ r.ends \subseteq Session /\ r.late \subseteq Sub /\ Sub \cap Session = {}
  BY SessionsAssumption DEF Record
<1>5. Agreement'
  <2>1. ASSUME NEW a \in Sub PROVE status'[a] = "ended" <=> closure'[a] # NoClosure
    <3>0. (status[a] = "ended" <=> closure[a] # NoClosure) /\ a \in Row /\ a \notin r.ends
      BY <1>4 DEF Inv, Agreement, Row
    <3>1. CASE a \in r.closing
      <4>1. closure'[a] = [by |-> r.by, outcome |-> result, late |-> FALSE]
        BY <1>1, <3>1 DEF Written
      <4> QED
        BY <1>1, <1>2, <3>0, <3>1, <4>1 DEF NoClosure
    <3>2. CASE a \in r.late /\ a \notin r.closing
      <4>1. closure'[a] = [closure[a] EXCEPT !.late = TRUE] /\ closure[a].by = "reaper"
        BY <1>1, <3>2 DEF Written, Fits, Knows
      <4>2. closure[a] # NoClosure /\ closure'[a] # NoClosure
        BY <4>1 DEF NoClosure, Inv, TypeOK
      <4> QED
        BY <1>2, <3>0, <3>2, <4>2
    <3>3. CASE a \notin r.late /\ a \notin r.closing
      BY <1>2, <3>0, <3>3
    <3> QED
      BY Zenon, <3>1, <3>2, <3>3
  <2>2. ASSUME externals = 0
        PROVE  /\ \A y \in Row : status'[y] = "open" <=> task'[y] = "queued"
               /\ \A a \in Sub : status'[a] = "ended" => task'[a] = closure'[a].outcome
               /\ \A s \in Session : /\ status'[s] = "open" <=> mission'[s] = "running"
                                     /\ status'[s] = "ended" => mission'[s] = "completed" /\ task'[s] = "completed"
    <3>1. /\ \A y \in Row : status[y] = "open" <=> task[y] = "queued"
          /\ \A a \in Sub : status[a] = "ended" => task[a] = closure[a].outcome
          /\ \A s \in Session : /\ status[s] = "open" <=> mission[s] = "running"
                                /\ status[s] = "ended" => mission[s] = "completed" /\ task[s] = "completed"
      BY Zenon, <2>2 DEF Inv, Agreement
    <3>2. /\ \A x \in r.over : status[x] = "ended"
          /\ \A s \in r.ends : mission[s] = "running" => s \in r.running
          /\ \A a \in r.closing : status[a] = "open"
      BY <1>1, <2>2 DEF Fits, Undetoured, Knows
    <3>3. \A y \in Row : task'[y] = IF y \in (r.closing \cup r.ends) \ r.over
                                     THEN IF y \in r.closing THEN result ELSE "completed" ELSE task[y]
      BY <1>1 DEF Written
    <3>4. \A y \in Row : status'[y] = "open" <=> task'[y] = "queued"
      BY <1>1, <1>2, <3>1, <3>2, <3>3
    <3>5. \A a \in Sub : status'[a] = "ended" => task'[a] = closure'[a].outcome
      <4> SUFFICES ASSUME NEW a \in Sub, status'[a] = "ended" PROVE task'[a] = closure'[a].outcome
        OBVIOUS
      <4>0. a \in Row /\ a \notin r.ends
        BY <1>4 DEF Row
      <4>1. CASE a \in r.closing
        <5>1. closure'[a].outcome = result
          BY <1>1, <4>1 DEF Written
        <5>2. a \notin r.over
          BY <3>2, <4>1
        <5> QED
          BY <3>3, <4>0, <4>1, <5>1, <5>2
      <4>2. CASE a \notin r.closing
        <5>1. task'[a] = task[a] /\ status[a] = "ended"
          BY <1>2, <3>3, <4>0, <4>2
        <5>2. closure'[a].outcome = closure[a].outcome
          BY <1>1, <4>2 DEF Written, Inv, TypeOK
        <5> QED
          BY Zenon, <3>1, <5>1, <5>2
      <4> QED
        BY <4>1, <4>2
    <3>6. \A s \in Session : /\ status'[s] = "open" <=> mission'[s] = "running"
                             /\ status'[s] = "ended" => mission'[s] = "completed" /\ task'[s] = "completed"
      <4> SUFFICES ASSUME NEW s \in Session
                   PROVE  /\ status'[s] = "open" <=> mission'[s] = "running"
                          /\ status'[s] = "ended" => mission'[s] = "completed" /\ task'[s] = "completed"
        OBVIOUS
      <4>0. s \in Row /\ s \notin r.closing
        BY <1>4 DEF Row
      <4>1. CASE s \in r.ends
        <5>1. status'[s] = "ended" /\ status[s] \in {"open", "ended"}
          BY <1>2, <4>0, <4>1 DEF Inv, TypeOK
        <5>2. mission'[s] = "completed"
          <6>1. CASE s \in r.running
            BY <1>1, <6>1 DEF Written
          <6>2. CASE s \notin r.running
            BY <1>1, <3>1, <3>2, <4>1, <5>1, <6>2 DEF Written
          <6> QED
            BY <6>1, <6>2
        <5>3. task'[s] = "completed"
          BY <3>1, <3>2, <3>3, <4>0, <4>1
        <5> QED
          BY <5>1, <5>2, <5>3
      <4>2. CASE s \notin r.ends
        BY <1>2, <3>1, <3>3, <4>0, <4>2
      <4> QED
        BY <4>1, <4>2
    <3> QED
      BY Zenon, <3>4, <3>5, <3>6
  <2> QED
    BY Zenon, <1>1, <2>1, <2>2, IdleLocks DEF Agreement
<1>6. ASSUME NEW u \in Txn \ {t} PROVE Knows(txn[u])' /\ Completes(txn[u])' /\ Undetoured(txn[u])'
  <2>0. txn'[u] = txn[u] /\ txn[u] \in Record /\ Fits(u, txn[u])
    BY Zenon, <1>1, IdleLocks DEF Inv, TypeOK
  <2>1. r.locks \cap txn[u].locks = {}
    BY Zenon, <1>0 DEF Inv, Agreement
  <2>2. r.closing \cup r.late \cup r.ends \subseteq r.locks
    BY Zenon, <1>1 DEF Fits, Shape
  <2>3. \A x \in Row : (status'[x] = "none" <=> status[x] = "none") /\ (x \in txn[u].locks => status'[x] = status[x])
    BY <1>2, <2>1
  <2>4. \A a \in Sub : a \in txn[u].locks => closure'[a] = closure[a]
    <3> SUFFICES ASSUME NEW a \in Sub, a \in txn[u].locks PROVE closure'[a] = closure[a]
      OBVIOUS
    <3>1. a \notin r.closing \cup r.late
      BY <2>1, <2>2
    <3> QED
      BY Zenon, <1>2, <3>1
  <2>5. Knows(txn[u])'
    <3>1. PICK q \in Record : q = txn[u]
      BY Zenon, <2>0
    <3>2. q.pc = "inserted" => q.row \in Row /\ status[q.row] = "none"
      BY Zenon, <2>0, <3>1 DEF Fits, Shape, Knows
    <3> QED
      BY Zenon, <2>0, <2>3, <2>4, <3>1, <3>2, StillKnows
  <2>6. Completes(txn[u])'
    BY <1>2, <2>0 DEF Fits, Completes, Row
  <2>7. Undetoured(txn[u])'
    <3>1. \A x \in txn[u].over : status[x] = "ended" => status'[x] = "ended"
      BY <1>2, <2>0 DEF Record
    <3>2. \A s \in txn[u].ends : mission'[s] = mission[s]
      BY <1>2, <2>0, <2>1, <2>2 DEF Record, Fits, Shape
    <3> QED
      BY Zenon, <1>1, <2>0, <3>1, <3>2 DEF Fits, Undetoured
  <2> QED
    BY <2>5, <2>6, <2>7
<1> QED
  BY Zenon, <1>1, <1>3, <1>5, <1>6, CommitKeeps

\* The commit of an external request.
LEMMA ExternalCommitKeeps ==
  ASSUME Inv, NEW t \in Txn, ExternalCommit(t)
  PROVE  Inv'
<1>0. PICK r \in Record : r = txn[t]
  BY Zenon DEF Inv, TypeOK
<1>1. /\ r.pc = "external" /\ Fits(t, r) /\ Set(t, Idle)
      /\ task' = [task EXCEPT ![r.row] = r.outcome]
      /\ mission' = [mission EXCEPT ![MissionOf(r.row)] = r.outcome]
      /\ UNCHANGED <<status, outcome, closure, fresh, aborts, externals>>
  BY Zenon, <1>0 DEF ExternalCommit, Inv
<1>2. r.row \in Row /\ r.outcome \in {"completed", "failed"} /\ externals # 0
  BY Zenon, <1>1 DEF Fits, Shape, Undetoured
<1>3. TypeOK'
  <2>1. task' \in [Row -> TaskStatus]
    BY <1>1, <1>2 DEF Inv, TypeOK, TaskStatus
  <2>2. MissionOf(r.row) \in Session
    BY <1>2, SessionsAssumption DEF MissionOf, Row
  <2>3. mission' \in [Session -> MissionStatus \cup {"none"}]
    BY <1>1, <1>2, <2>2 DEF Inv, TypeOK, MissionStatus
  <2> QED
    BY <1>1, <2>1, <2>3, IdleLocks DEF Inv, TypeOK
<1>4. Agreement'
  BY Zenon, <1>1, <1>2, IdleLocks DEF Inv, Agreement
<1>5. ASSUME NEW u \in Txn \ {t} PROVE Knows(txn[u])' /\ Completes(txn[u])' /\ Undetoured(txn[u])'
  <2>1. txn'[u] = txn[u] /\ Fits(u, txn[u])
    BY Zenon, <1>1, IdleLocks DEF Inv
  <2> QED
    BY Zenon, <1>1, <1>2, <2>1 DEF Fits, Knows, Completes, Undetoured
<1> QED
  BY Zenon, <1>1, <1>3, <1>4, <1>5, CommitKeeps

\* Heartbeats, and silence.
LEMMA QuietKeeps ==
  ASSUME Inv, UNCHANGED <<db, txn, aborts, externals>>, fresh' \in [Row -> BOOLEAN]
  PROVE  Inv'
<1>1. UNCHANGED <<status, outcome, task, mission, closure, txn, aborts, externals>>
  BY DEF db
<1>2. TypeOK'
  BY <1>1 DEF Inv, TypeOK
<1>3. Agreement'
  BY Zenon, <1>1 DEF Inv, Agreement
<1>4. ASSUME NEW t \in Txn PROVE Fits(t, txn[t])'
  <2>1. Fits(t, txn[t])
    BY Zenon DEF Inv
  <2> QED
    <3>1. Shape(t, txn[t])' /\ Excludes(t, txn[t])'
      BY Zenon, <1>1, <2>1 DEF Fits, Shape, Excludes, Shared
    <3>2. Knows(txn[t])' /\ Completes(txn[t])' /\ Undetoured(txn[t])'
      BY Zenon, <1>1, <2>1 DEF Fits, Knows, Completes, Undetoured
    <3> QED
      BY Zenon, <3>1, <3>2 DEF Fits
<1> QED
  BY Zenon, <1>2, <1>3, <1>4 DEF Inv

-----------------------------------------------------------------------------
(***************************************************************************)
(* The results.                                                            *)
(***************************************************************************)

\* Every step keeps the invariant.
LEMMA Inductive == Inv /\ [Next]_vars => Inv'
<1> SUFFICES ASSUME Inv, [Next]_vars PROVE Inv'
  OBVIOUS
<1>1. CASE UNCHANGED vars
  BY Zenon, <1>1, QuietKeeps DEF vars, Inv, TypeOK
<1>2. CASE \E x \in Row : Heartbeat(x) \/ Silence(x)
  <2>1. fresh' \in [Row -> BOOLEAN] /\ UNCHANGED <<db, txn, aborts, externals>>
    BY Zenon, <1>2 DEF Heartbeat, Silence, Inv, TypeOK
  <2> QED
    BY Zenon, <2>1, QuietKeeps
<1>3. CASE \E t \in Request, x \in Row : RegisterLoad(t, x)
  BY Zenon, <1>3, RegisterLoadKeeps
<1>4. CASE \E t \in Request, a \in Sub, result \in {"completed", "failed"} : HookClose(t, a, result)
  BY Zenon, <1>4, HookCloseKeeps
<1>5. CASE \E t \in Request, s \in Session, result \in Outcome : EndLoad(t, s, result)
  BY Zenon, <1>5, EndLoadKeeps
<1>6. CASE \E t \in Request, x \in Row, result \in {"completed", "failed"} : ExternalLoad(t, x, result)
  BY Zenon, <1>6, ExternalLoadKeeps
<1>7. CASE \E t \in Reaper : ReapSubs(t)
  BY Zenon, <1>7, ReapSubsKeeps
<1>8. CASE \E t \in Txn : Proceed(t) \/ Abort(t)
  BY Zenon, <1>8, RegisterInsertKeeps, RegisterCommitKeeps, EndLockKeeps, EndMissionKeeps, EndSubKeeps,
     ReapSessionsKeeps, CommitCommitKeeps, ExternalCommitKeeps, AbortKeeps DEF Proceed
<1> QED
  BY Zenon, <1>1, <1>2, <1>3, <1>4, <1>5, <1>6, <1>7, <1>8 DEF Next

\* It holds at first.
LEMMA Initially == Init => Inv
<1> SUFFICES ASSUME Init PROVE Inv
  OBVIOUS
<1>1. TypeOK
  <2>1. Idle \in Record
    BY DEF Idle, Record
  <2> QED
    BY <2>1, SessionsAssumption DEF Init, TypeOK, NoClosure, TaskStatus
<1>2. Agreement
  <2>1. \A t \in Txn : txn[t].locks = {}
    BY DEF Init, Idle
  <2>2. \A s \in Session : s \in Row
    BY DEF Row
  <2>3. \A a \in Sub : a \in Row
    BY DEF Row
  <2> QED
    BY <2>1, <2>2, <2>3 DEF Init, Agreement
<1>3. ASSUME NEW t \in Txn PROVE Fits(t, txn[t])
  <2>1. txn[t] = Idle
    BY DEF Init
  <2> QED
    BY Zenon, <2>1, IdleFits DEF Fits
<1> QED
  BY Zenon, <1>1, <1>2, <1>3 DEF Inv

\* What every transaction has read and holds stays true until it writes, however transactions
\* interleave and whichever are rolled back.
THEOREM Invariance == Spec => []Inv
BY Initially, Inductive, PTL DEF Spec

\* agent_runtime_closure.py: a row is held by one transaction at a time; a subagent has ended
\* exactly when it has its closure; and without external requests sessions, subagents, Tasks
\* and Missions say the same, for any sessions, subagents, requests and reapers.
THEOREM RowsAgree == Spec => []Agreement
<1>1. Inv => Agreement
  BY Zenon DEF Inv
<1> QED
  BY <1>1, Invariance, PTL

\* Every column keeps to its values, and no close or external request reports "abandoned".
THEOREM TypeCorrect == Spec => []TypeOK
<1>1. Inv => TypeOK
  BY Zenon DEF Inv
<1> QED
  BY <1>1, Invariance, PTL

\* Two kinds of commit write rows and closures.
LEMMA Writers ==
  ASSUME [Next]_vars
  PROVE  \/ UNCHANGED <<status, closure>>
         \/ \E t \in Txn : RegisterCommit(t)
         \/ \E t \in Txn : Commit(t)
<1>1. CASE \E t \in Txn : Proceed(t) \/ Abort(t)
  BY Zenon, <1>1 DEF Proceed, Abort, RegisterInsert, EndLock, EndMission, EndSub, ReapSessions, EndStale, ExternalCommit, db
<1> QED
  BY Zenon, <1>1 DEF Next, RegisterLoad, HookClose, EndLoad, ExternalLoad, ReapSubs, Heartbeat, Silence, db, vars

\* The closure of a subagent after such a commit.
LEMMA ClosureStep ==
  ASSUME Inv, NEW t \in Txn, Commit(t), NEW r \in Record, r = txn[t], NEW a \in Sub
  PROVE  \/ a \in r.closing /\ closure[a] = NoClosure /\ closure'[a] = [by |-> r.by, outcome |-> CloseOutcome(r), late |-> FALSE]
         \/ a \in r.late /\ closure[a].by = "reaper" /\ closure'[a] = [closure[a] EXCEPT !.late = TRUE]
         \/ a \notin r.closing \cup r.late /\ closure'[a] = closure[a]
<1>1. /\ Fits(t, r) /\ Written(r, CloseOutcome(r)) /\ \A b \in r.closing : closure[b] = NoClosure /\ r.by # "none"
  BY Zenon, CommitWrites
<1>2. \A b \in r.late : closure[b].by = "reaper"
  BY Zenon, <1>1 DEF Fits, Knows
<1> QED
  BY <1>1, <1>2 DEF Written

\* T2-F9: what closed a subagent stays on record, whoever closes it again; only that a hook came
\* after the reaper may be added (late_close_at).
THEOREM ClosuresStay == Spec => ClosedForGood
<1> DEFINE Kept == \A a \in Sub : closure[a] # NoClosure =>
                     closure'[a] \in {closure[a]} \cup
                       {[closure[a] EXCEPT !.late = TRUE] : c \in {closure[a].by} \cap {"reaper"}}
<1>1. ASSUME Inv, [Next]_vars PROVE Kept
  <2>1. CASE UNCHANGED closure
    BY <2>1
  <2>2. ASSUME NEW t \in Txn, Commit(t) PROVE Kept
    <3> SUFFICES ASSUME NEW a \in Sub, closure[a] # NoClosure
                 PROVE  closure'[a] = closure[a] \/ (closure[a].by = "reaper" /\ closure'[a] = [closure[a] EXCEPT !.late = TRUE])
      BY Zenon
    <3>1. PICK r \in Record : r = txn[t]
      BY Zenon, <1>1 DEF Inv, TypeOK
    <3> QED
      BY Zenon, <1>1, <2>2, <3>1, ClosureStep
  <2> QED
    BY Zenon, <1>1, <2>1, <2>2, Writers DEF RegisterCommit
<1>2. Inv /\ [Next]_vars => [Kept]_vars
  BY Zenon, <1>1
<1> QED
  BY <1>2, Invariance, PTL DEF Spec, ClosedForGood

\* T2-F7: when a session ends, by PATCH or by the reaper, no subagent registered under it stays
\* open, also none that registers meanwhile.
THEOREM EndsCloseAll == Spec => EndClosesAll
<1> DEFINE Closed == \A s \in Session : status[s] = "open" /\ status'[s] = "ended" =>
                       \A a \in Sub : Parent[a] = s => status'[a] # "open"
<1>1. ASSUME Inv, [Next]_vars PROVE Closed
  <2>1. CASE UNCHANGED status
    BY <2>1
  <2>2. ASSUME NEW t \in Txn, RegisterCommit(t) PROVE Closed
    BY <1>1, <2>2 DEF RegisterCommit, Inv, TypeOK, Row
  <2>3. ASSUME NEW t \in Txn, Commit(t) PROVE Closed
    <3>1. PICK r \in Record : r = txn[t]
      BY Zenon, <1>1 DEF Inv, TypeOK
    <3>2. Fits(t, r) /\ r.todo = {} /\ Written(r, CloseOutcome(r)) /\ r.closing \cap r.late = {}
      BY Zenon, <1>1, <2>3, <3>1, CommitWrites
    <3>3. \A x \in Row : status'[x] = IF x \in r.closing \cup r.ends THEN "ended" ELSE status[x]
      BY Zenon, <1>1, <3>1, <3>2, WrittenRows
    <3> SUFFICES ASSUME NEW s \in Session, status[s] = "open", status'[s] = "ended",
                        NEW a \in Sub, Parent[a] = s
                 PROVE  status'[a] # "open"
      OBVIOUS
    <3>4. s \in Row /\ a \in Row /\ s \notin r.closing
      BY SessionsAssumption DEF Row, Record
    <3>5. s \in r.ends
      BY <3>3, <3>4
    <3>6. status[a] = "open" => a \in r.closing
      BY <3>2, <3>5 DEF Fits, Completes
    <3> QED
      BY <3>3, <3>4, <3>6
  <2> QED
    BY Zenon, <1>1, <2>1, <2>2, <2>3, Writers
<1>2. Inv /\ [Next]_vars => [Closed]_vars
  BY Zenon, <1>1
<1> QED
  BY <1>2, Invariance, PTL DEF Spec, EndClosesAll

\* compute_hook_loss_rate: a subagent whose hook was heard, before or after the reaper, is counted
\* and not as lost, and only a sweep makes one lost.
THEOREM LossIsCounted == Spec => LossIsTrue
<1> DEFINE Heard == \A t \in Txn : Commit(t) /\ txn[t].by = "hook" => txn[t].locks \subseteq Counted' \ Lost'
           New == \A a \in Lost' \ Lost : \E t \in Reaper : Commit(t) /\ a \in txn[t].closing
<1>1. ASSUME Inv PROVE Heard
  <2> SUFFICES ASSUME NEW t \in Txn, Commit(t), txn[t].by = "hook", NEW a \in txn[t].locks
               PROVE  a \in Sub /\ closure'[a] # NoClosure /\ ~(closure'[a].by = "reaper" /\ ~closure'[a].late)
    BY Zenon DEF Counted, Lost
  <2>1. PICK r \in Record : r = txn[t]
    BY Zenon, <1>1 DEF Inv, TypeOK
  <2>2. Fits(t, r)
    BY Zenon, <1>1, <2>1 DEF Inv
  <2>3. a \in r.closing \cup r.late \/
          (a \in Sub /\ closure[a] # NoClosure /\ (closure[a].by = "reaper" => closure[a].late))
    BY <2>1, <2>2 DEF Fits, Knows
  <2>4. a \in Sub
    BY <2>3 DEF Record
  <2>5. CASE a \in r.closing /\ closure'[a] = [by |-> r.by, outcome |-> CloseOutcome(r), late |-> FALSE]
    BY <2>1, <2>4, <2>5 DEF NoClosure
  <2>6. CASE closure'[a] = [closure[a] EXCEPT !.late = TRUE]
    BY <1>1, <2>4, <2>6 DEF NoClosure, Inv, TypeOK
  <2>7. CASE a \notin r.closing \cup r.late /\ closure'[a] = closure[a]
    BY <2>3, <2>7
  <2> QED
    BY Zenon, <1>1, <2>1, <2>4, <2>5, <2>6, <2>7, ClosureStep
<1>2. ASSUME Inv, [Next]_vars PROVE New
  <2> SUFFICES ASSUME NEW a \in Lost' \ Lost PROVE \E t \in Reaper : Commit(t) /\ a \in txn[t].closing
    OBVIOUS
  <2>0. a \in Sub /\ closure'[a] # NoClosure /\ closure'[a].by = "reaper" /\ ~closure'[a].late /\ closure'[a] # closure[a]
    BY DEF Lost, Counted
  <2>1. PICK t \in Txn : Commit(t)
    BY Zenon, <1>2, <2>0, Writers DEF RegisterCommit
  <2>2. PICK r \in Record : r = txn[t]
    BY Zenon, <1>2 DEF Inv, TypeOK
  <2>3. CASE a \in r.closing /\ closure'[a] = [by |-> r.by, outcome |-> CloseOutcome(r), late |-> FALSE]
    <3>1. r.by = "reaper"
      BY <2>0, <2>3
    <3>2. t \in Reaper
      BY Zenon, <1>2, <2>2, <3>1 DEF Inv, Fits, Shape
    <3> QED
      BY Zenon, <2>1, <2>2, <2>3, <3>2
  <2>4. CASE closure'[a] = [closure[a] EXCEPT !.late = TRUE]
    BY <1>2, <2>0, <2>4 DEF Inv, TypeOK
  <2> QED
    BY Zenon, <1>2, <2>0, <2>1, <2>2, <2>3, <2>4, ClosureStep
<1>3. Inv /\ [Next]_vars => [Heard /\ New]_vars
  BY Zenon, <1>1, <1>2
<1> QED
  BY <1>3, Invariance, PTL DEF Spec, LossIsTrue

=============================================================================
