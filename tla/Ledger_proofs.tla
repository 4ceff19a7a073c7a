---------------------------- MODULE Ledger_proofs ----------------------------
(***************************************************************************)
(* The hash chain of the memory ledger never forks and never loses an      *)
(* entry, for any number of processes, items and entries.  The argument is *)
(* SQLite's: a snapshot that may still be committed extends what is        *)
(* committed, because whoever commits makes every other snapshot stale.    *)
(***************************************************************************)
EXTENDS Ledger, TLAPS

Connection == [open : BOOLEAN, snap : BOOLEAN, lock : BOOLEAN,
               stale : BOOLEAN, work : Db]
Progress == [pc : {"idle", "update", "append", "commit"}, to : MemoryState,
            batch : SUBSET Item, left : SUBSET Item, item : SUBSET Item]

\* log has the entries of old, in their places.
Extends(log, old) == /\ Len(log) >= Len(old)
                     /\ \A k \in 1..Len(old) : log[k] = old[k]

Inv == /\ TypeOK
       /\ VerifyLedger(db.log)
       /\ \A c \in Conn : conn[c].snap =>
             /\ VerifyLedger(conn[c].work.log)
             /\ ~conn[c].stale => Extends(conn[c].work.log, db.log)

-----------------------------------------------------------------------------
(* Logs *)

LEMMA ExtendsReflexive ==
  ASSUME NEW log \in Seq(Entry)
  PROVE  Extends(log, log)
  BY DEF Extends

LEMMA ExtendsAppend ==
  ASSUME NEW log \in Seq(Entry), NEW old \in Seq(Entry), NEW e \in Entry,
         Extends(log, old)
  PROVE  Extends(Append(log, e), old)
  BY DEF Extends

LEMMA DigestType ==
  ASSUME NEW prev \in Seq(Body), NEW body \in Body
  PROVE  Digest(prev, body) \in Seq(Body)
  BY DEF Digest

LEMMA ViewType ==
  ASSUME TypeOK, NEW c \in Conn
  PROVE  /\ View(c) \in Db /\ View(c).log \in Seq(Entry)
         /\ View(c).state \in [Item -> MemoryState]
         /\ conn[c] \in Connection /\ op[c] \in Progress
  BY DEF TypeOK, View, Db, Connection, Progress

\* An entry made by _ledger_append continues the chain it was made for.
LEMMA EntryContinues ==
  ASSUME TypeOK, NEW c \in Conn
  PROVE  /\ LedgerEntry(c) \in Entry
         /\ Appended(c) \in Db
         /\ Appended(c).log = Append(View(c).log, LedgerEntry(c))
         /\ VerifyLedger(View(c).log) => VerifyLedger(Appended(c).log)
<1> DEFINE log == View(c).log
           e == LedgerEntry(c)
           body == [items |-> op[c].item, to |-> op[c].to, batch |-> op[c].batch]
<1>1. log \in Seq(Entry) /\ View(c).state \in [Item -> MemoryState]
  BY ViewType
<1>2. body \in Body
  BY ViewType DEF Body, Progress
<1>3. LedgerHead(c) = IF log = <<>> THEN Genesis ELSE log[Len(log)].entry_hash
  BY DEF LedgerHead
<1>4. LedgerHead(c) \in Seq(Body)
  <2>1. CASE log = <<>>
    BY <1>3, <2>1 DEF Genesis
  <2>2. CASE log # <<>>
    <3>1. Len(log) \in 1..Len(log)
      BY <1>1, <2>2
    <3>2. log[Len(log)] \in Entry
      BY <1>1, <3>1
    <3> QED
      BY <1>3, <2>2, <3>2 DEF Entry
  <2> QED
    BY <2>1, <2>2
<1>5. e = [prev_hash |-> LedgerHead(c), entry_hash |-> Digest(LedgerHead(c), body),
           body |-> body]
  BY DEF LedgerEntry
<1>6. e \in Entry
  BY <1>2, <1>4, <1>5, DigestType DEF Entry
<1> HIDE DEF e, body
<1>7. Appended(c).log = Append(log, e) /\ Appended(c) \in Db
  BY <1>1, <1>6 DEF Appended, Db, e
<1>8. ASSUME VerifyLedger(log) PROVE VerifyLedger(Append(log, e))
  <2> SUFFICES ASSUME NEW k \in 1..Len(Append(log, e))
               PROVE  LET l == Append(log, e)
                      IN  /\ l[k].prev_hash = (IF k = 1 THEN Genesis ELSE l[k-1].entry_hash)
                          /\ l[k].entry_hash = Digest(l[k].prev_hash, l[k].body)
    BY DEF VerifyLedger
  <2>1. Len(Append(log, e)) = Len(log) + 1 /\ Len(log) \in Nat
    BY <1>1, <1>6
  <2>2. CASE k \in 1..Len(log)
    <3>1. Append(log, e)[k] = log[k]
      BY <1>1, <1>6, <2>2
    <3>2. k # 1 => Append(log, e)[k-1] = log[k-1]
      BY <1>1, <1>6, <2>1, <2>2
    <3> QED
      BY <1>8, <2>2, <3>1, <3>2 DEF VerifyLedger
  <2>3. CASE k = Len(log) + 1
    <3>1. Append(log, e)[k] = e
      BY <1>1, <1>6, <2>3
    <3>2. e.entry_hash = Digest(e.prev_hash, e.body) /\ e.prev_hash = LedgerHead(c)
      BY <1>5
    <3>3. CASE k = 1
      <4>1. log = <<>>
        BY <1>1, <2>1, <2>3, <3>3
      <4> QED
        BY <1>3, <3>1, <3>2, <3>3, <4>1
    <3>4. CASE k # 1
      <4>1. log # <<>> /\ Append(log, e)[k-1] = log[Len(log)]
        BY <1>1, <1>6, <2>1, <2>3, <3>4
      <4> QED
        BY <1>3, <3>1, <3>2, <3>4, <4>1
    <3> QED
      BY <3>3, <3>4
  <2> QED
    BY <2>1, <2>2, <2>3
<1> QED
  BY <1>6, <1>7, <1>8 DEF e
-----------------------------------------------------------------------------
(* Types *)

LEMMA ClosedType ==
  /\ EmptyDb \in Db /\ Closed \in Connection /\ Idle \in Progress
  /\ ~Closed.snap /\ ~Closed.lock /\ ~Closed.stale /\ ~Closed.open
  /\ Idle.pc = "idle" /\ Idle.left = {} /\ Idle.batch = {}
<1>1. EmptyDb \in Db
  BY DEF EmptyDb, Db, MemoryState
<1> QED
  BY <1>1 DEF Closed, Connection, Idle, Progress, MemoryState

\* The part of TypeOK about the connections, and the part about the methods.
Connections == /\ conn \in [Conn -> Connection]
               /\ \A c \in Conn :
                    /\ conn[c].snap => conn[c].open
                    /\ conn[c].lock => conn[c].snap /\ ~conn[c].stale
                    /\ conn[c].lock => \A d \in Conn \ {c} : ~conn[d].lock
Methods == /\ op \in [Conn -> Progress]
           /\ \A c \in Conn : /\ op[c].left \subseteq op[c].batch
                              /\ op[c].pc \in {"append", "commit"} => conn[c].lock

LEMMA TypeParts ==
  TypeOK <=> /\ db \in Db /\ Connections /\ Methods
             /\ unledgered \subseteq Item /\ faulted \subseteq Conn
  BY DEF TypeOK, Connections, Methods, Connection, Progress

LEMMA TypePartsNext ==
  TypeOK' <=> /\ db' \in Db /\ Connections' /\ Methods'
              /\ unledgered' \subseteq Item /\ faulted' \subseteq Conn
  BY DEF TypeOK, Connections, Methods, Connection, Progress

\* An executed write.
LEMMA HoldsTypes ==
  ASSUME TypeOK, NEW c \in Conn, NEW work \in Db, CanWrite(c), Holds(c, work)
  PROVE  /\ Connections'
         /\ conn'[c].snap /\ conn'[c].lock /\ conn'[c].work = work /\ ~conn'[c].stale
         /\ \A d \in Conn \ {c} : conn'[d] = conn[d]
<1> DEFINE held == [conn[c] EXCEPT !.open = TRUE, !.snap = TRUE, !.lock = TRUE,
                                   !.work = work]
<1>1. conn[c] \in Connection /\ conn \in [Conn -> Connection]
  BY TypeParts DEF Connections
<1>2. conn' = [conn EXCEPT ![c] = held]
  BY DEF Holds
<1>3. /\ held \in Connection /\ held.open /\ held.snap /\ held.lock /\ held.work = work
      /\ held.stale = conn[c].stale
  BY <1>1 DEF Connection
<1> HIDE DEF held
<1>4. conn' \in [Conn -> Connection] /\ conn'[c] = held
      /\ \A d \in Conn \ {c} : conn'[d] = conn[d]
  BY <1>1, <1>2, <1>3
<1>5. ~held.stale /\ \A d \in Conn \ {c} : ~conn[d].lock
  BY <1>3 DEF CanWrite
<1> QED
  BY <1>3, <1>4, <1>5, TypeParts DEF Connections

\* A commit.
LEMMA CommitsTypes ==
  ASSUME TypeOK, NEW c \in Conn, NEW work \in Db, Commits(c, work),
         \A d \in Conn \ {c} : ~conn[d].lock
  PROVE  /\ Connections' /\ db' = work
         /\ conn'[c] = Closed
         /\ \A d \in Conn \ {c} : /\ conn'[d].open = conn[d].open
                                  /\ conn'[d].snap = conn[d].snap
                                  /\ conn'[d].work = conn[d].work
                                  /\ conn'[d].stale = conn[d].snap
                                  /\ ~conn'[d].lock
<1>1. conn \in [Conn -> Connection]
  BY TypeParts DEF Connections
<1>2. conn' = [d \in Conn |-> IF d = c THEN Closed
                              ELSE [conn[d] EXCEPT !.stale = conn[d].snap]]
      /\ db' = work
  BY DEF Commits
<1>3. ASSUME NEW d \in Conn \ {c}
      PROVE  /\ conn'[d] \in Connection
             /\ conn'[d].open = conn[d].open /\ conn'[d].snap = conn[d].snap
             /\ conn'[d].work = conn[d].work /\ conn'[d].stale = conn[d].snap
             /\ conn'[d].lock = conn[d].lock
  <2>1. conn'[d] = [conn[d] EXCEPT !.stale = conn[d].snap] /\ conn[d] \in Connection
    BY <1>1, <1>2
  <2> QED
    BY <2>1 DEF Connection
<1>4. conn'[c] = Closed
  BY <1>2
<1>5. conn' \in [Conn -> Connection]
  BY <1>2, <1>3, <1>4, ClosedType
<1> QED
  BY <1>2, <1>3, <1>4, <1>5, ClosedType, TypeParts DEF Connections

\* A connection that is closed.
LEMMA ClosedTypes ==
  ASSUME TypeOK, NEW c \in Conn, conn' = [conn EXCEPT ![c] = Closed]
  PROVE  Connections' /\ conn'[c] = Closed /\ \A d \in Conn \ {c} : conn'[d] = conn[d]
  BY ClosedType, TypeParts DEF Connections

\* Nobody else holds a lock when c holds one.
LEMMA LockIsExclusive ==
  ASSUME TypeOK, NEW c \in Conn, conn[c].lock
  PROVE  CanWrite(c) /\ conn[c].snap /\ \A d \in Conn \ {c} : ~conn[d].lock
  BY TypeParts DEF Connections, CanWrite

\* Only c's method moves, and the others keep their locks.
LEMMA MethodMoves ==
  ASSUME TypeOK, NEW c \in Conn, NEW m \in Progress, op' = [op EXCEPT ![c] = m],
         m.left \subseteq m.batch,
         m.pc \in {"append", "commit"} => conn'[c].lock,
         \A d \in Conn \ {c} : conn[d].lock => conn'[d].lock
  PROVE  Methods'
  BY TypeParts DEF Methods

LEMMA MethodEnds ==
  ASSUME TypeOK, NEW c \in Conn, op' = [op EXCEPT ![c] = Idle],
         \A d \in Conn \ {c} : conn[d].lock => conn'[d].lock
  PROVE  Methods'
  BY ClosedType, MethodMoves

\* Writing a row keeps the log.
LEMMA UpdateType ==
  ASSUME TypeOK, NEW c \in Conn, NEW i \in Item
  PROVE  LET work == [View(c) EXCEPT !.state[i] = op[c].to]
         IN  work \in Db /\ work.log = View(c).log
<1>1. View(c) \in Db /\ op[c].to \in MemoryState
  BY ViewType DEF Progress
<1> QED
  BY <1>1 DEF Db

\* Every action keeps the types and says who may hold the lock.
LEMMA TypeStep == TypeOK /\ [Next]_vars => TypeOK'
<1> SUFFICES ASSUME TypeOK, [Next]_vars
             PROVE  TypeOK'
  OBVIOUS
<1> USE DEF Connections
<1>1. ASSUME NEW c \in Conn, NEW S \in SUBSET Item, NEW to \in MemoryState,
             Start(c, S, to)
      PROVE  TypeOK'
  <2> DEFINE m == [pc |-> "update", to |-> to, batch |-> S, left |-> S, item |-> {}]
  <2>1. m \in Progress /\ m.left \subseteq m.batch /\ m.pc = "update"
    BY DEF Progress
  <2>2. Methods'
    BY <1>1, <2>1, MethodMoves DEF Start
  <2> QED
    BY <1>1, <2>2, TypeParts, TypePartsNext DEF Start
<1>2. ASSUME NEW c \in Conn, NEW i \in Item, Update(c, i)
      PROVE  TypeOK'
  <2> DEFINE m == [op[c] EXCEPT !.pc = "append", !.item = {i}, !.left = op[c].left \ {i}]
             work == [View(c) EXCEPT !.state[i] = op[c].to]
  <2>1. m \in Progress /\ m.left \subseteq m.batch
    <3>1. op[c] \in Progress /\ op[c].left \subseteq op[c].batch
      BY ViewType, TypeParts DEF Methods
    <3> QED
      BY <3>1 DEF Progress
  <2>2. work \in Db /\ CanWrite(c) /\ Holds(c, work)
    BY <1>2, UpdateType DEF Update
  <2>3. /\ Connections' /\ conn'[c].lock
        /\ \A d \in Conn \ {c} : conn'[d] = conn[d]
    BY <2>2, HoldsTypes
  <2>4. Methods'
    BY <1>2, <2>1, <2>3, MethodMoves DEF Update
  <2> QED
    BY <1>2, <2>3, <2>4, TypeParts, TypePartsNext DEF Update
<1>3. ASSUME NEW c \in Conn, Busy(c)
      PROVE  TypeOK'
  <2>1. Connections' /\ \A d \in Conn : conn[d].lock => conn'[d].lock
    <3>1. conn \in [Conn -> Connection]
      BY TypeParts
    <3>2. conn'[c] = [conn[c] EXCEPT !.open = TRUE] /\ conn'[c] \in Connection
          /\ conn' \in [Conn -> Connection]
          /\ \A d \in Conn \ {c} : conn'[d] = conn[d]
      BY <1>3, <3>1 DEF Busy, Connection
    <3>3. /\ conn'[c].open /\ conn'[c].snap = conn[c].snap
          /\ conn'[c].lock = conn[c].lock /\ conn'[c].stale = conn[c].stale
      BY <3>1, <3>2 DEF Connection
    <3> QED
      BY <3>2, <3>3, TypeParts
  <2>2. Methods'
    BY <1>3, <2>1, MethodEnds DEF Busy
  <2> QED
    BY <1>3, <2>1, <2>2, TypeParts, TypePartsNext DEF Busy
<1>4. ASSUME NEW c \in Conn, LedgerAppend(c)
      PROVE  TypeOK'
  <2> DEFINE m == [op[c] EXCEPT !.pc = IF op[c].left = {} THEN "commit" ELSE "update"]
  <2>1. m \in Progress /\ m.left \subseteq m.batch
    BY ViewType, TypeParts DEF Progress, Methods
  <2>2. conn[c].lock
    BY <1>4, TypeParts DEF LedgerAppend, Methods
  <2>3. /\ Connections' /\ conn'[c].lock
        /\ \A d \in Conn \ {c} : conn'[d] = conn[d]
    BY <1>4, <2>2, LockIsExclusive, EntryContinues, HoldsTypes DEF LedgerAppend
  <2>4. op' = [op EXCEPT ![c] = m]
    BY <1>4 DEF LedgerAppend
  <2>5. Methods'
    BY <2>1, <2>3, <2>4, MethodMoves
  <2> QED
    BY <1>4, <2>3, <2>5, TypeParts, TypePartsNext DEF LedgerAppend
<1>5. ASSUME NEW c \in Conn, LedgerAppendRaises(c)
      PROVE  TypeOK'
  <2>1. op[c].item \subseteq Item
    BY ViewType DEF Progress
  <2>2. Methods'
    BY <1>5, MethodEnds DEF LedgerAppendRaises
  <2> QED
    BY <1>5, <2>1, <2>2, TypeParts, TypePartsNext DEF LedgerAppendRaises
<1>6. ASSUME NEW c \in Conn, Commit(c)
      PROVE  TypeOK'
  <2>1. conn[c].lock
    BY <1>6, TypeParts DEF Commit, Methods
  <2>2. /\ Connections' /\ db' = View(c)
        /\ \A d \in Conn \ {c} : ~conn[d].lock
    BY <1>6, <2>1, LockIsExclusive, ViewType, CommitsTypes DEF Commit
  <2>3. Methods'
    BY <1>6, <2>2, MethodEnds DEF Commit
  <2> QED
    BY <1>6, <2>2, <2>3, ViewType, TypeParts, TypePartsNext DEF Commit
<1>7. ASSUME NEW c \in Conn, Note(c)
      PROVE  TypeOK'
  <2>1. Connections' /\ db' = View(c) /\ \A d \in Conn \ {c} : ~conn[d].lock
    BY <1>7, ViewType, CommitsTypes DEF Note, CanWrite
  <2>2. Methods'
    BY <1>7, <2>1, TypeParts DEF Note, Methods, Idle
  <2> QED
    BY <1>7, <2>1, <2>2, ViewType, TypeParts, TypePartsNext DEF Note
<1>8. ASSUME NEW c \in Conn, RevokeNothing(c)
      PROVE  TypeOK'
  <2>1. Connections' /\ db' \in Db /\ \A d \in Conn \ {c} : conn[d].lock => conn'[d].lock
    <3>1. CASE conn[c].lock
      <4>1. Commits(c, conn[c].work) /\ conn[c].work \in Db
        BY <1>8, <3>1, ViewType DEF RevokeNothing, Connection
      <4> QED
        BY <3>1, <4>1, LockIsExclusive, CommitsTypes
    <3>2. CASE ~conn[c].lock
      BY <1>8, <3>2, ClosedTypes, TypeParts DEF RevokeNothing
    <3> QED
      BY <3>1, <3>2
  <2>2. Methods'
    BY <1>8, <2>1, TypeParts DEF RevokeNothing, Methods, Idle
  <2> QED
    BY <1>8, <2>1, <2>2, TypeParts, TypePartsNext DEF RevokeNothing
<1>9. ASSUME NEW c \in Conn, Score(c)
      PROVE  TypeOK'
  <2>1. Connections' /\ \A d \in Conn \ {c} : conn'[d] = conn[d]
    BY <1>9, ViewType, HoldsTypes DEF Score
  <2>2. Methods'
    BY <1>9, <2>1, TypeParts DEF Score, Methods, Idle
  <2> QED
    BY <1>9, <2>1, <2>2, TypeParts, TypePartsNext DEF Score
<1>10. ASSUME NEW c \in Conn, Select(c)
       PROVE  TypeOK'
  <2> DEFINE seen == [conn[c] EXCEPT !.snap = TRUE, !.work = db]
  <2>1. conn[c] \in Connection /\ db \in Db /\ conn \in [Conn -> Connection]
    BY TypeParts
  <2>2. /\ seen \in Connection /\ seen.open /\ seen.lock = conn[c].lock
        /\ seen.stale = conn[c].stale /\ seen.snap
    BY <1>10, <2>1 DEF Connection, Select
  <2>3. conn' = [conn EXCEPT ![c] = seen]
    BY <1>10 DEF Select
  <2> HIDE DEF seen
  <2>4. /\ conn' \in [Conn -> Connection] /\ conn'[c] = seen
        /\ \A d \in Conn \ {c} : conn'[d] = conn[d]
    BY <2>1, <2>2, <2>3
  <2>5. Connections' /\ \A d \in Conn : conn'[d].lock = conn[d].lock
    BY <2>2, <2>4, TypeParts
  <2>6. Methods'
    BY <1>10, <2>5, TypeParts DEF Select, Methods
  <2> QED
    BY <1>10, <2>5, <2>6, TypeParts, TypePartsNext DEF Select
<1>11. ASSUME NEW c \in Conn, Close(c)
       PROVE  TypeOK'
  <2>1. Connections' /\ \A d \in Conn \ {c} : conn'[d] = conn[d]
    BY <1>11, ClosedTypes DEF Close
  <2>2. Methods'
    BY <1>11, <2>1, MethodEnds DEF Close
  <2> QED
    BY <1>11, <2>1, <2>2, TypeParts, TypePartsNext DEF Close
<1>12. CASE UNCHANGED vars
  BY <1>12, TypeParts, TypePartsNext DEF vars, Methods
<1> QED
  BY <1>1, <1>2, <1>3, <1>4, <1>5, <1>6, <1>7, <1>8, <1>9, <1>10, <1>11, <1>12
  DEF Next, Method

LEMMA TypeInit == Init => TypeOK
<1> SUFFICES ASSUME Init PROVE TypeOK
  OBVIOUS
<1>1. Connections /\ Methods /\ db \in Db
  BY ClosedType DEF Init, Connections, Methods
<1> QED
  BY <1>1, TypeParts DEF Init

\* Every connection stays in a possible state: the write lock is one, its
\* holder's snapshot is current, and no method appends or commits without it.
THEOREM TypeCorrect == Spec => []TypeOK
<1> QED
  BY TypeInit, TypeStep, PTL DEF Spec
-----------------------------------------------------------------------------
(* The chain *)

\* What c sees verifies, and extends what is committed while it is not stale.
LEMMA ViewChain ==
  ASSUME Inv, NEW c \in Conn
  PROVE  /\ VerifyLedger(View(c).log)
         /\ ~conn[c].stale => Extends(View(c).log, db.log)
<1>1. db.log \in Seq(Entry)
  BY TypeParts DEF Inv, Db
<1> QED
  BY <1>1, ExtendsReflexive DEF Inv, View

\* c has written and sees a log that still verifies and extends what is committed.
LEMMA HoldsChain ==
  ASSUME Inv, NEW c \in Conn, NEW work \in Db, CanWrite(c), Holds(c, work), db' = db,
         VerifyLedger(work.log), Extends(work.log, db.log), TypeOK'
  PROVE  Inv' /\ Extends(db'.log, db.log)
<1>1. TypeOK
  BY DEF Inv
<1>2. /\ conn'[c].work = work
      /\ \A d \in Conn \ {c} : conn'[d] = conn[d]
  BY <1>1, HoldsTypes
<1>3. VerifyLedger(db'.log) /\ Extends(db'.log, db.log)
  BY ViewType, ExtendsReflexive, TypeParts DEF Inv, Db
<1>4. ASSUME NEW d \in Conn, conn'[d].snap
      PROVE  /\ VerifyLedger(conn'[d].work.log)
             /\ ~conn'[d].stale => Extends(conn'[d].work.log, db'.log)
  BY <1>2, <1>4 DEF Inv
<1> QED
  BY <1>3, <1>4 DEF Inv

\* c commits what it sees, and makes every other snapshot stale.
LEMMA CommitsChain ==
  ASSUME Inv, NEW c \in Conn, NEW work \in Db, Commits(c, work),
         VerifyLedger(work.log), Extends(work.log, db.log), TypeOK',
         \A d \in Conn \ {c} : ~conn[d].lock
  PROVE  Inv' /\ Extends(db'.log, db.log)
<1>1. TypeOK
  BY DEF Inv
<1>2. /\ db' = work /\ ~conn'[c].snap
      /\ \A d \in Conn \ {c} : /\ conn'[d].snap = conn[d].snap
                               /\ conn'[d].work = conn[d].work
                               /\ conn'[d].stale = conn[d].snap
  BY <1>1, CommitsTypes, ClosedType
<1>3. ASSUME NEW d \in Conn, conn'[d].snap
      PROVE  /\ VerifyLedger(conn'[d].work.log)
             /\ ~conn'[d].stale => Extends(conn'[d].work.log, db'.log)
  BY <1>2, <1>3 DEF Inv
<1> QED
  BY <1>2, <1>3 DEF Inv

\* Every action: the chain still verifies, and what is committed has grown at
\* its end or not at all.
LEMMA ChainStep == Inv /\ [Next]_vars => Inv' /\ Extends(db'.log, db.log)
<1> SUFFICES ASSUME Inv, [Next]_vars
             PROVE  Inv' /\ Extends(db'.log, db.log)
  OBVIOUS
<1> USE TypeStep
<1>1. TypeOK /\ TypeOK'
  BY DEF Inv
<1>2. db.log \in Seq(Entry) /\ Extends(db.log, db.log)
  BY <1>1, TypeParts, ExtendsReflexive DEF Db
<1>3. ASSUME UNCHANGED <<db, conn>>
      PROVE  Inv' /\ Extends(db'.log, db.log)
  BY <1>1, <1>2, <1>3 DEF Inv
<1>4. ASSUME NEW c \in Conn, NEW i \in Item, Update(c, i)
      PROVE  Inv' /\ Extends(db'.log, db.log)
  <2> DEFINE work == [View(c) EXCEPT !.state[i] = op[c].to]
  <2>1. work \in Db /\ work.log = View(c).log
    BY <1>1, UpdateType
  <2>2. CanWrite(c) /\ Holds(c, work) /\ db' = db /\ ~conn[c].stale
    BY <1>4 DEF Update, CanWrite
  <2> HIDE DEF work
  <2> QED
    BY <1>1, <2>1, <2>2, ViewChain, HoldsChain
<1>5. ASSUME NEW c \in Conn, Busy(c)
      PROVE  Inv' /\ Extends(db'.log, db.log)
  <2>1. conn \in [Conn -> Connection]
    BY <1>1, TypeParts DEF Connections
  <2>2. db' = db /\ \A d \in Conn : /\ conn'[d].snap = conn[d].snap
                                    /\ conn'[d].work = conn[d].work
                                    /\ conn'[d].stale = conn[d].stale
    BY <1>5, <2>1 DEF Busy, Connection
  <2> QED
    BY <1>1, <1>2, <2>2 DEF Inv
<1>6. ASSUME NEW c \in Conn, LedgerAppend(c)
      PROVE  Inv' /\ Extends(db'.log, db.log)
  <2>1. conn[c].lock
    BY <1>1, <1>6, TypeParts DEF LedgerAppend, Methods
  <2>2. CanWrite(c) /\ ~conn[c].stale /\ Holds(c, Appended(c)) /\ db' = db
    BY <1>1, <1>6, <2>1, LockIsExclusive DEF LedgerAppend, CanWrite
  <2>3. VerifyLedger(View(c).log) /\ Extends(View(c).log, db.log)
    BY <2>2, ViewChain
  <2>4. /\ Appended(c) \in Db /\ LedgerEntry(c) \in Entry
        /\ Appended(c).log = Append(View(c).log, LedgerEntry(c))
        /\ VerifyLedger(Appended(c).log)
    BY <1>1, <2>3, EntryContinues
  <2>5. Extends(Appended(c).log, db.log)
    BY <1>1, <1>2, <2>3, <2>4, ViewType, ExtendsAppend
  <2> QED
    BY <1>1, <2>2, <2>4, <2>5, HoldsChain
<1>7. ASSUME NEW c \in Conn, CanWrite(c), Commits(c, View(c))
      PROVE  Inv' /\ Extends(db'.log, db.log)
  BY <1>1, <1>7, ViewType, ViewChain, CommitsChain DEF CanWrite
<1>8. ASSUME NEW c \in Conn, conn' = [conn EXCEPT ![c] = Closed], db' = db
      PROVE  Inv' /\ Extends(db'.log, db.log)
  BY <1>1, <1>2, <1>8, ClosedTypes, ClosedType DEF Inv
<1>9. ASSUME NEW c \in Conn, Commit(c)
      PROVE  Inv' /\ Extends(db'.log, db.log)
  <2>1. conn[c].lock
    BY <1>1, <1>9, TypeParts DEF Commit, Methods
  <2> QED
    BY <1>1, <1>7, <1>9, <2>1, LockIsExclusive DEF Commit
<1>10. ASSUME NEW c \in Conn, RevokeNothing(c)
       PROVE  Inv' /\ Extends(db'.log, db.log)
  <2>1. CASE conn[c].lock
    BY <1>1, <1>7, <1>10, <2>1, LockIsExclusive DEF RevokeNothing, View
  <2>2. CASE ~conn[c].lock
    BY <1>8, <1>10, <2>2 DEF RevokeNothing
  <2> QED
    BY <2>1, <2>2
<1>11. ASSUME NEW c \in Conn, Score(c)
       PROVE  Inv' /\ Extends(db'.log, db.log)
  BY <1>1, <1>11, ViewType, ViewChain, HoldsChain DEF Score, CanWrite
<1>12. ASSUME NEW c \in Conn, Select(c)
       PROVE  Inv' /\ Extends(db'.log, db.log)
  <2>1. conn \in [Conn -> Connection]
    BY <1>1, TypeParts DEF Connections
  <2>2. /\ db' = db /\ conn'[c].work = db
        /\ \A d \in Conn \ {c} : conn'[d] = conn[d]
    BY <1>12, <2>1 DEF Select, Connection
  <2> QED
    BY <1>1, <1>2, <2>2 DEF Inv
<1>13. ASSUME NEW c \in Conn, Method(c)
       PROVE  Inv' /\ Extends(db'.log, db.log)
  BY <1>3, <1>4, <1>5, <1>6, <1>9, <1>13 DEF Method, Start, LedgerAppendRaises
<1> QED
  BY <1>3, <1>7, <1>8, <1>10, <1>11, <1>12, <1>13 DEF Next, vars, Note, Close

LEMMA ChainInit == Init => Inv
<1> SUFFICES ASSUME Init PROVE Inv
  OBVIOUS
<1>1. db.log = <<>> /\ \A c \in Conn : ~conn[c].snap
  BY ClosedType DEF Init, EmptyDb
<1> QED
  BY <1>1, TypeInit DEF Inv, VerifyLedger

LEMMA InvAlways == Spec => []Inv
  BY ChainInit, ChainStep, PTL DEF Spec

\* The hash chain never forks: however the store methods of any number of
\* processes interleave, fail or die between reading the head of the ledger and
\* appending to it, what is committed verifies, and so does what each sees.
THEOREM ChainHolds == Spec => []ChainVerifies
<1>1. Inv => ChainVerifies
  BY ViewChain DEF Inv, ChainVerifies
<1> QED
  BY <1>1, InvAlways, PTL

\* What is committed to the ledger stays, in its place: no commit of any
\* process drops or rewrites an entry.
THEOREM LedgerOnlyGrows == Spec => AppendOnly
<1>1. Inv /\ [Next]_vars => [/\ Len(db'.log) >= Len(db.log)
                            /\ \A k \in 1..Len(db.log) : db'.log[k] = db.log[k]]_vars
  BY ChainStep DEF Extends
<1> QED
  BY <1>1, InvAlways, PTL DEF Spec, AppendOnly
-----------------------------------------------------------------------------
(* Table and ledger.  What a transaction in flight may still disagree on is *)
(* said of one connection's state and method at a time.                     *)

About(log, i) == {k \in 1..Len(log) : i \in log[k].body.items}

\* The last entry about i, if there is one, gives it state s.
LedgeredAs(log, i, s) ==
    \/ About(log, i) = {} /\ s = "active"
    \/ \E k \in About(log, i) : /\ \A m \in About(log, i) : m <= k
                                /\ log[k].body.to = s

\* Table and ledger of d agree on every item but those exempt.
Agrees(d, exempt) == \A i \in Item \ exempt : LedgeredAs(d.log, i, d.state[i])

\* The item a method has updated and not yet appended; what it has still to
\* append; and what it owes the ledger, once it has appended something.
InFlight(m) == IF m.pc = "append" THEN m.item ELSE {}
Outstanding(m) == m.left \union InFlight(m)
Owed(m) == IF Outstanding(m) = m.batch THEN {} ELSE Outstanding(m)

Entered(log, batch, i) ==
    \E m \in 1..Len(log) : i \in log[m].body.items /\ log[m].body.batch = batch

\* Of a batch no append of which raised, log has all items or none, but for
\* what the method of this batch owes.
Whole(log, raised, batch, owed) ==
    \A k \in 1..Len(log) : log[k].body.batch \cap raised = {} =>
        \A i \in log[k].body.batch : \/ Entered(log, log[k].body.batch, i)
                                     \/ log[k].body.batch = batch /\ i \in owed

\* A connection cn in method m: what it sees agrees and is whole up to what m is
\* about; and m has ledgered what it has updated, under the write lock.
Consistent(cn, m, raised) ==
    /\ cn.snap => /\ Agrees(cn.work, raised \union InFlight(m))
                  /\ Whole(cn.work.log, raised, m.batch, Owed(m))
    /\ cn.lock => \A i \in m.batch \ Outstanding(m) : Entered(cn.work.log, m.batch, i)
    /\ ~cn.lock => m.left = m.batch /\ m.pc \in {"idle", "update"}
    /\ m.pc = "idle" => m.batch = {} /\ m.left = {}
    /\ m.pc = "append" => /\ m.item # {} /\ m.item \subseteq m.batch
                          /\ m.item \cap m.left = {}
                          /\ \A i \in m.item : cn.work.state[i] = m.to
    /\ m.pc = "commit" => m.left = {}

\* No method has left c in a transaction, or an error or update_trust_score has.
Settled(c) == c \in faulted \/ op[c].pc # "idle" \/ ~conn[c].open

TableInv == /\ TypeOK
            /\ Agrees(db, unledgered)
            /\ Whole(db.log, unledgered, {}, {})
            /\ \A c \in Conn : Consistent(conn[c], op[c], unledgered) /\ Settled(c)

LEMMA AgreesMore ==
  ASSUME NEW d \in Db, NEW X, NEW Y, Agrees(d, X), X \subseteq Y
  PROVE  Agrees(d, Y)
  BY DEF Agrees

LEMMA AgreesUpdate ==
  ASSUME NEW d \in Db, NEW X, NEW i \in Item, NEW s \in MemoryState, Agrees(d, X)
  PROVE  Agrees([d EXCEPT !.state[i] = s], X \union {i})
<1> DEFINE w == [d EXCEPT !.state[i] = s]
<1>1. w.log = d.log /\ \A j \in Item \ {i} : w.state[j] = d.state[j]
  BY DEF Db
<1> QED
  BY <1>1 DEF Agrees

\* What an entry appended to log says of its items, and of the others.
LEMMA AboutAppended ==
  ASSUME NEW log \in Seq(Entry), NEW e \in Entry, NEW i, i \in e.body.items
  PROVE  /\ Len(log) + 1 \in About(Append(log, e), i)
         /\ \A m \in About(Append(log, e), i) : m <= Len(log) + 1
         /\ Append(log, e)[Len(log) + 1] = e
  BY DEF About

LEMMA AboutOthers ==
  ASSUME NEW log \in Seq(Entry), NEW e \in Entry, NEW i, i \notin e.body.items
  PROVE  /\ About(Append(log, e), i) = About(log, i)
         /\ \A k \in About(log, i) : Append(log, e)[k] = log[k]
<1>1. /\ Len(Append(log, e)) = Len(log) + 1 /\ Len(log) \in Nat
      /\ Append(log, e)[Len(log) + 1] = e
      /\ \A k \in 1..Len(log) : Append(log, e)[k] = log[k]
  OBVIOUS
<1> QED
  BY <1>1 DEF About

\* Appending an entry for updated items puts table and ledger in agreement on them.
LEMMA AgreesAppend ==
  ASSUME NEW d \in Db, NEW e \in Entry, NEW X, Agrees(d, X \union e.body.items),
         \A i \in e.body.items : d.state[i] = e.body.to
  PROVE  Agrees([state |-> d.state, log |-> Append(d.log, e)], X)
<1>1. d.log \in Seq(Entry)
  BY DEF Db
<1>2. ASSUME NEW i \in Item \ X
      PROVE  LedgeredAs(Append(d.log, e), i, d.state[i])
  <2>1. CASE i \in e.body.items
    BY <1>1, <2>1, AboutAppended DEF LedgeredAs
  <2>2. CASE i \notin e.body.items
    <3>1. LedgeredAs(d.log, i, d.state[i])
      BY <1>2, <2>2 DEF Agrees
    <3>2. /\ About(Append(d.log, e), i) = About(d.log, i)
          /\ \A k \in About(d.log, i) : Append(d.log, e)[k] = d.log[k]
      BY <1>1, <2>2, AboutOthers
    <3> QED
      BY <3>1, <3>2 DEF LedgeredAs
  <2> QED
    BY <2>1, <2>2
<1> QED
  BY <1>2 DEF Agrees

LEMMA WholeMore ==
  ASSUME NEW log \in Seq(Entry), NEW U, NEW V, NEW B, NEW P, NEW C, NEW Q,
         Whole(log, U, B, P), U \subseteq V, P = {} \/ (B = C /\ P \subseteq Q)
  PROVE  Whole(log, V, C, Q)
  BY DEF Whole

\* A batch one of whose appends raised owes nothing any more.
LEMMA WholeRaised ==
  ASSUME NEW log \in Seq(Entry), NEW U, NEW V, NEW B, NEW P, NEW C, NEW Q,
         Whole(log, U, B, P), U \subseteq V, B \cap V # {}
  PROVE  Whole(log, V, C, Q)
  BY DEF Whole

LEMMA EnteredAppend ==
  ASSUME NEW log \in Seq(Entry), NEW e \in Entry, NEW B, NEW i
  PROVE  /\ Entered(log, B, i) => Entered(Append(log, e), B, i)
         /\ i \in e.body.items /\ e.body.batch = B => Entered(Append(log, e), B, i)
<1>1. /\ Len(Append(log, e)) = Len(log) + 1 /\ Len(log) \in Nat
      /\ Append(log, e)[Len(log) + 1] = e
      /\ \A k \in 1..Len(log) : Append(log, e)[k] = log[k]
  OBVIOUS
<1> QED
  BY <1>1 DEF Entered

\* An entry pays its items' part of what the batch owes.
LEMMA WholeAppend ==
  ASSUME NEW log \in Seq(Entry), NEW e \in Entry, NEW U, NEW P, NEW Q,
         Whole(log, U, e.body.batch, P), P \subseteq Q \union e.body.items,
         \A i \in e.body.batch \ Q :
             i \in e.body.items \/ Entered(log, e.body.batch, i)
  PROVE  Whole(Append(log, e), U, e.body.batch, Q)
<1> DEFINE l == Append(log, e)
<1>1. /\ Len(l) = Len(log) + 1 /\ Len(log) \in Nat
      /\ l[Len(log) + 1] = e
      /\ \A k \in 1..Len(log) : l[k] = log[k]
  OBVIOUS
<1> HIDE DEF l
<1>2. \A B, i : /\ Entered(log, B, i) => Entered(l, B, i)
                /\ i \in e.body.items /\ e.body.batch = B => Entered(l, B, i)
  BY EnteredAppend DEF l
<1>3. ASSUME NEW k \in 1..Len(l), l[k].body.batch \cap U = {}, NEW i \in l[k].body.batch
      PROVE  \/ Entered(l, l[k].body.batch, i)
             \/ l[k].body.batch = e.body.batch /\ i \in Q
  <2>1. CASE k \in 1..Len(log)
    BY <1>1, <1>2, <1>3, <2>1 DEF Whole
  <2>2. CASE k = Len(log) + 1
    BY <1>1, <1>2, <1>3, <2>2
  <2> QED
    BY <1>1, <2>1, <2>2
<1>4. Whole(l, U, e.body.batch, Q)
  BY <1>3 DEF Whole
<1> QED
  BY <1>4 DEF l
-----------------------------------------------------------------------------
(* One step *)

\* What c sees is consistent with its method, whether or not it has a snapshot.
LEMMA ViewConsistent ==
  ASSUME TableInv, NEW c \in Conn
  PROVE  /\ Agrees(View(c), unledgered \union InFlight(op[c]))
         /\ Whole(View(c).log, unledgered, op[c].batch, Owed(op[c]))
         /\ Consistent(conn[c], op[c], unledgered)
         /\ conn[c].lock => conn[c].snap
<1>1. Consistent(conn[c], op[c], unledgered) /\ conn[c].lock => conn[c].snap
  BY TypeParts DEF TableInv, Connections
<1>2. CASE conn[c].snap
  BY <1>1, <1>2, TypeParts DEF TableInv, Consistent, View, Connections
<1>3. CASE ~conn[c].snap
  <2>1. View(c) = db /\ db \in Db /\ db.log \in Seq(Entry)
    BY <1>3, TypeParts DEF TableInv, View, Db
  <2>2. Agrees(db, unledgered \union InFlight(op[c]))
    BY <2>1, AgreesMore DEF TableInv
  <2>3. Whole(db.log, unledgered, op[c].batch, Owed(op[c]))
    BY <2>1, WholeMore DEF TableInv
  <2> QED
    BY <1>1, <2>1, <2>2, <2>3, TypeParts DEF TableInv, Connections
<1> QED
  BY <1>2, <1>3

\* A connection that keeps its snapshot and lock stays consistent while more
\* appends raise elsewhere.
LEMMA ConsistentMore ==
  ASSUME NEW cn \in Connection, NEW cm \in Connection, NEW m, NEW U, NEW V,
         Consistent(cn, m, U), U \subseteq V,
         cm.snap = cn.snap, cm.lock = cn.lock, cm.work = cn.work
  PROVE  Consistent(cm, m, V)
<1>1. ASSUME cn.snap
      PROVE  /\ Agrees(cn.work, V \union InFlight(m))
             /\ Whole(cn.work.log, V, m.batch, Owed(m))
  <2>1. cn.work \in Db /\ cn.work.log \in Seq(Entry)
    BY DEF Connection, Db
  <2>2. /\ Agrees(cn.work, U \union InFlight(m))
        /\ Whole(cn.work.log, U, m.batch, Owed(m))
    BY <1>1 DEF Consistent
  <2>3. Agrees(cn.work, V \union InFlight(m))
    BY <2>1, <2>2, AgreesMore
  <2>4. Whole(cn.work.log, V, m.batch, Owed(m))
    BY <2>1, <2>2, WholeMore
  <2> QED
    BY <2>3, <2>4
<1> QED
  BY <1>1 DEF Consistent

\* A step of c keeps the invariant when it keeps c's part and what is committed.
LEMMA StepOf ==
  ASSUME TableInv, TypeOK', NEW c \in Conn,
         \A d \in Conn \ {c} : /\ op'[d] = op[d]
                               /\ conn'[d].open = conn[d].open
                               /\ conn'[d].snap = conn[d].snap
                               /\ conn'[d].lock = conn[d].lock
                               /\ conn'[d].work = conn[d].work,
         unledgered \subseteq unledgered', faulted \ {c} \subseteq faulted',
         db' = db \/ (Agrees(db', unledgered') /\ Whole(db'.log, unledgered', {}, {})),
         Consistent(conn'[c], op'[c], unledgered'), Settled(c)'
  PROVE  TableInv'
<1>1. /\ conn \in [Conn -> Connection] /\ conn' \in [Conn -> Connection]
      /\ db \in Db /\ db.log \in Seq(Entry)
  BY TypeParts, TypePartsNext DEF TableInv, Connections, Db
<1>2. Agrees(db', unledgered') /\ Whole(db'.log, unledgered', {}, {})
  <2>1. CASE db' = db
    <3>1. Agrees(db, unledgered')
      BY <1>1, AgreesMore DEF TableInv
    <3>2. Whole(db.log, unledgered', {}, {})
      BY <1>1, WholeMore DEF TableInv
    <3> QED
      BY <2>1, <3>1, <3>2
  <2> QED
    BY <2>1
<1>3. ASSUME NEW d \in Conn \ {c}
      PROVE  Consistent(conn'[d], op'[d], unledgered') /\ Settled(d)'
  <2>1. Consistent(conn[d], op[d], unledgered) /\ Settled(d)
    BY DEF TableInv
  <2>2. Consistent(conn'[d], op[d], unledgered')
    BY <1>1, <2>1, ConsistentMore
  <2> QED
    BY <2>1, <2>2 DEF Settled
<1> QED
  BY <1>2, <1>3 DEF TableInv

\* A closed connection between methods is consistent.
LEMMA ClosedConsistent ==
  ASSUME NEW m, NEW U, m = Idle
  PROVE  Consistent(Closed, m, U)
  BY ClosedType DEF Consistent

\* Between methods nothing is in flight or owed.
LEMMA IdleOwesNothing ==
  /\ InFlight(Idle) = {} /\ Owed(Idle) = {} /\ Outstanding(Idle) = {}
  /\ Idle.pc = "idle" /\ Idle.batch = {} /\ Idle.left = {}
  BY DEF Idle, InFlight, Owed, Outstanding

\* Between methods, what c sees may be committed.
LEMMA IdleView ==
  ASSUME TableInv, NEW c \in Conn, op[c].pc \in {"idle", "commit"}
  PROVE  Agrees(View(c), unledgered) /\ Whole(View(c).log, unledgered, {}, {})
<1>1. InFlight(op[c]) = {} /\ Owed(op[c]) = {}
  <2>1. op[c].left = {}
    BY ViewConsistent DEF Consistent
  <2> QED
    BY <2>1 DEF InFlight, Owed, Outstanding
<1>2. View(c).log \in Seq(Entry)
  BY ViewType DEF TableInv
<1>3. Agrees(View(c), unledgered)
  BY <1>1, ViewConsistent
<1>4. Whole(View(c).log, unledgered, op[c].batch, {})
  BY <1>1, ViewConsistent
<1> QED
  BY <1>2, <1>3, <1>4, WholeMore

\* Every action keeps table and ledger in agreement.
LEMMA TableStep == TableInv /\ [Next]_vars => TableInv'
<1> SUFFICES ASSUME TableInv, [Next]_vars
             PROVE  TableInv'
  OBVIOUS
<1>1. TypeOK /\ TypeOK' /\ Connections /\ Methods /\ db \in Db
  BY TypeStep, TypeParts DEF TableInv
<1>2. /\ conn \in [Conn -> Connection] /\ op \in [Conn -> Progress]
      /\ db.log \in Seq(Entry)
  BY <1>1 DEF Connections, Methods, Db
<1>3. ASSUME NEW c \in Conn, NEW S \in SUBSET Item, NEW to \in MemoryState,
             Start(c, S, to)
      PROVE  TableInv'
  <2> DEFINE m == [pc |-> "update", to |-> to, batch |-> S, left |-> S, item |-> {}]
  <2>1. /\ op[c] = Idle /\ op'[c] = m /\ \A d \in Conn \ {c} : op'[d] = op[d]
        /\ UNCHANGED <<db, conn, unledgered, faulted>>
    BY <1>2, <1>3 DEF Start
  <2>2. InFlight(m) = {} /\ Owed(m) = {} /\ m.batch = S /\ m.left = S /\ m.pc = "update"
        /\ Outstanding(m) = S
    BY DEF InFlight, Owed, Outstanding
  <2> HIDE DEF m
  <2>3. Consistent(conn[c], op[c], unledgered) /\ View(c).log \in Seq(Entry)
    BY <1>1, ViewConsistent, ViewType
  <2>4. conn[c].snap => Whole(conn[c].work.log, unledgered, S, {})
    BY <2>1, <2>3, IdleOwesNothing, WholeMore DEF Consistent, View
  <2>5. Consistent(conn'[c], op'[c], unledgered')
    BY <2>1, <2>2, <2>3, <2>4, IdleOwesNothing DEF Consistent
  <2>6. Settled(c)'
    BY <2>1, <2>2 DEF Settled
  <2> QED
    BY <1>1, <2>1, <2>5, <2>6, StepOf
<1>4. ASSUME NEW c \in Conn, NEW i \in Item, Update(c, i)
      PROVE  TableInv'
  <2> DEFINE m == [op[c] EXCEPT !.pc = "append", !.item = {i}, !.left = op[c].left \ {i}]
             work == [View(c) EXCEPT !.state[i] = op[c].to]
  <2>1. /\ op[c].pc = "update" /\ i \in op[c].left
        /\ op'[c] = m /\ \A d \in Conn \ {c} : op'[d] = op[d]
        /\ UNCHANGED <<db, unledgered, faulted>>
    BY <1>2, <1>4 DEF Update
  <2>2. work \in Db /\ CanWrite(c) /\ Holds(c, work) /\ work.log = View(c).log
    BY <1>1, <1>4, UpdateType DEF Update
  <2>3. /\ conn'[c].work = work /\ conn'[c].lock
        /\ \A d \in Conn \ {c} : conn'[d] = conn[d]
    BY <1>1, <2>2, HoldsTypes
  <2>4. /\ m.pc = "append" /\ m.item = {i} /\ m.left = op[c].left \ {i}
        /\ m.batch = op[c].batch /\ m.to = op[c].to /\ op[c].left \subseteq op[c].batch
    BY <1>1, <1>2 DEF Progress, Methods
  <2>5. InFlight(op[c]) = {} /\ InFlight(m) = {i} /\ Owed(m) = Owed(op[c])
        /\ Outstanding(m) = Outstanding(op[c]) /\ Outstanding(m) = op[c].left
    BY <2>1, <2>4 DEF InFlight, Owed, Outstanding
  <2>6. work.state[i] = op[c].to
    BY <1>1, ViewType DEF Db
  <2>7. Agrees(work, unledgered \union InFlight(m))
    <3>1. View(c) \in Db /\ op[c].to \in MemoryState
      BY <1>1, ViewType DEF Progress
    <3>2. Agrees(View(c), unledgered)
      BY <2>5, ViewConsistent
    <3> QED
      BY <2>5, <3>1, <3>2, AgreesUpdate
  <2>8. Whole(work.log, unledgered, m.batch, Owed(m))
    BY <2>2, <2>4, <2>5, ViewConsistent
  <2>9. \A j \in m.batch \ Outstanding(m) : Entered(work.log, m.batch, j)
    <3>1. CASE conn[c].lock
      BY <2>2, <2>4, <2>5, <3>1, ViewConsistent DEF Consistent, View
    <3>2. CASE ~conn[c].lock
      BY <2>4, <2>5, <3>2, ViewConsistent DEF Consistent
    <3> QED
      BY <3>1, <3>2
  <2> HIDE DEF m, work
  <2>10. Consistent(conn'[c], op'[c], unledgered')
    BY <2>1, <2>3, <2>4, <2>6, <2>7, <2>8, <2>9 DEF Consistent
  <2>11. Settled(c)'
    BY <2>1, <2>4 DEF Settled
  <2> QED
    BY <1>1, <2>1, <2>3, <2>10, <2>11, StepOf
<1>5. ASSUME NEW c \in Conn, Busy(c)
      PROVE  TableInv'
  <2>1. /\ op[c].pc = "update" /\ ~CanWrite(c) /\ op'[c] = Idle
        /\ \A d \in Conn \ {c} : op'[d] = op[d]
        /\ UNCHANGED <<db, unledgered>> /\ faulted' = faulted \union {c}
    BY <1>2, <1>5 DEF Busy
  <2>2. /\ \A d \in Conn \ {c} : conn'[d] = conn[d]
        /\ conn'[c].snap = conn[c].snap /\ conn'[c].lock = conn[c].lock
        /\ conn'[c].work = conn[c].work
    BY <1>2, <1>5 DEF Busy, Connection
  <2>3. ~conn[c].lock /\ op[c].left = op[c].batch
    BY <1>1, <2>1, LockIsExclusive, ViewConsistent DEF Consistent
  <2>4. InFlight(op[c]) = {} /\ Owed(op[c]) = {}
    BY <2>1, <2>3 DEF InFlight, Owed, Outstanding
  <2>5. View(c).log \in Seq(Entry)
    BY <1>1, ViewType
  <2>6. conn[c].snap => /\ Agrees(conn[c].work, unledgered)
                        /\ Whole(conn[c].work.log, unledgered, {}, {})
    BY <2>4, <2>5, ViewConsistent, WholeMore DEF View
  <2>7. Consistent(conn'[c], op'[c], unledgered')
    BY <2>1, <2>2, <2>3, <2>6, IdleOwesNothing DEF Consistent
  <2>8. Settled(c)'
    BY <2>1 DEF Settled
  <2> QED
    BY <1>1, <2>1, <2>2, <2>7, <2>8, StepOf
<1>6. ASSUME NEW c \in Conn, LedgerAppend(c)
      PROVE  TableInv'
  <2> DEFINE m == [op[c] EXCEPT !.pc = IF op[c].left = {} THEN "commit" ELSE "update"]
             e == LedgerEntry(c)
             work == Appended(c)
  <2>1. /\ op[c].pc = "append" /\ op'[c] = m
        /\ \A d \in Conn \ {c} : op'[d] = op[d]
        /\ UNCHANGED <<db, unledgered, faulted>>
    BY <1>2, <1>6 DEF LedgerAppend
  <2>2. conn[c].lock /\ conn[c].snap /\ View(c) = conn[c].work
    BY <1>1, <2>1 DEF Methods, Connections, View
  <2>3. /\ work \in Db /\ CanWrite(c) /\ Holds(c, work) /\ e \in Entry
        /\ work = [state |-> View(c).state, log |-> Append(View(c).log, e)]
        /\ View(c) \in Db /\ View(c).log \in Seq(Entry)
    BY <1>1, <1>6, <2>2, LockIsExclusive, EntryContinues, ViewType
    DEF LedgerAppend, Appended
  <2>4. /\ conn'[c].work = work /\ conn'[c].lock /\ conn'[c].snap
        /\ \A d \in Conn \ {c} : conn'[d] = conn[d]
    BY <1>1, <2>3, HoldsTypes
  <2>5. e.body.items = op[c].item /\ e.body.batch = op[c].batch /\ e.body.to = op[c].to
    BY DEF LedgerEntry
  <2>6. /\ m.pc = (IF op[c].left = {} THEN "commit" ELSE "update")
        /\ m.left = op[c].left /\ m.batch = op[c].batch
    BY <1>2 DEF Progress
  <2> HIDE DEF m, e, work
  <2>7. /\ op[c].item # {} /\ op[c].item \subseteq op[c].batch
        /\ op[c].item \cap op[c].left = {}
        /\ \A i \in op[c].item : conn[c].work.state[i] = op[c].to
        /\ \A i \in op[c].batch \ Outstanding(op[c]) :
              Entered(View(c).log, op[c].batch, i)
    BY <2>1, <2>2, ViewConsistent DEF Consistent
  <2>8. /\ InFlight(op[c]) = op[c].item /\ InFlight(m) = {}
        /\ Outstanding(op[c]) = op[c].left \union op[c].item
        /\ Outstanding(m) = op[c].left /\ Owed(m) = op[c].left
        /\ Owed(op[c]) \subseteq op[c].left \union op[c].item
    BY <2>1, <2>6, <2>7 DEF InFlight, Outstanding, Owed
  <2>9. Agrees(work, unledgered)
    <3>1. Agrees(View(c), unledgered \union e.body.items)
      BY <2>5, <2>8, ViewConsistent
    <3> QED
      BY <2>2, <2>3, <2>5, <2>7, <3>1, AgreesAppend
  <2>10. Whole(work.log, unledgered, m.batch, Owed(m))
    <3>1. Whole(View(c).log, unledgered, e.body.batch, Owed(op[c]))
      BY <2>5, ViewConsistent
    <3>2. Whole(Append(View(c).log, e), unledgered, e.body.batch, op[c].left)
      BY <2>3, <2>5, <2>7, <2>8, <3>1, WholeAppend
    <3> QED
      BY <2>3, <2>5, <2>6, <2>8, <3>2
  <2>11. \A i \in m.batch \ Outstanding(m) : Entered(work.log, m.batch, i)
    <3>1. ASSUME NEW i \in op[c].batch \ op[c].left
          PROVE  Entered(Append(View(c).log, e), op[c].batch, i)
      BY <2>3, <2>5, <2>7, <2>8, <3>1, EnteredAppend
    <3> QED
      BY <2>3, <2>6, <2>8, <3>1
  <2>12. Consistent(conn'[c], op'[c], unledgered')
    BY <2>1, <2>4, <2>6, <2>8, <2>9, <2>10, <2>11 DEF Consistent
  <2>13. Settled(c)'
    BY <2>1, <2>6 DEF Settled
  <2> QED
    BY <1>1, <2>1, <2>4, <2>12, <2>13, StepOf
<1>7. ASSUME NEW c \in Conn, LedgerAppendRaises(c)
      PROVE  TableInv'
  <2>1. /\ op[c].pc = "append" /\ op'[c] = Idle
        /\ \A d \in Conn \ {c} : op'[d] = op[d]
        /\ unledgered' = unledgered \union op[c].item
        /\ faulted' = faulted \union {c} /\ UNCHANGED <<db, conn>>
    BY <1>2, <1>7 DEF LedgerAppendRaises
  <2>2. conn[c].lock /\ conn[c].snap /\ View(c) = conn[c].work /\ View(c).log \in Seq(Entry)
    BY <1>1, <2>1, ViewType DEF Methods, Connections, View
  <2>3. InFlight(op[c]) = op[c].item /\ op[c].item \cap op[c].batch # {}
    BY <2>1, ViewConsistent DEF Consistent, InFlight
  <2>4. Agrees(conn[c].work, unledgered')
    BY <2>1, <2>2, <2>3, ViewConsistent
  <2>5. Whole(conn[c].work.log, unledgered', {}, {})
    <3>1. Whole(View(c).log, unledgered, op[c].batch, Owed(op[c]))
      BY ViewConsistent
    <3> QED
      BY <2>1, <2>2, <2>3, <3>1, WholeRaised
  <2>6. Consistent(conn'[c], op'[c], unledgered')
    BY <2>1, <2>2, <2>4, <2>5, IdleOwesNothing DEF Consistent
  <2>7. Settled(c)'
    BY <2>1 DEF Settled
  <2> QED
    BY <1>1, <2>1, <2>6, <2>7, StepOf
<1>8. ASSUME NEW c \in Conn, CanWrite(c), Commits(c, View(c)), op'[c] = Idle,
             \A d \in Conn \ {c} : op'[d] = op[d], UNCHANGED unledgered,
             op[c].pc \in {"idle", "commit"}, faulted' = faulted \ {c}
      PROVE  TableInv'
  <2>1. View(c) \in Db /\ \A d \in Conn \ {c} : ~conn[d].lock
    BY <1>1, <1>8, ViewType DEF CanWrite
  <2>2. /\ db' = View(c) /\ conn'[c] = Closed
        /\ \A d \in Conn \ {c} : /\ conn'[d].open = conn[d].open
                                 /\ conn'[d].snap = conn[d].snap
                                 /\ conn'[d].work = conn[d].work
                                 /\ ~conn'[d].lock
    BY <1>1, <1>8, <2>1, CommitsTypes
  <2>3. /\ conn \in [Conn -> Connection] /\ conn' \in [Conn -> Connection]
    BY <1>1, TypePartsNext DEF Connections
  <2>4. \A d \in Conn \ {c} : conn'[d].lock = conn[d].lock
    BY <2>1, <2>2, <2>3 DEF Connection
  <2>5. Agrees(db', unledgered') /\ Whole(db'.log, unledgered', {}, {})
    BY <1>8, <2>2, IdleView
  <2>6. Consistent(conn'[c], op'[c], unledgered') /\ Settled(c)'
    BY <1>8, <2>2, ClosedConsistent, ClosedType DEF Settled
  <2> QED
    BY <1>1, <1>8, <2>2, <2>4, <2>5, <2>6, StepOf
<1>9. ASSUME NEW c \in Conn, Commit(c)
      PROVE  TableInv'
  <2>1. conn[c].lock
    BY <1>1, <1>9 DEF Commit, Methods
  <2> QED
    BY <1>1, <1>2, <1>8, <1>9, <2>1, LockIsExclusive DEF Commit
<1>10. ASSUME NEW c \in Conn, Note(c)
       PROVE  TableInv'
  BY <1>8, <1>10, IdleOwesNothing DEF Note
<1>11. ASSUME NEW c \in Conn, conn' = [conn EXCEPT ![c] = Closed], op'[c] = Idle,
              \A d \in Conn \ {c} : op'[d] = op[d],
              faulted' = faulted \ {c}, UNCHANGED <<db, unledgered>>
       PROVE  TableInv'
  <2>1. conn'[c] = Closed /\ \A d \in Conn \ {c} : conn'[d] = conn[d]
    BY <1>1, <1>11, ClosedTypes
  <2>2. Consistent(conn'[c], op'[c], unledgered') /\ Settled(c)'
    BY <1>11, <2>1, ClosedConsistent, ClosedType DEF Settled
  <2> QED
    BY <1>1, <1>11, <2>1, <2>2, StepOf
<1>12. ASSUME NEW c \in Conn, RevokeNothing(c)
       PROVE  TableInv'
  <2>1. CASE conn[c].lock
    BY <1>1, <1>8, <1>12, <2>1, LockIsExclusive, IdleOwesNothing DEF RevokeNothing, View
  <2>2. CASE ~conn[c].lock
    BY <1>11, <1>12, <2>2 DEF RevokeNothing
  <2> QED
    BY <2>1, <2>2
<1>13. ASSUME NEW c \in Conn, Score(c)
       PROVE  TableInv'
  <2>1. /\ op[c] = Idle /\ CanWrite(c) /\ Holds(c, View(c)) /\ View(c) \in Db
        /\ faulted' = faulted \union {c} /\ UNCHANGED <<db, op, unledgered>>
    BY <1>1, <1>13, ViewType DEF Score
  <2>2. /\ conn'[c].work = View(c) /\ conn'[c].lock
        /\ \A d \in Conn \ {c} : conn'[d] = conn[d]
    BY <1>1, <2>1, HoldsTypes
  <2>3. Agrees(View(c), unledgered) /\ Whole(View(c).log, unledgered, {}, {})
    BY <2>1, IdleView, IdleOwesNothing
  <2>4. Consistent(conn'[c], op'[c], unledgered')
    BY <2>1, <2>2, <2>3, IdleOwesNothing DEF Consistent
  <2>5. Settled(c)'
    BY <2>1 DEF Settled
  <2> QED
    BY <1>1, <2>1, <2>2, <2>4, <2>5, StepOf
<1>14. ASSUME NEW c \in Conn, Select(c)
       PROVE  TableInv'
  <2>1. /\ op[c] = Idle /\ conn[c].open /\ ~conn[c].snap
        /\ UNCHANGED <<db, op, unledgered, faulted>>
    BY <1>14 DEF Select
  <2>2. /\ conn'[c].work = db /\ conn'[c].lock = conn[c].lock
        /\ \A d \in Conn \ {c} : conn'[d] = conn[d]
    BY <1>2, <1>14 DEF Select, Connection
  <2>3. Consistent(conn[c], op[c], unledgered) /\ Settled(c)
    BY DEF TableInv
  <2>4. Consistent(conn'[c], op'[c], unledgered')
    BY <2>1, <2>2, <2>3, IdleOwesNothing DEF Consistent, TableInv
  <2>5. Settled(c)'
    BY <2>1, <2>3, IdleOwesNothing DEF Settled
  <2> QED
    BY <1>1, <2>1, <2>2, <2>4, <2>5, StepOf
<1>15. ASSUME NEW c \in Conn, Close(c)
       PROVE  TableInv'
  BY <1>2, <1>11, <1>15 DEF Close
<1>16. CASE UNCHANGED vars
  <2>1. TypeOK' /\ UNCHANGED <<db, conn, op, unledgered, faulted>>
    BY <1>1, <1>16 DEF vars
  <2> QED
    BY <2>1 DEF TableInv, Settled
<1>17. ASSUME NEW c \in Conn, Method(c)
       PROVE  TableInv'
  BY <1>3, <1>4, <1>5, <1>6, <1>7, <1>9, <1>17 DEF Method
<1> QED
  BY <1>10, <1>12, <1>13, <1>14, <1>15, <1>16, <1>17 DEF Next

LEMMA TableInit == Init => TableInv
<1> SUFFICES ASSUME Init PROVE TableInv
  OBVIOUS
<1>1. /\ db.log = <<>> /\ \A i \in Item : db.state[i] = "active"
      /\ \A c \in Conn : conn[c] = Closed /\ op[c] = Idle
  BY DEF Init, EmptyDb
<1>2. Agrees(db, unledgered) /\ Whole(db.log, unledgered, {}, {})
  BY <1>1 DEF Agrees, LedgeredAs, About, Whole
<1>3. \A c \in Conn : Consistent(conn[c], op[c], unledgered) /\ Settled(c)
  BY <1>1, ClosedConsistent, ClosedType DEF Settled
<1> QED
  BY <1>2, <1>3, TypeInit DEF TableInv

LEMMA TableAlways == Spec => []TableInv
  BY TableInit, TableStep, PTL DEF Spec

\* A crash or error at any statement of any method of any process leaves table
\* and ledger in agreement on every item but those whose own append raised.
THEOREM TableMatchesLedger == Spec => []StateIsLedgered
<1>1. ASSUME TableInv, NEW i \in Item \ unledgered
      PROVE  db.state[i] = Ledgered(i)
  <2>1. LedgeredAs(db.log, i, db.state[i])
    BY <1>1 DEF TableInv, Agrees
  <2>2. Len(db.log) \in Nat
    BY <1>1, TypeParts DEF TableInv, Db
  <2>3. CASE About(db.log, i) = {}
    BY <2>1, <2>3 DEF LedgeredAs, Ledgered, About
  <2>4. CASE About(db.log, i) # {}
    <3>1. PICK k \in About(db.log, i) : /\ \A m \in About(db.log, i) : m <= k
                                        /\ db.log[k].body.to = db.state[i]
      BY <2>1, <2>4 DEF LedgeredAs
    <3>2. \A n \in About(db.log, i) : (\A m \in About(db.log, i) : m <= n) => n = k
      BY <2>2, <3>1 DEF About
    <3>3. (CHOOSE n \in About(db.log, i) : \A m \in About(db.log, i) : m <= n) = k
      BY <3>1, <3>2
    <3> QED
      BY <2>4, <3>1, <3>3 DEF Ledgered, About
  <2> QED
    BY <2>3, <2>4
<1>2. TableInv => StateIsLedgered
  BY <1>1 DEF StateIsLedgered
<1> QED
  BY <1>2, TableAlways, PTL

\* A revocation is in the ledger for all of its items or for none, wherever its
\* process stops, unless an append raised halfway.
THEOREM RevocationsAreWhole == Spec => []AllOrNothing
<1>1. TableInv => AllOrNothing
  BY DEF TableInv, Whole, Entered, AllOrNothing
<1> QED
  BY <1>1, TableAlways, PTL

\* Between methods a connection blocks nobody and reads what is committed,
\* unless an error or an uncommitted trust score left it in a transaction.
THEOREM MethodsEndClean == Spec => []CleanBetweenMethods
<1>1. ASSUME TableInv, NEW c \in Conn \ faulted, op[c] = Idle
      PROVE  View(c) = db /\ ~conn[c].lock
  <2>1. ~conn[c].open
    BY <1>1, IdleOwesNothing DEF TableInv, Settled
  <2> QED
    BY <1>1, <2>1, TypeParts DEF TableInv, Connections, View
<1>2. TableInv => CleanBetweenMethods
  BY <1>1 DEF CleanBetweenMethods
<1> QED
  BY <1>2, TableAlways, PTL
=============================================================================
