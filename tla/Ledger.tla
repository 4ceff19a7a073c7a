------------------------------- MODULE Ledger -------------------------------
(***************************************************************************)
(* How MemoryStore writes: memory/store.py over one SQLite file in WAL     *)
(* mode that several processes have open, each through one connection with *)
(* Python's implicit transactions.  A store method runs UPDATE,            *)
(* _ledger_append, UPDATE, ... and ends in commit(); nothing ever calls    *)
(* rollback().  Here the statements of a method are steps, so that other   *)
(* connections, lock timeouts, errors and crashes come between them.       *)
(* VerifiedMemory takes each method as one step; this module is about what *)
(* that rests on.                                                          *)
(***************************************************************************)
EXTENDS Integers, Sequences, FiniteSets

CONSTANTS
    Conn,        \* connections: one per process
    Item,        \* ids of memory rows
    MaxLog       \* bound: entries appended to the ledger

ASSUME LedgerAssumption == MaxLog \in Nat

MemoryState == {"active", "revoked"}

\* sha256(prev + body), taken as injective: a digest is what it digests.  The
\* model starts on a file whose items have been promoted; Genesis is its ledger.
Genesis == <<>>
Digest(prev, body) == Append(prev, body)

\* What a method is doing: it sets the items of `left` to `to`, having started
\* with `batch`; `item` is the one it updated last.
Idle == [pc |-> "idle", to |-> "active", batch |-> {}, left |-> {}, item |-> {}]

VARIABLES
    db,          \* what is committed: memory.state and memory_ledger
    conn,        \* each connection's transaction and what it sees inside it
    op,          \* the store method each connection is in
    unledgered,  \* history: items whose _ledger_append raised
    faulted      \* history: connections left in a transaction by an error or
                 \* by update_trust_score, which does not commit

vars == <<db, conn, op, unledgered, faulted>>

EmptyDb == [state |-> [i \in Item |-> "active"], log |-> <<>>]

\* open: in_transaction; snap: a statement has run in it, so that it sees
\* `work` and not what is committed; lock: it holds the write lock; stale:
\* another connection has committed since it has a snapshot.
Closed == [open |-> FALSE, snap |-> FALSE, lock |-> FALSE, stale |-> FALSE,
           work |-> EmptyDb]

Init ==
    /\ db = EmptyDb
    /\ conn = [c \in Conn |-> Closed]
    /\ op = [c \in Conn |-> Idle]
    /\ unledgered = {}
    /\ faulted = {}
-----------------------------------------------------------------------------
(* SQLite, as the store meets it *)

\* What a SELECT of c returns.
View(c) == IF conn[c].snap THEN conn[c].work ELSE db

\* Mutant: a write upgrades a read snapshot however old.
CanWriteStale(c) == \A d \in Conn \ {c} : ~conn[d].lock

\* c gets the write lock: nobody else has it, and c's snapshot, if it has one,
\* is current (else SQLITE_BUSY_SNAPSHOT, at once).
CanWrite(c) == ~conn[c].stale /\ \A d \in Conn \ {c} : ~conn[d].lock

\* c has executed an INSERT or UPDATE, in the transaction it opened if need be.
Holds(c, work) ==
    conn' = [conn EXCEPT ![c] = [@ EXCEPT !.open = TRUE, !.snap = TRUE,
                                          !.lock = TRUE, !.work = work]]

\* commit() of a transaction that sees `work`.
Commits(c, work) ==
    /\ db' = work
    /\ conn' = [d \in Conn |-> IF d = c THEN Closed
                               ELSE [conn[d] EXCEPT !.stale = conn[d].snap]]
-----------------------------------------------------------------------------
(* A store method that moves items: insert_candidate, stage_t0, mark_active,
   activate_t0, mark_rejected, demote_to_quarantine, expire_due or
   revoke_by_source.  The last two read their rows before the first UPDATE. *)

Start(c, S, to) ==
    /\ op[c] = Idle
    /\ Len(View(c).log) + Cardinality(S) <= MaxLog
    /\ \/ Cardinality(S) = 1
       \/ S # {} /\ to = "revoked" /\ \A i \in S : View(c).state[i] = "active"
    /\ op' = [op EXCEPT ![c] = [pc |-> "update", to |-> to, batch |-> S, left |-> S,
                             item |-> {}]]
    /\ UNCHANGED <<db, conn, unledgered, faulted>>

\* Mutant: the connection autocommits each statement.
UpdateAutocommits(c, i) ==
    /\ op[c].pc = "update" /\ i \in op[c].left
    /\ CanWrite(c)
    /\ db' = [View(c) EXCEPT !.state[i] = op[c].to]
    /\ Holds(c, db')
    /\ op' = [op EXCEPT ![c] = [op[c] EXCEPT !.pc = "append", !.item = {i},
                                             !.left = op[c].left \ {i}]]
    /\ UNCHANGED <<unledgered, faulted>>

\* UPDATE memory SET state=? WHERE id=?
Update(c, i) ==
    /\ op[c].pc = "update" /\ i \in op[c].left
    /\ CanWrite(c)
    /\ Holds(c, [View(c) EXCEPT !.state[i] = op[c].to])
    /\ op' = [op EXCEPT ![c] = [op[c] EXCEPT !.pc = "append", !.item = {i},
                                             !.left = op[c].left \ {i}]]
    /\ UNCHANGED <<db, unledgered, faulted>>

\* The write lock was not to be had for the timeout of sqlite3.connect, or the
\* snapshot is stale: "database is locked".  BEGIN has run; the method raises.
Busy(c) ==
    /\ op[c].pc = "update"
    /\ ~CanWrite(c)
    /\ conn' = [conn EXCEPT ![c].open = TRUE]
    /\ op' = [op EXCEPT ![c] = Idle]
    /\ faulted' = faulted \union {c}
    /\ UNCHANGED <<db, unledgered>>

\* Mutant: the head is looked up in what is committed.
LedgerHeadCommitted(c) ==
    IF db.log = <<>> THEN Genesis ELSE db.log[Len(db.log)].entry_hash

\* _ledger_head: ORDER BY seq DESC LIMIT 1.
LedgerHead(c) ==
    LET log == View(c).log
    IN  IF log = <<>> THEN Genesis ELSE log[Len(log)].entry_hash

\* The entry for the item updated last, after the entries c sees.
LedgerEntry(c) ==
    LET prev == LedgerHead(c)
        body == [items |-> op[c].item, to |-> op[c].to, batch |-> op[c].batch]
    IN  [prev_hash |-> prev, entry_hash |-> Digest(prev, body), body |-> body]

Appended(c) == [state |-> View(c).state,
                log |-> Append(View(c).log, LedgerEntry(c))]

\* Mutant: the method commits inside its loop, after each item.
LedgerAppendCommits(c) ==
    /\ op[c].pc = "append"
    /\ Commits(c, Appended(c))
    /\ op' = [op EXCEPT ![c] = IF @.left = {} THEN Idle ELSE [@ EXCEPT !.pc = "update"]]
    /\ UNCHANGED <<unledgered, faulted>>

\* _ledger_append, in the transaction of the UPDATE before it.
LedgerAppend(c) ==
    /\ op[c].pc = "append"
    /\ Holds(c, Appended(c))
    /\ op' = [op EXCEPT ![c].pc = IF op[c].left = {} THEN "commit" ELSE "update"]
    /\ UNCHANGED <<db, unledgered, faulted>>

\* _ledger_append raises after the UPDATE (a reason that does not encode as
\* UTF-8, a full disk): the method ends and its transaction stays open.
LedgerAppendRaises(c) ==
    /\ op[c].pc = "append"
    /\ op' = [op EXCEPT ![c] = Idle]
    /\ unledgered' = unledgered \union op[c].item
    /\ faulted' = faulted \union {c}
    /\ UNCHANGED <<db, conn>>

\* Mutant: a method returns without commit().
CommitForgotten(c) ==
    /\ op[c].pc = "commit"
    /\ op' = [op EXCEPT ![c] = Idle]
    /\ UNCHANGED <<db, conn, unledgered, faulted>>

\* The method's commit(): it commits whatever the transaction holds, statements
\* of methods that failed earlier included.
Commit(c) ==
    /\ op[c].pc = "commit"
    /\ Commits(c, View(c))
    /\ op' = [op EXCEPT ![c] = Idle]
    /\ faulted' = faulted \ {c}
    /\ UNCHANGED unledgered
-----------------------------------------------------------------------------
(* Store methods that move no item *)

\* add_negative, set_expiry, add_confirmation: a statement and commit().
Note(c) ==
    /\ op[c] = Idle
    /\ CanWrite(c)
    /\ Commits(c, View(c))
    /\ faulted' = faulted \ {c}
    /\ UNCHANGED <<op, unledgered>>

\* revoke_by_source finds nothing: only its commit(), of what an earlier method
\* may have left.
RevokeNothing(c) ==
    /\ op[c] = Idle
    /\ conn[c].open
    /\ IF conn[c].lock THEN Commits(c, conn[c].work)
                       ELSE conn' = [conn EXCEPT ![c] = Closed] /\ UNCHANGED db
    /\ faulted' = faulted \ {c}
    /\ UNCHANGED <<op, unledgered>>

\* update_trust_score: a statement without commit().
Score(c) ==
    /\ op[c] = Idle
    /\ CanWrite(c)
    /\ Holds(c, View(c))
    /\ faulted' = faulted \union {c}
    /\ UNCHANGED <<db, op, unledgered>>

\* A SELECT inside a transaction left open fixes what it sees from then on.
Select(c) ==
    /\ op[c] = Idle
    /\ conn[c].open /\ ~conn[c].snap
    /\ conn' = [conn EXCEPT ![c].snap = TRUE, ![c].work = db]
    /\ UNCHANGED <<db, op, unledgered, faulted>>

\* The process ends: close(), kill or power loss; SQLite rolls back.
Close(c) ==
    /\ conn[c].open \/ op[c] # Idle
    /\ conn' = [conn EXCEPT ![c] = Closed]
    /\ op' = [op EXCEPT ![c] = Idle]
    /\ faulted' = faulted \ {c}
    /\ UNCHANGED <<db, unledgered>>

Method(c) ==
    \/ \E S \in SUBSET Item, to \in MemoryState : Start(c, S, to)
    \/ \E i \in Item : Update(c, i)
    \/ Busy(c) \/ LedgerAppend(c) \/ LedgerAppendRaises(c) \/ Commit(c)

Next == \E c \in Conn : \/ Method(c)
                        \/ Note(c) \/ RevokeNothing(c) \/ Score(c) \/ Select(c)
                        \/ Close(c)

Spec == Init /\ [][Next]_vars
-----------------------------------------------------------------------------
(* Properties *)

Body == [items : SUBSET Item, to : MemoryState, batch : SUBSET Item]
Entry == [prev_hash : Seq(Body), entry_hash : Seq(Body), body : Body]
Db == [state : [Item -> MemoryState], log : Seq(Entry)]

\* Every connection is in a possible state: one write lock for all, held inside
\* a transaction that has a snapshot, and held wherever a method will append.
TypeOK ==
    /\ db \in Db
    /\ conn \in [Conn -> [open : BOOLEAN, snap : BOOLEAN, lock : BOOLEAN,
                         stale : BOOLEAN, work : Db]]
    /\ op \in [Conn -> [pc : {"idle", "update", "append", "commit"}, to : MemoryState,
                       batch : SUBSET Item, left : SUBSET Item, item : SUBSET Item]]
    /\ unledgered \subseteq Item
    /\ faulted \subseteq Conn
    /\ \A c \in Conn :
          /\ op[c].left \subseteq op[c].batch
          /\ conn[c].snap => conn[c].open
          /\ conn[c].lock => conn[c].snap /\ ~conn[c].stale
          /\ conn[c].lock => \A d \in Conn \ {c} : ~conn[d].lock
          /\ op[c].pc \in {"append", "commit"} => conn[c].lock

\* verify_ledger: each entry's hash covers it and all before it.
VerifyLedger(log) ==
    \A k \in 1..Len(log) :
        /\ log[k].prev_hash = (IF k = 1 THEN Genesis ELSE log[k-1].entry_hash)
        /\ log[k].entry_hash = Digest(log[k].prev_hash, log[k].body)

\* The hash chain never forks, however the methods of several processes
\* interleave, fail or die between reading the head and appending to it: any
\* process verifies what it sees.
ChainVerifies == VerifyLedger(db.log) /\ \A c \in Conn : VerifyLedger(View(c).log)

\* What is committed to the ledger stays, in its place.
AppendOnly ==
    [][/\ Len(db'.log) >= Len(db.log)
       /\ \A k \in 1..Len(db.log) : db'.log[k] = db.log[k]]_vars

\* The state the ledger gives an item.
Ledgered(i) ==
    LET about == {k \in 1..Len(db.log) : i \in db.log[k].body.items}
    IN  IF about = {} THEN "active"
        ELSE db.log[CHOOSE k \in about : \A m \in about : m <= k].body.to

\* A crash or error at any statement leaves table and ledger in agreement on
\* every item but those whose own append raised.
StateIsLedgered == \A i \in Item \ unledgered : db.state[i] = Ledgered(i)

\* A revocation is in the ledger for all of its items or for none, unless an
\* append raised halfway.
AllOrNothing ==
    \A k \in 1..Len(db.log) :
        db.log[k].body.batch \cap unledgered = {} =>
        \A i \in db.log[k].body.batch :
            \E m \in 1..Len(db.log) : /\ i \in db.log[m].body.items
                                      /\ db.log[m].body.batch = db.log[k].body.batch

\* Between methods a connection blocks nobody and reads what is committed,
\* unless an error or an uncommitted trust score left it in a transaction.
CleanBetweenMethods ==
    \A c \in Conn \ faulted : op[c] = Idle => View(c) = db /\ ~conn[c].lock

\* store.py:5-6: the ledger is an "audit of every state transition".
EveryTransitionLedgered == \A i \in Item : db.state[i] = Ledgered(i)
=============================================================================
