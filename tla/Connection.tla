----------------------------- MODULE Connection -----------------------------
(***************************************************************************)
(* db.db_conn: the one SQLite connection of the process, its writers and   *)
(* the lock that some of them take (db.write).                             *)
(*                                                                         *)
(* The connection has one transaction at a time, opened by the first       *)
(* statement that writes.  commit and rollback are of the connection: they *)
(* end whatever is in that transaction, whoever put it there.  Each        *)
(* statement, commit and rollback is awaited, so writers interleave there. *)
(***************************************************************************)
EXTENDS Naturals, Sequences, FiniteSets

CONSTANTS Writers,    \* concurrent calls of the functions below
          Casts,      \* which function each of them calls
          None,
          MaxFaults   \* bound: failed statements, cancellations, crashes

ASSUME NoneIsNoWriter == None \notin Writers
ASSUME FaultsBound == MaxFaults \in Nat

----------------------------------------------------------------------------
(* The writers.  A function is a sequence of transactions of some number of *)
(* statements.  When one fails, the transaction is rolled back and the error *)
(* raised (undo) or swallowed (swallow), or it is raised and the transaction *)
(* left as it is (leave).                                                   *)

Tx(stmts, onError) ==
    [stmts |-> stmts, onError |-> onError,
     begin |-> FALSE, commits |-> TRUE, nested |-> FALSE]

\* A call of a decorated function: _fts_index_ids, _fts_forget_ids and
\* _fts_rebuild, all under _fts_guard.
Nested(stmts) == [Tx(stmts, "swallow") EXCEPT !.nested = TRUE]

\* An explicit BEGIN, which is refused inside a transaction.
Begun(stmts) == [Tx(stmts, "undo") EXCEPT !.begin = TRUE]

messages_append == [lock |-> "write", txs |-> <<Tx(1, "leave"), Nested(2)>>]
messages_batch == [lock |-> "write", txs |-> <<Tx(2, "undo"), Nested(2)>>]
chat_update == [lock |-> "write", txs |-> <<Tx(1, "leave"), Nested(2)>>]
chat_delete == [lock |-> "write", txs |-> <<Tx(3, "undo"), Nested(1)>>]
chats_reorder == [lock |-> "write", txs |-> <<Tx(2, "undo")>>]
ai_machine_activate == [lock |-> "write", txs |-> <<Tx(2, "undo")>>]
ai_machine_delete == [lock |-> "write", txs |-> <<Tx(2, "leave")>>]
subagent_record == [lock |-> "write", txs |-> <<Tx(2, "leave")>>]

\* Rows and cursor, batch by batch, under a lock of their own.
usage_import == [lock |-> "import", txs |-> <<Begun(2), Begun(2)>>]

\* These take no lock.
orchestrator_delete == [lock |-> "none", txs |-> <<Begun(3)>>]
queue_add == [lock |-> "none", txs |-> <<Tx(1, "leave")>>]
chat_fork == [lock |-> "none", txs |-> <<Tx(2, "leave"), Nested(2)>>]

\* A fork of a conversation without messages does not commit.
chat_fork_empty ==
    [lock |-> "none", txs |-> <<[Tx(1, "leave") EXCEPT !.commits = FALSE]>>]

Functions ==
    {messages_append, messages_batch, chat_update, chat_delete, chats_reorder,
     ai_machine_activate, ai_machine_delete, subagent_record, usage_import,
     orchestrator_delete, queue_add, chat_fork, chat_fork_empty}

ASSUME CastsAreCalls == Casts \subseteq [Writers -> Functions]

----------------------------------------------------------------------------
VARIABLES
    cast,     \* the function that each writer calls
    at,       \* its next await, in which transaction, at which statement
    outcome,  \* how its call ended
    holder,   \* _db_write_lock; _holds_write_lock is set for this writer
    importer, \* _import_tx_lock
    tx,       \* the statements in the connection's transaction
    open,     \* whether it has one
    durable,  \* the statements committed
    faults

vars == <<cast, at, outcome, holder, importer, tx, open, durable, faults>>
conn == <<tx, open, durable>>

At == [pc: {"idle", "lock", "nested", "begin", "write", "commit", "undo", "ended"},
       k: 1..2, i: 1..3]
Locks == {"write", "import", "none"}

Current(w) == cast[w].txs[at[w].k]
Statement(w) == <<w, at[w].k, at[w].i>>
Goes(w, pc, k, i) == at' = [at EXCEPT ![w] = [pc |-> pc, k |-> k, i |-> i]]

Init ==
    /\ cast \in Casts
    /\ at = [w \in Writers |-> [pc |-> "idle", k |-> 1, i |-> 1]]
    /\ outcome = [w \in Writers |-> "none"]
    /\ holder = None
    /\ importer = None
    /\ tx = {}
    /\ open = FALSE
    /\ durable = {}
    /\ faults = 0

Fault == faults < MaxFaults /\ faults' = faults + 1

----------------------------------------------------------------------------
\* What the connection does.
Insert(w) == tx' = tx \cup {Statement(w)} /\ open' = TRUE /\ UNCHANGED durable
CommitAll == durable' = durable \cup tx /\ tx' = {} /\ open' = FALSE
RollbackAll == tx' = {} /\ open' = FALSE /\ UNCHANGED durable

\* The call is over: what it holds is released, whichever way it ended.
Ends(w, how) ==
    /\ Goes(w, "ended", at[w].k, at[w].i)
    /\ outcome' = [outcome EXCEPT ![w] = how]
    /\ holder' = IF holder = w THEN None ELSE holder
    /\ importer' = IF importer = w THEN None ELSE importer

PlainLock(w, k) ==                                           \* mutant
    IF cast[w].txs[k].nested THEN "nested"
    ELSE IF cast[w].txs[k].begin THEN "begin" ELSE "write"

\* Where transaction k starts: a nested call of a writer that holds the lock
\* runs straight through, one of a writer that does not waits for it.
Start(w, k) ==
    IF cast[w].txs[k].nested /\ holder # w THEN "nested"
    ELSE IF cast[w].txs[k].begin THEN "begin" ELSE "write"

\* On to the next transaction of the call, or out of it.
Proceeds(w) ==
    IF at[w].k < Len(cast[w].txs)
    THEN /\ Goes(w, Start(w, at[w].k + 1), at[w].k + 1, 1)
         /\ UNCHANGED <<outcome, holder, importer>>
    ELSE Ends(w, "returned")

----------------------------------------------------------------------------
Call(w) ==
    /\ at[w].pc = "idle"
    /\ Goes(w, IF cast[w].lock = "none" THEN Start(w, 1) ELSE "lock", 1, 1)
    /\ UNCHANGED <<cast, outcome, holder, importer, conn, faults>>

AcquireNothing(w) ==                                         \* mutant
    /\ at[w].pc = "lock"
    /\ Goes(w, Start(w, 1), 1, 1)
    /\ UNCHANGED <<cast, outcome, holder, importer, conn, faults>>

Acquire(w) ==
    /\ at[w].pc = "lock"
    /\ \/ /\ cast[w].lock = "write"
          /\ holder = None
          /\ holder' = w
          /\ UNCHANGED importer
       \/ /\ cast[w].lock = "import"
          /\ importer = None
          /\ importer' = w
          /\ UNCHANGED holder
    /\ Goes(w, Start(w, 1), 1, 1)
    /\ UNCHANGED <<cast, outcome, conn, faults>>

AcquireNested(w) ==
    /\ at[w].pc = "nested"
    /\ holder = None
    /\ holder' = w
    /\ Goes(w, "write", at[w].k, 1)
    /\ UNCHANGED <<cast, outcome, importer, conn, faults>>

\* BEGIN, refused if anybody's statement has opened a transaction.
Begin(w) ==
    /\ at[w].pc = "begin"
    /\ open' = TRUE
    /\ Goes(w, IF open THEN "undo" ELSE "write", at[w].k, 1)
    /\ UNCHANGED <<cast, outcome, holder, importer, tx, durable, faults>>

Write(w) ==
    /\ at[w].pc = "write"
    /\ Insert(w)
    /\ IF at[w].i < Current(w).stmts
       THEN /\ Goes(w, "write", at[w].k, at[w].i + 1)
            /\ UNCHANGED <<outcome, holder, importer>>
       ELSE IF Current(w).commits
            THEN /\ Goes(w, "commit", at[w].k, at[w].i)
                 /\ UNCHANGED <<outcome, holder, importer>>
            ELSE Proceeds(w)
    /\ UNCHANGED <<cast, faults>>

\* A statement fails; the transaction it opened stays open.
WriteFails(w) ==
    /\ at[w].pc = "write"
    /\ Fault
    /\ open' = TRUE
    /\ IF Current(w).onError = "leave"
       THEN Ends(w, "raised")
       ELSE /\ Goes(w, "undo", at[w].k, at[w].i)
            /\ UNCHANGED <<outcome, holder, importer>>
    /\ UNCHANGED <<cast, tx, durable>>

Commit(w) ==
    /\ at[w].pc = "commit"
    /\ CommitAll
    /\ Proceeds(w)
    /\ UNCHANGED <<cast, faults>>

Undo(w) ==
    /\ at[w].pc = "undo"
    /\ RollbackAll
    /\ IF Current(w).onError = "swallow" THEN Proceeds(w) ELSE Ends(w, "raised")
    /\ UNCHANGED <<cast, faults>>

\* The task is cancelled at an await.  What it has asked of the connection is
\* done all the same; except Exception does not see the cancellation.
Cancelled(w) ==
    /\ at[w].pc \notin {"idle", "ended"}
    /\ Fault
    /\ CASE at[w].pc = "write" -> Insert(w)
         [] at[w].pc = "commit" -> CommitAll
         [] at[w].pc = "undo" -> RollbackAll
         [] at[w].pc = "begin" -> open' = TRUE /\ UNCHANGED <<tx, durable>>
         [] OTHER -> UNCHANGED conn
    /\ Ends(w, "cut")
    /\ UNCHANGED cast

\* The process dies, and SQLite forgets what was not committed.
Crash ==
    /\ Fault
    /\ RollbackAll
    /\ holder' = None
    /\ importer' = None
    /\ at' = [w \in Writers |->
                IF at[w].pc = "idle" THEN at[w] ELSE [at[w] EXCEPT !.pc = "ended"]]
    /\ outcome' = [w \in Writers |->
                     IF at[w].pc \in {"idle", "ended"} THEN outcome[w] ELSE "lost"]
    /\ UNCHANGED cast

Step(w) ==
    \/ Acquire(w) \/ AcquireNested(w) \/ Begin(w)
    \/ Write(w) \/ WriteFails(w) \/ Commit(w) \/ Undo(w)

Next == Crash \/ \E w \in Writers : Call(w) \/ Step(w) \/ Cancelled(w)

\* asyncio.Lock serves its waiters in order, and the connection's thread
\* answers every request.
Spec == Init /\ [][Next]_vars /\ \A w \in Writers : SF_vars(Step(w))

----------------------------------------------------------------------------
\* Every variable keeps its type.
TypeOK ==
    /\ cast \in Casts
    /\ at \in [Writers -> At]
    /\ outcome \in [Writers -> {"none", "returned", "raised", "cut", "lost"}]
    /\ holder \in Writers \cup {None}
    /\ importer \in Writers \cup {None}
    /\ tx \subseteq Writers \X (1..2) \X (1..3)
    /\ open \in BOOLEAN
    /\ durable \subseteq Writers \X (1..2) \X (1..3)
    /\ faults \in 0..MaxFaults

Stored(w, k) == {i \in 1..cast[w].txs[k].stmts : <<w, k, i>> \in durable}
Whole(w, k) == 1..cast[w].txs[k].stmts

\* All the writers take one lock: the case db.write is made for, and that of
\* two imports.
OneLock == \E lock \in {"write", "import"} : \A w \in Writers : cast[w].lock = lock

\* Among writers of one lock, a transaction that is rolled back on failure is
\* on disk as a whole or not at all, through failures of its own and of
\* others, cancellations of others and crashes; a call that returned has
\* stored everything (index entries apart), one that raised nothing more.
AllOrNothing ==
    /\ TypeOK
    /\ OneLock =>
           \A w \in Writers : \A k \in 1..Len(cast[w].txs) :
               LET t == cast[w].txs[k]
               IN  /\ outcome[w] # "cut" /\ t.onError # "leave"
                        => Stored(w, k) \in {{}, Whole(w, k)}
                   /\ outcome[w] = "returned" /\ ~t.nested
                        => Stored(w, k) = Whole(w, k)
                   /\ outcome[w] = "raised" /\ t.onError = "undo" /\ k = at[w].k
                        => Stored(w, k) = {}

\* A call comes to an end, whatever locks it takes inside which.
EveryWriteEnds ==
    \A w \in Writers : (at[w].pc # "idle") ~> (at[w].pc = "ended")

\* One coroutine's transaction never holds another's statements.  db.py: "each
\* coroutine either does the implicit BEGIN itself or waits until the previous
\* one has committed / rolled back".
Serialised == \A p, q \in tx : p[1] = q[1]
=============================================================================
