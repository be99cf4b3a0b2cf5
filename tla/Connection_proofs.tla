-------------------------- MODULE Connection_proofs --------------------------
(***************************************************************************)
(* For any number of writers, whatever they call: the types, and that      *)
(* among writers of one lock a transaction is on disk as a whole or not at *)
(* all.                                                                    *)
(***************************************************************************)
EXTENDS Connection, TLAPS

OnErrors == {"undo", "swallow", "leave"}

Txs == [stmts : 1..3, onError : OnErrors, begin : BOOLEAN, commits : BOOLEAN, nested : BOOLEAN]

TypeInv == TypeOK /\ \A w \in Writers : at[w].k \in 1..Len(cast[w].txs)

\* What a writer's transaction k has in the connection's, uncommitted.
Held(w, k) == {i \in 1..cast[w].txs[k].stmts : <<w, k, i>> \in tx}

Active(w) == at[w].pc \notin {"idle", "lock", "ended"}

Owns(w) == IF cast[w].lock = "write" THEN holder = w ELSE importer = w

\* Whoever is past its lock holds it, and so needs none for a nested call.
OwnerInv == OneLock => \A w \in Writers : Active(w) => Owns(w) /\ at[w].pc # "nested"

\* A transaction that has ended well, and one that left no trace.
Done(w, k) ==
    /\ Held(w, k) = {}
    /\ Stored(w, k) = Whole(w, k) \/ (cast[w].txs[k].nested /\ Stored(w, k) = {})

Absent(w, k) == Held(w, k) = {} /\ Stored(w, k) = {}

\* What the transaction that a call is at has in the connection and on disk.
CurrentInv(w, k) ==
    /\ at[w].pc \in {"idle", "lock", "nested", "begin"} => Absent(w, k)
    /\ at[w].pc = "write" => Held(w, k) = 1..(at[w].i - 1) /\ Stored(w, k) = {}
                             /\ at[w].i \in Whole(w, k)
    /\ at[w].pc = "commit" => Held(w, k) = Whole(w, k) /\ Stored(w, k) = {}
    /\ at[w].pc = "undo" => Stored(w, k) = {}
    /\ outcome[w] = "returned" => Done(w, k)
    /\ outcome[w] = "lost" => Absent(w, k)
    /\ outcome[w] = "raised" => Absent(w, k) \/ cast[w].txs[k].onError = "leave"

CallInv(w) ==
    /\ outcome[w] = "none" <=> at[w].pc # "ended"
    /\ outcome[w] = "returned" => at[w].k = Len(cast[w].txs)
    /\ at[w].pc \in {"idle", "lock"} => at[w].k = 1
    /\ outcome[w] # "cut" => \A k \in 1..Len(cast[w].txs) :
          /\ k < at[w].k => Done(w, k)
          /\ k = at[w].k => CurrentInv(w, k)
          /\ k > at[w].k => Absent(w, k)

CallsInv == OneLock => \A w \in Writers : CallInv(w)

IInv == TypeInv /\ OwnerInv /\ CallsInv

-----------------------------------------------------------------------------
(* What the functions have in common. *)

LEMMA TxShape ==
  ASSUME NEW n \in 1..3, NEW e \in OnErrors
  PROVE  /\ Tx(n, e) \in Txs
         /\ Tx(n, e).commits /\ ~Tx(n, e).nested /\ Tx(n, e).onError = e
  BY DEF Tx, Txs

LEMMA NestedShape ==
  ASSUME NEW n \in 1..3
  PROVE  Nested(n) \in Txs /\ Nested(n).commits /\ Nested(n).nested /\ Nested(n).onError = "swallow"
  BY DEF Nested, Tx, Txs, OnErrors

LEMMA BegunShape ==
  ASSUME NEW n \in 1..3
  PROVE  Begun(n) \in Txs /\ Begun(n).commits /\ ~Begun(n).nested /\ Begun(n).onError = "undo"
  BY DEF Begun, Tx, Txs, OnErrors

\* The first transaction of a call is its own; the nested ones, which are the
\* ones that swallow, and those that do not commit take another lock, or none.
Shaped(f) ==
    /\ Len(f.txs) \in 1..2
    /\ ~f.txs[1].nested
    /\ \A k \in 1..Len(f.txs) :
           /\ f.txs[k] \in Txs
           /\ f.txs[k].nested <=> f.txs[k].onError = "swallow"
           /\ f.lock # "none" => f.txs[k].commits
           /\ f.lock = "import" => ~f.txs[k].nested

LEMMA FunctionShape == \A f \in Functions : Shaped(f)
<1>1. \A n \in 1..3 : /\ Shaped([lock |-> "write", txs |-> <<Tx(n, "leave")>>])
                       /\ Shaped([lock |-> "write", txs |-> <<Tx(n, "undo")>>])
                       /\ Shaped([lock |-> "none", txs |-> <<Tx(n, "leave")>>])
                       /\ Shaped([lock |-> "none", txs |-> <<Begun(n)>>])
  <2> SUFFICES ASSUME NEW n \in 1..3
               PROVE  /\ Shaped([lock |-> "write", txs |-> <<Tx(n, "leave")>>])
                      /\ Shaped([lock |-> "write", txs |-> <<Tx(n, "undo")>>])
                      /\ Shaped([lock |-> "none", txs |-> <<Tx(n, "leave")>>])
                      /\ Shaped([lock |-> "none", txs |-> <<Begun(n)>>])
    OBVIOUS
  <2>1. {"leave", "undo"} \subseteq OnErrors
    BY DEF OnErrors
  <2>2. Shaped([lock |-> "write", txs |-> <<Tx(n, "leave")>>])
    BY TxShape, <2>1 DEF Shaped
  <2>3. Shaped([lock |-> "write", txs |-> <<Tx(n, "undo")>>])
    BY TxShape, <2>1 DEF Shaped
  <2>4. Shaped([lock |-> "none", txs |-> <<Tx(n, "leave")>>])
    BY TxShape, <2>1 DEF Shaped
  <2>5. Shaped([lock |-> "none", txs |-> <<Begun(n)>>])
    BY BegunShape DEF Shaped
  <2> QED
    BY <2>2, <2>3, <2>4, <2>5
<1>2. \A n, m \in 1..3 : /\ Shaped([lock |-> "write", txs |-> <<Tx(n, "leave"), Nested(m)>>])
                          /\ Shaped([lock |-> "write", txs |-> <<Tx(n, "undo"), Nested(m)>>])
                          /\ Shaped([lock |-> "none", txs |-> <<Tx(n, "leave"), Nested(m)>>])
                          /\ Shaped([lock |-> "import", txs |-> <<Begun(n), Begun(m)>>])
  <2> SUFFICES ASSUME NEW n \in 1..3, NEW m \in 1..3
               PROVE  /\ Shaped([lock |-> "write", txs |-> <<Tx(n, "leave"), Nested(m)>>])
                      /\ Shaped([lock |-> "write", txs |-> <<Tx(n, "undo"), Nested(m)>>])
                      /\ Shaped([lock |-> "none", txs |-> <<Tx(n, "leave"), Nested(m)>>])
                      /\ Shaped([lock |-> "import", txs |-> <<Begun(n), Begun(m)>>])
    OBVIOUS
  <2>1. {"leave", "undo"} \subseteq OnErrors
    BY DEF OnErrors
  <2>2. Shaped([lock |-> "write", txs |-> <<Tx(n, "leave"), Nested(m)>>])
    BY TxShape, NestedShape, <2>1 DEF Shaped
  <2>3. Shaped([lock |-> "write", txs |-> <<Tx(n, "undo"), Nested(m)>>])
    BY TxShape, NestedShape, <2>1 DEF Shaped
  <2>4. Shaped([lock |-> "none", txs |-> <<Tx(n, "leave"), Nested(m)>>])
    BY TxShape, NestedShape, <2>1 DEF Shaped
  <2>5. Shaped([lock |-> "import", txs |-> <<Begun(n), Begun(m)>>])
    BY BegunShape DEF Shaped
  <2> QED
    BY <2>2, <2>3, <2>4, <2>5
<1>3. Shaped(messages_append) /\ Shaped(chat_update)
  BY <1>2 DEF messages_append, chat_update
<1>4. Shaped(messages_batch) /\ Shaped(chat_delete)
  BY <1>2 DEF messages_batch, chat_delete
<1>5. Shaped(chats_reorder) /\ Shaped(ai_machine_activate)
  BY <1>1 DEF chats_reorder, ai_machine_activate
<1>6. Shaped(ai_machine_delete) /\ Shaped(subagent_record)
  BY <1>1 DEF ai_machine_delete, subagent_record
<1>7. Shaped(usage_import) /\ Shaped(orchestrator_delete)
  BY <1>1, <1>2 DEF usage_import, orchestrator_delete
<1>8. Shaped(queue_add) /\ Shaped(chat_fork)
  BY <1>1, <1>2 DEF queue_add, chat_fork
<1>9. Shaped(chat_fork_empty)
  <2> DEFINE t == [Tx(1, "leave") EXCEPT !.commits = FALSE]
  <2>1. t \in Txs /\ ~t.nested /\ t.onError = "leave"
    <3>1. \A b \in Txs : LET c == [b EXCEPT !.commits = FALSE]
                         IN  c \in Txs /\ c.nested = b.nested /\ c.onError = b.onError
      BY DEF Txs
    <3>2. "leave" \in OnErrors
      BY DEF OnErrors
    <3> QED
      BY <3>1, <3>2, TxShape
  <2>2. chat_fork_empty = [lock |-> "none", txs |-> <<t>>]
    BY DEF chat_fork_empty
  <2> HIDE DEF t
  <2>3. Shaped([lock |-> "none", txs |-> <<t>>])
    BY <2>1 DEF Shaped
  <2> QED
    BY <2>2, <2>3
<1> QED
  BY <1>3, <1>4, <1>5, <1>6, <1>7, <1>8, <1>9 DEF Functions

LEMMA CallShape ==
  ASSUME TypeInv, NEW w \in Writers
  PROVE  /\ Shaped(cast[w])
         /\ at[w] \in At /\ at[w].k \in 1..Len(cast[w].txs)
         /\ Len(cast[w].txs) \in 1..2
         /\ \A k \in 1..Len(cast[w].txs) : cast[w].txs[k].stmts \in 1..3
  BY FunctionShape, CastsAreCalls DEF TypeInv, TypeOK, CastsAreCalls, Shaped, Txs

-----------------------------------------------------------------------------
(* Types. *)

LEMMA TypeInit == Init => TypeInv
<1> SUFFICES ASSUME Init PROVE TypeInv
  OBVIOUS
<1>1. TypeOK
  <2>1. [pc |-> "idle", k |-> 1, i |-> 1] \in At
    BY DEF At
  <2>2. at \in [Writers -> At] /\ outcome \in [Writers -> {"none", "returned", "raised", "cut", "lost"}]
    BY <2>1 DEF Init
  <2>3. holder \in Writers \cup {None} /\ importer \in Writers \cup {None} /\ faults \in 0..MaxFaults
    BY FaultsBound DEF FaultsBound, Init
  <2>4. tx = {} /\ durable = {} /\ open = FALSE /\ cast \in Casts
    BY DEF Init
  <2> QED
    BY <2>2, <2>3, <2>4 DEF TypeOK
<1>2. \A w \in Writers : at[w].k \in 1..Len(cast[w].txs)
  BY FunctionShape, CastsAreCalls DEF CastsAreCalls, Init, Shaped
<1> QED
  BY <1>1, <1>2 DEF TypeInv

\* Where a call goes, and that the others stay where they are.
LEMMA GoesTo ==
  ASSUME TypeInv, NEW w \in Writers, NEW pc, NEW k, NEW i, Goes(w, pc, k, i),
         [pc |-> pc, k |-> k, i |-> i] \in At, k \in 1..Len(cast[w].txs), cast' = cast
  PROVE  /\ at' \in [Writers -> At]
         /\ at'[w].pc = pc /\ at'[w].k = k /\ at'[w].i = i
         /\ \A v \in Writers \ {w} : at'[v] = at[v]
         /\ \A v \in Writers : at'[v].k \in 1..Len(cast'[v].txs)
<1>1. at' = [at EXCEPT ![w] = [pc |-> pc, k |-> k, i |-> i]] /\ at \in [Writers -> At]
  BY DEF Goes, TypeInv, TypeOK
<1>2. at'[w] = [pc |-> pc, k |-> k, i |-> i] /\ \A v \in Writers \ {w} : at'[v] = at[v]
  BY <1>1
<1>3. at' \in [Writers -> At]
  BY <1>1
<1>4. \A v \in Writers : at'[v].k \in 1..Len(cast'[v].txs)
  BY <1>2 DEF TypeInv
<1> QED
  BY <1>2, <1>3, <1>4

Outcomes == {"none", "returned", "raised", "cut", "lost"}

\* What a call, and a whole step of writer w, does to the variables of the calls.
CallTypes ==
    /\ at \in [Writers -> At]
    /\ outcome \in [Writers -> Outcomes]
    /\ holder \in Writers \cup {None}
    /\ importer \in Writers \cup {None}
    /\ \A w \in Writers : at[w].k \in 1..Len(cast[w].txs)

ConnTypes ==
    /\ tx \subseteq Writers \X (1..2) \X (1..3)
    /\ open \in BOOLEAN
    /\ durable \subseteq Writers \X (1..2) \X (1..3)

LEMMA TypeParts == TypeInv <=> cast \in Casts /\ CallTypes /\ ConnTypes /\ faults \in 0..MaxFaults
  BY DEF TypeInv, TypeOK, CallTypes, ConnTypes, Outcomes

Others(w) == \A v \in Writers \ {w} : at'[v] = at[v] /\ outcome'[v] = outcome[v]

\* Writer w is somewhere else in its call, which goes on; and it is out of it.
Moved(w, pc, k, i) ==
    /\ at'[w].pc = pc /\ at'[w].k = k /\ at'[w].i = i
    /\ UNCHANGED <<outcome, holder, importer>>
    /\ Others(w)

Ended(w, how) ==
    /\ at'[w].pc = "ended" /\ at'[w].k = at[w].k
    /\ outcome'[w] = how
    /\ holder' = IF holder = w THEN None ELSE holder
    /\ importer' = IF importer = w THEN None ELSE importer
    /\ Others(w)

LEMMA GoesMoves ==
  ASSUME TypeInv, NEW w \in Writers, NEW pc, NEW k, NEW i, Goes(w, pc, k, i),
         [pc |-> pc, k |-> k, i |-> i] \in At, k \in 1..Len(cast[w].txs), cast' = cast,
         UNCHANGED <<outcome, holder, importer>>
  PROVE  CallTypes' /\ Moved(w, pc, k, i)
<1>1. /\ at' \in [Writers -> At]
      /\ at'[w].pc = pc /\ at'[w].k = k /\ at'[w].i = i
      /\ \A v \in Writers \ {w} : at'[v] = at[v]
      /\ \A v \in Writers : at'[v].k \in 1..Len(cast'[v].txs)
  BY GoesTo
<1> QED
  BY <1>1, TypeParts DEF CallTypes, Moved, Others

\* The same where only the two locks are touched as well.
LEMMA GoesTypes ==
  ASSUME TypeInv, NEW w \in Writers, NEW pc, NEW k, NEW i, Goes(w, pc, k, i),
         [pc |-> pc, k |-> k, i |-> i] \in At, k \in 1..Len(cast[w].txs), cast' = cast,
         outcome' = outcome,
         holder' \in Writers \cup {None}, importer' \in Writers \cup {None}
  PROVE  CallTypes' /\ at'[w].pc = pc /\ at'[w].k = k /\ at'[w].i = i /\ Others(w)
<1>1. /\ at' \in [Writers -> At]
      /\ at'[w].pc = pc /\ at'[w].k = k /\ at'[w].i = i
      /\ \A v \in Writers \ {w} : at'[v] = at[v]
      /\ \A v \in Writers : at'[v].k \in 1..Len(cast'[v].txs)
  BY GoesTo
<1> QED
  BY <1>1, TypeParts DEF CallTypes, Others

LEMMA EndsEnds ==
  ASSUME TypeInv, NEW w \in Writers, NEW how \in Outcomes, Ends(w, how), cast' = cast
  PROVE  CallTypes' /\ Ended(w, how)
<1>1. [pc |-> "ended", k |-> at[w].k, i |-> at[w].i] \in At
  BY CallShape DEF At
<1>2. at[w].k \in 1..Len(cast[w].txs)
  BY CallShape
<1>3. Goes(w, "ended", at[w].k, at[w].i)
  BY DEF Ends
<1>4. /\ at' \in [Writers -> At]
      /\ at'[w].pc = "ended" /\ at'[w].k = at[w].k
      /\ \A v \in Writers \ {w} : at'[v] = at[v]
      /\ \A v \in Writers : at'[v].k \in 1..Len(cast'[v].txs)
  BY <1>1, <1>2, <1>3, GoesTo
<1>5. outcome' = [outcome EXCEPT ![w] = how] /\ outcome \in [Writers -> Outcomes]
  BY TypeParts DEF Ends, CallTypes
<1>6. /\ holder' = IF holder = w THEN None ELSE holder
      /\ importer' = IF importer = w THEN None ELSE importer
  BY DEF Ends
<1>7. holder' \in Writers \cup {None} /\ importer' \in Writers \cup {None}
  BY <1>6, TypeParts DEF CallTypes
<1> QED
  BY <1>4, <1>5, <1>6, <1>7 DEF CallTypes, Ended, Others

\* Where a transaction starts.
LEMMA Starts ==
  ASSUME TypeInv, NEW w \in Writers, NEW k \in 1..Len(cast[w].txs)
  PROVE  /\ Start(w, k) \in {"nested", "begin", "write"}
         /\ Start(w, k) = "nested" => cast[w].txs[k].nested /\ holder # w
         /\ [pc |-> Start(w, k), k |-> k, i |-> 1] \in At
<1>1. /\ Start(w, k) \in {"nested", "begin", "write"}
      /\ Start(w, k) = "nested" => cast[w].txs[k].nested /\ holder # w
  BY DEF Start
<1>2. k \in 1..2
  BY CallShape
<1> QED
  BY <1>1, <1>2 DEF At

LEMMA ProceedsMoves ==
  ASSUME TypeInv, NEW w \in Writers, Proceeds(w), cast' = cast
  PROVE  /\ CallTypes'
         /\ \/ /\ at[w].k + 1 \in 1..Len(cast[w].txs)
               /\ Moved(w, Start(w, at[w].k + 1), at[w].k + 1, 1)
            \/ at[w].k = Len(cast[w].txs) /\ Ended(w, "returned")
<1>1. at[w].k \in 1..Len(cast[w].txs) /\ Len(cast[w].txs) \in 1..2
  BY CallShape
<1>2. CASE at[w].k < Len(cast[w].txs)
  <2>1. at[w].k + 1 \in 1..Len(cast[w].txs)
    BY <1>1, <1>2
  <2>2. [pc |-> Start(w, at[w].k + 1), k |-> at[w].k + 1, i |-> 1] \in At
    BY <2>1, Starts
  <2>3. Goes(w, Start(w, at[w].k + 1), at[w].k + 1, 1) /\ UNCHANGED <<outcome, holder, importer>>
    BY <1>2 DEF Proceeds
  <2>4. CallTypes' /\ Moved(w, Start(w, at[w].k + 1), at[w].k + 1, 1)
    BY <2>1, <2>2, <2>3, GoesMoves
  <2> QED
    BY <2>1, <2>4
<1>3. CASE at[w].k >= Len(cast[w].txs)
  <2>1. at[w].k = Len(cast[w].txs) /\ Ends(w, "returned")
    BY <1>1, <1>3 DEF Proceeds
  <2>2. "returned" \in Outcomes
    BY DEF Outcomes
  <2> QED
    BY <2>1, <2>2, EndsEnds
<1> QED
  BY <1>1, <1>2, <1>3

-----------------------------------------------------------------------------
(* What each step does. *)

LEMMA StatementType ==
  ASSUME TypeInv, NEW w \in Writers
  PROVE  Statement(w) \in Writers \X (1..2) \X (1..3)
  BY CallShape DEF Statement, At

LEMMA CallMoves ==
  ASSUME TypeInv, NEW w \in Writers, Call(w)
  PROVE  /\ CallTypes' /\ UNCHANGED <<cast, conn, faults>>
         /\ at[w].pc = "idle"
         /\ Moved(w, IF cast[w].lock = "none" THEN Start(w, 1) ELSE "lock", 1, 1)
<1> DEFINE pc == IF cast[w].lock = "none" THEN Start(w, 1) ELSE "lock"
<1>1. 1 \in 1..Len(cast[w].txs)
  BY CallShape
<1>2. [pc |-> pc, k |-> 1, i |-> 1] \in At
  <2>1. [pc |-> "lock", k |-> 1, i |-> 1] \in At
    BY DEF At
  <2> QED
    BY <1>1, <2>1, Starts
<1>3. Goes(w, pc, 1, 1) /\ UNCHANGED <<cast, outcome, holder, importer, conn, faults>> /\ at[w].pc = "idle"
  BY DEF Call
<1> HIDE DEF pc
<1>4. CallTypes' /\ Moved(w, pc, 1, 1)
  BY <1>1, <1>2, <1>3, GoesMoves
<1> QED
  BY <1>3, <1>4 DEF pc

LEMMA AcquireMoves ==
  ASSUME TypeInv, NEW w \in Writers, Acquire(w)
  PROVE  /\ CallTypes' /\ UNCHANGED <<cast, conn, outcome, faults>> /\ Others(w)
         /\ at[w].pc = "lock"
         /\ at'[w].pc = Start(w, 1) /\ at'[w].k = 1 /\ at'[w].i = 1
         /\ \/ cast[w].lock = "write" /\ holder = None /\ holder' = w /\ UNCHANGED importer
            \/ cast[w].lock = "import" /\ importer = None /\ importer' = w /\ UNCHANGED holder
<1>1. 1 \in 1..Len(cast[w].txs)
  BY CallShape
<1>2. [pc |-> Start(w, 1), k |-> 1, i |-> 1] \in At
  BY <1>1, Starts
<1>3. /\ Goes(w, Start(w, 1), 1, 1) /\ UNCHANGED <<cast, outcome, conn, faults>> /\ at[w].pc = "lock"
      /\ \/ cast[w].lock = "write" /\ holder = None /\ holder' = w /\ UNCHANGED importer
         \/ cast[w].lock = "import" /\ importer = None /\ importer' = w /\ UNCHANGED holder
  BY DEF Acquire
<1>4. holder' \in Writers \cup {None} /\ importer' \in Writers \cup {None}
  BY <1>3, TypeParts DEF CallTypes
<1>5. /\ CallTypes' /\ Others(w)
      /\ at'[w].pc = Start(w, 1) /\ at'[w].k = 1 /\ at'[w].i = 1
  BY <1>1, <1>2, <1>3, <1>4, GoesTypes
<1> QED
  BY <1>3, <1>5

LEMMA AcquireNestedMoves ==
  ASSUME TypeInv, NEW w \in Writers, AcquireNested(w)
  PROVE  /\ CallTypes' /\ UNCHANGED <<cast, conn, faults>>
         /\ at[w].pc = "nested"
<1>1. at[w].k \in 1..Len(cast[w].txs) /\ at[w].k \in 1..2
  BY CallShape
<1>2. [pc |-> "write", k |-> at[w].k, i |-> 1] \in At
  BY <1>1 DEF At
<1>3. /\ Goes(w, "write", at[w].k, 1) /\ holder' = w /\ at[w].pc = "nested"
      /\ UNCHANGED <<cast, outcome, importer, conn, faults>>
  BY DEF AcquireNested
<1>4. holder' \in Writers \cup {None} /\ importer' \in Writers \cup {None}
  BY <1>3, TypeParts DEF CallTypes
<1> QED
  BY <1>1, <1>2, <1>3, <1>4, GoesTypes

LEMMA BeginMoves ==
  ASSUME TypeInv, NEW w \in Writers, Begin(w)
  PROVE  /\ CallTypes' /\ ConnTypes' /\ UNCHANGED <<cast, tx, durable, faults>>
         /\ at[w].pc = "begin"
         /\ Moved(w, "undo", at[w].k, 1) \/ Moved(w, "write", at[w].k, 1)
<1> DEFINE pc == IF open THEN "undo" ELSE "write"
<1>1. at[w].k \in 1..Len(cast[w].txs) /\ at[w].k \in 1..2
  BY CallShape
<1>2. [pc |-> pc, k |-> at[w].k, i |-> 1] \in At
  BY <1>1 DEF At
<1>3. /\ Goes(w, pc, at[w].k, 1) /\ at[w].pc = "begin" /\ open' = TRUE
      /\ UNCHANGED <<cast, outcome, holder, importer, tx, durable, faults>>
  BY DEF Begin
<1>4. ConnTypes'
  BY <1>3, TypeParts DEF ConnTypes
<1>5. pc \in {"undo", "write"}
  OBVIOUS
<1> HIDE DEF pc
<1>6. CallTypes' /\ Moved(w, pc, at[w].k, 1)
  BY <1>1, <1>2, <1>3, GoesMoves
<1> QED
  BY <1>3, <1>4, <1>5, <1>6

\* What can be said of a call that goes on or returns.
Goes_on(w) ==
    \/ /\ at[w].k + 1 \in 1..Len(cast[w].txs)
       /\ Moved(w, Start(w, at[w].k + 1), at[w].k + 1, 1)
    \/ at[w].k = Len(cast[w].txs) /\ Ended(w, "returned")

LEMMA WriteMoves ==
  ASSUME TypeInv, NEW w \in Writers, Write(w)
  PROVE  /\ CallTypes' /\ ConnTypes' /\ UNCHANGED <<cast, faults>> /\ Insert(w)
         /\ at[w].pc = "write"
         /\ \/ at[w].i < Current(w).stmts /\ Moved(w, "write", at[w].k, at[w].i + 1)
            \/ at[w].i >= Current(w).stmts /\ Moved(w, "commit", at[w].k, at[w].i)
            \/ ~Current(w).commits /\ Goes_on(w)
<1>1. /\ at[w].k \in 1..Len(cast[w].txs) /\ at[w].k \in 1..2 /\ at[w].i \in 1..3
      /\ Current(w).stmts \in 1..3
  BY CallShape DEF At, Current
<1>2. Insert(w) /\ UNCHANGED <<cast, faults>> /\ at[w].pc = "write"
  BY DEF Write
<1>3. ConnTypes'
  BY <1>2, StatementType, TypeParts DEF ConnTypes, Insert
<1>4. CASE at[w].i < Current(w).stmts
  <2>1. [pc |-> "write", k |-> at[w].k, i |-> at[w].i + 1] \in At
    BY <1>1, <1>4 DEF At
  <2>2. Goes(w, "write", at[w].k, at[w].i + 1) /\ UNCHANGED <<outcome, holder, importer>>
    BY <1>4 DEF Write
  <2>3. CallTypes' /\ Moved(w, "write", at[w].k, at[w].i + 1)
    BY <1>1, <1>2, <2>1, <2>2, GoesMoves
  <2> QED
    BY <1>2, <1>3, <1>4, <2>3
<1>5. CASE at[w].i >= Current(w).stmts /\ Current(w).commits
  <2>1. [pc |-> "commit", k |-> at[w].k, i |-> at[w].i] \in At
    BY <1>1 DEF At
  <2>2. Goes(w, "commit", at[w].k, at[w].i) /\ UNCHANGED <<outcome, holder, importer>>
    BY <1>1, <1>5 DEF Write
  <2>3. CallTypes' /\ Moved(w, "commit", at[w].k, at[w].i)
    BY <1>1, <1>2, <2>1, <2>2, GoesMoves
  <2> QED
    BY <1>2, <1>3, <1>5, <2>3
<1>6. CASE at[w].i >= Current(w).stmts /\ ~Current(w).commits
  <2>1. Proceeds(w)
    BY <1>1, <1>6 DEF Write
  <2> QED
    BY <1>2, <1>3, <1>6, <2>1, ProceedsMoves DEF Goes_on
<1> QED
  BY <1>1, <1>4, <1>5, <1>6

LEMMA WriteFailsMoves ==
  ASSUME TypeInv, NEW w \in Writers, WriteFails(w)
  PROVE  /\ CallTypes' /\ ConnTypes' /\ UNCHANGED <<cast, tx, durable>> /\ Fault
         /\ at[w].pc = "write"
         /\ \/ Current(w).onError = "leave" /\ Ended(w, "raised")
            \/ Current(w).onError # "leave" /\ Moved(w, "undo", at[w].k, at[w].i)
<1>1. at[w].k \in 1..Len(cast[w].txs) /\ at[w].k \in 1..2 /\ at[w].i \in 1..3
  BY CallShape DEF At
<1>2. open' = TRUE /\ UNCHANGED <<cast, tx, durable>> /\ at[w].pc = "write" /\ Fault
  BY DEF WriteFails
<1>3. ConnTypes'
  BY <1>2, TypeParts DEF ConnTypes
<1>4. CASE Current(w).onError = "leave"
  <2>1. Ends(w, "raised") /\ "raised" \in Outcomes
    BY <1>4 DEF WriteFails, Outcomes
  <2> QED
    BY <1>2, <1>3, <1>4, <2>1, EndsEnds
<1>5. CASE Current(w).onError # "leave"
  <2>1. [pc |-> "undo", k |-> at[w].k, i |-> at[w].i] \in At
    BY <1>1 DEF At
  <2>2. Goes(w, "undo", at[w].k, at[w].i) /\ UNCHANGED <<outcome, holder, importer>>
    BY <1>5 DEF WriteFails
  <2>3. CallTypes' /\ Moved(w, "undo", at[w].k, at[w].i)
    BY <1>1, <1>2, <2>1, <2>2, GoesMoves
  <2> QED
    BY <1>2, <1>3, <1>5, <2>3
<1> QED
  BY <1>4, <1>5

LEMMA EndOfTx ==
  ASSUME TypeInv, CommitAll \/ RollbackAll
  PROVE  ConnTypes'
  BY TypeParts DEF ConnTypes, CommitAll, RollbackAll

LEMMA CommitMoves ==
  ASSUME TypeInv, NEW w \in Writers, Commit(w)
  PROVE  /\ CallTypes' /\ ConnTypes' /\ UNCHANGED <<cast, faults>> /\ CommitAll
         /\ at[w].pc = "commit" /\ Goes_on(w)
<1>1. CommitAll /\ Proceeds(w) /\ UNCHANGED <<cast, faults>> /\ at[w].pc = "commit"
  BY DEF Commit
<1> QED
  BY <1>1, EndOfTx, ProceedsMoves DEF Goes_on

LEMMA UndoMoves ==
  ASSUME TypeInv, NEW w \in Writers, Undo(w)
  PROVE  /\ CallTypes' /\ ConnTypes' /\ UNCHANGED <<cast, faults>> /\ RollbackAll
         /\ at[w].pc = "undo"
         /\ \/ Current(w).onError = "swallow" /\ Goes_on(w)
            \/ Ended(w, "raised")
<1>1. RollbackAll /\ UNCHANGED <<cast, faults>> /\ at[w].pc = "undo"
  BY DEF Undo
<1>2. CASE Current(w).onError = "swallow"
  <2>1. Proceeds(w)
    BY <1>2 DEF Undo
  <2> QED
    BY <1>1, <1>2, <2>1, EndOfTx, ProceedsMoves DEF Goes_on
<1>3. CASE Current(w).onError # "swallow"
  <2>1. Ends(w, "raised") /\ "raised" \in Outcomes
    BY <1>3 DEF Undo, Outcomes
  <2> QED
    BY <1>1, <2>1, EndOfTx, EndsEnds
<1> QED
  BY <1>2, <1>3

LEMMA CancelledMoves ==
  ASSUME TypeInv, NEW w \in Writers, Cancelled(w)
  PROVE  /\ CallTypes' /\ ConnTypes' /\ UNCHANGED cast /\ Fault
         /\ at[w].pc \notin {"idle", "ended"}
         /\ Ended(w, "cut")
         /\ \/ at[w].pc = "write" /\ Insert(w)
            \/ at[w].pc = "commit" /\ CommitAll
            \/ at[w].pc = "undo" /\ RollbackAll
            \/ UNCHANGED <<tx, durable>>
<1>1. Ends(w, "cut") /\ UNCHANGED cast /\ at[w].pc \notin {"idle", "ended"} /\ "cut" \in Outcomes /\ Fault
  BY DEF Cancelled, Outcomes
<1>2. \/ at[w].pc = "write" /\ Insert(w)
      \/ at[w].pc = "commit" /\ CommitAll
      \/ at[w].pc = "undo" /\ RollbackAll
      \/ open' \in BOOLEAN /\ UNCHANGED <<tx, durable>>
  <2>1. CASE at[w].pc = "write"
    BY <2>1 DEF Cancelled
  <2>2. CASE at[w].pc = "commit"
    BY <2>2 DEF Cancelled
  <2>3. CASE at[w].pc = "undo"
    BY <2>3 DEF Cancelled
  <2>4. CASE at[w].pc = "begin"
    <3>1. open' = TRUE /\ UNCHANGED <<tx, durable>>
      BY <2>4 DEF Cancelled
    <3> QED
      BY <3>1
  <2>5. CASE at[w].pc \notin {"write", "commit", "undo", "begin"}
    <3>1. UNCHANGED conn
      BY <2>5 DEF Cancelled
    <3> QED
      BY <3>1, TypeParts DEF conn, ConnTypes
  <2> QED
    BY <2>1, <2>2, <2>3, <2>4, <2>5
<1>3. ConnTypes'
  <2>1. Insert(w) => ConnTypes'
    BY StatementType, TypeParts DEF ConnTypes, Insert
  <2>2. open' \in BOOLEAN /\ UNCHANGED <<tx, durable>> => ConnTypes'
    BY TypeParts DEF ConnTypes
  <2> QED
    BY <1>2, <2>1, <2>2, EndOfTx
<1> QED
  BY <1>1, <1>2, <1>3, EndsEnds

LEMMA CrashMoves ==
  ASSUME TypeInv, Crash
  PROVE  /\ CallTypes' /\ ConnTypes' /\ UNCHANGED cast /\ RollbackAll /\ Fault
         /\ \A w \in Writers :
               /\ at[w].pc \in {"idle", "ended"} => at'[w] = at[w] /\ outcome'[w] = outcome[w]
               /\ at[w].pc \notin {"idle", "ended"} =>
                      at'[w].pc = "ended" /\ at'[w].k = at[w].k /\ outcome'[w] = "lost"
<1> DEFINE after == [w \in Writers |->
                       IF at[w].pc = "idle" THEN at[w] ELSE [at[w] EXCEPT !.pc = "ended"]]
<1>1. /\ at' = after
      /\ outcome' = [w \in Writers |-> IF at[w].pc \in {"idle", "ended"} THEN outcome[w] ELSE "lost"]
      /\ holder' = None /\ importer' = None /\ UNCHANGED cast /\ RollbackAll /\ Fault
  BY DEF Crash
<1>2. ASSUME NEW w \in Writers
      PROVE  /\ after[w] \in At /\ after[w].k = at[w].k
             /\ at[w].pc \in {"idle", "ended"} => after[w] = at[w]
             /\ at[w].pc # "idle" => after[w].pc = "ended"
  BY CallShape DEF At
<1>3. after \in [Writers -> At]
  BY <1>2
<1> HIDE DEF after
<1>4. outcome' \in [Writers -> Outcomes]
  BY <1>1, TypeParts DEF CallTypes, Outcomes
<1>5. \A w \in Writers : at'[w].k \in 1..Len(cast'[w].txs)
  BY <1>1, <1>2, CallShape
<1>6. CallTypes'
  BY <1>1, <1>3, <1>4, <1>5 DEF CallTypes
<1>7. ASSUME NEW w \in Writers
      PROVE  /\ at[w].pc \in {"idle", "ended"} => at'[w] = at[w] /\ outcome'[w] = outcome[w]
             /\ at[w].pc \notin {"idle", "ended"} =>
                    at'[w].pc = "ended" /\ at'[w].k = at[w].k /\ outcome'[w] = "lost"
  BY <1>1, <1>2
<1>8. RollbackAll /\ ConnTypes' /\ UNCHANGED cast /\ Fault
  BY <1>1, EndOfTx
<1> QED
  BY <1>6, <1>7, <1>8

-----------------------------------------------------------------------------
LEMMA TypeStep == TypeInv /\ [Next]_vars => TypeInv'
<1> SUFFICES ASSUME TypeInv, [Next]_vars PROVE TypeInv'
  OBVIOUS
<1>1. SUFFICES CallTypes' /\ ConnTypes' /\ UNCHANGED cast /\ (UNCHANGED faults \/ Fault)
  BY TypeParts, FaultsBound DEF FaultsBound, Fault, TypeInv, TypeOK, CallTypes, ConnTypes, Outcomes
<1>2. UNCHANGED conn => ConnTypes'
  BY TypeParts DEF conn, ConnTypes
<1>3. CASE UNCHANGED vars
  BY <1>3, TypeParts DEF vars, CallTypes, ConnTypes
<1>4. CASE Crash
  BY <1>4, CrashMoves
<1>5. ASSUME NEW w \in Writers, Call(w) PROVE CallTypes' /\ ConnTypes' /\ UNCHANGED <<cast, faults>>
  BY <1>2, <1>5, CallMoves
<1>6. ASSUME NEW w \in Writers, Cancelled(w) PROVE CallTypes' /\ ConnTypes' /\ UNCHANGED cast /\ Fault
  BY <1>6, CancelledMoves
<1>7. ASSUME NEW w \in Writers, Acquire(w) \/ AcquireNested(w)
      PROVE  CallTypes' /\ ConnTypes' /\ UNCHANGED <<cast, faults>>
  BY <1>2, <1>7, AcquireMoves, AcquireNestedMoves
<1>8. ASSUME NEW w \in Writers, Begin(w) \/ Write(w) \/ Commit(w) \/ Undo(w)
      PROVE  CallTypes' /\ ConnTypes' /\ UNCHANGED <<cast, faults>>
  BY <1>8, BeginMoves, WriteMoves, CommitMoves, UndoMoves
<1>9. ASSUME NEW w \in Writers, WriteFails(w) PROVE CallTypes' /\ ConnTypes' /\ UNCHANGED cast /\ Fault
  BY <1>9, WriteFailsMoves
<1> QED
  BY <1>3, <1>4, <1>5, <1>6, <1>7, <1>8, <1>9 DEF Next, Step

-----------------------------------------------------------------------------
(* Who holds the lock. *)

\* At most one writer of the one lock is past it.
LEMMA Alone ==
  ASSUME OneLock, OwnerInv, NEW w \in Writers, Active(w), NEW v \in Writers, Active(v)
  PROVE  v = w
  BY DEF OneLock, OwnerInv, Owns

LEMMA OneLockStays ==
  ASSUME UNCHANGED cast
  PROVE  OneLock' <=> OneLock
  BY DEF OneLock

\* A writer that holds its lock starts a transaction without waiting.
LEMMA OwnerStarts ==
  ASSUME TypeInv, OneLock, NEW w \in Writers, NEW k \in 1..Len(cast[w].txs),
         Owns(w) \/ k = 1
  PROVE  Start(w, k) \in {"begin", "write"}
<1>1. Shaped(cast[w]) /\ cast[w].lock \in {"write", "import"}
  BY CallShape DEF OneLock
<1> QED
  BY <1>1, Starts DEF Shaped, Owns

LEMMA MovedOwner ==
  ASSUME TypeInv, OneLock, OwnerInv, UNCHANGED cast, NEW w \in Writers,
         NEW pc, NEW k, NEW i, Moved(w, pc, k, i),
         pc = "lock" \/ (Active(w) /\ pc # "nested")
  PROVE  OwnerInv'
<1> SUFFICES ASSUME NEW v \in Writers, Active(v)'
             PROVE  Owns(v)' /\ at'[v].pc # "nested"
  BY DEF OwnerInv
<1>1. Owns(v)' <=> Owns(v)
  BY DEF Owns, Moved
<1>2. CASE v = w
  BY <1>1, <1>2 DEF Moved, Active, OwnerInv
<1>3. CASE v # w
  BY <1>1, <1>3 DEF Moved, Others, Active, OwnerInv
<1> QED
  BY <1>2, <1>3

LEMMA EndedOwner ==
  ASSUME OneLock, OwnerInv, UNCHANGED cast, NEW w \in Writers, NEW how, Ended(w, how)
  PROVE  OwnerInv'
<1> SUFFICES ASSUME NEW v \in Writers, Active(v)'
             PROVE  Owns(v)' /\ at'[v].pc # "nested"
  BY DEF OwnerInv
<1>1. v # w /\ at'[v] = at[v]
  BY DEF Ended, Others, Active
<1> QED
  BY <1>1 DEF Ended, Active, OwnerInv, Owns

LEMMA GoesOnOwner ==
  ASSUME TypeInv, OneLock, OwnerInv, UNCHANGED cast, NEW w \in Writers, Active(w), Goes_on(w)
  PROVE  OwnerInv'
<1>1. CASE /\ at[w].k + 1 \in 1..Len(cast[w].txs)
           /\ Moved(w, Start(w, at[w].k + 1), at[w].k + 1, 1)
  <2>1. Start(w, at[w].k + 1) \in {"begin", "write"}
    BY <1>1, OwnerStarts DEF OwnerInv
  <2> QED
    BY <1>1, <2>1, MovedOwner
<1>2. CASE at[w].k = Len(cast[w].txs) /\ Ended(w, "returned")
  BY <1>2, EndedOwner
<1> QED
  BY <1>1, <1>2 DEF Goes_on

LEMMA OwnerStep == TypeInv /\ OwnerInv /\ [Next]_vars => OwnerInv'
<1> SUFFICES ASSUME TypeInv, OwnerInv, [Next]_vars, OneLock' PROVE OwnerInv'
  BY DEF OwnerInv
<1>1. UNCHANGED cast
  BY CrashMoves, CallMoves, CancelledMoves, AcquireMoves, AcquireNestedMoves, BeginMoves,
     WriteMoves, WriteFailsMoves, CommitMoves, UndoMoves DEF Next, Step, vars
<1>2. OneLock
  BY <1>1, OneLockStays
<1>3. CASE UNCHANGED vars
  BY <1>3 DEF vars, OwnerInv, OneLock, Active, Owns
<1>4. CASE Crash
  BY <1>4, CrashMoves DEF OwnerInv, Active
<1>5. ASSUME NEW w \in Writers, Call(w) PROVE OwnerInv'
  <2>1. cast[w].lock # "none"
    BY <1>2 DEF OneLock
  <2> QED
    BY <1>1, <1>2, <1>5, <2>1, CallMoves, MovedOwner
<1>6. ASSUME NEW w \in Writers, Cancelled(w) PROVE OwnerInv'
  BY <1>1, <1>2, <1>6, CancelledMoves, EndedOwner
<1>7. ASSUME NEW w \in Writers, Acquire(w) PROVE OwnerInv'
  <2> SUFFICES ASSUME NEW v \in Writers, Active(v)'
               PROVE  Owns(v)' /\ at'[v].pc # "nested"
    BY DEF OwnerInv
  <2>1. /\ Others(w) /\ at[w].pc = "lock" /\ at'[w].pc = Start(w, 1)
        /\ \/ cast[w].lock = "write" /\ holder = None /\ holder' = w /\ UNCHANGED importer
           \/ cast[w].lock = "import" /\ importer = None /\ importer' = w /\ UNCHANGED holder
    BY <1>7, AcquireMoves
  <2>2. CASE v = w
    <3>1. 1 \in 1..Len(cast[w].txs)
      BY CallShape
    <3>2. Start(w, 1) \in {"begin", "write"}
      BY <1>2, <3>1, OwnerStarts
    <3> QED
      BY <1>1, <2>1, <2>2, <3>2 DEF Owns
  <2>3. CASE v # w
    <3>1. Active(v) /\ Owns(v)
      BY <1>2, <2>1, <2>3 DEF Others, Active, OwnerInv
    <3>2. cast[v].lock = cast[w].lock
      BY <1>2 DEF OneLock
    <3> QED
      BY <2>1, <3>1, <3>2, NoneIsNoWriter DEF NoneIsNoWriter, Owns
  <2> QED
    BY <2>2, <2>3
<1>8. ASSUME NEW w \in Writers, AcquireNested(w) PROVE FALSE
  BY <1>2, <1>8, AcquireNestedMoves DEF OwnerInv, Active
<1>9. ASSUME NEW w \in Writers, Begin(w) PROVE OwnerInv'
  BY <1>1, <1>2, <1>9, BeginMoves, MovedOwner DEF Active
<1>10. ASSUME NEW w \in Writers, Write(w) PROVE OwnerInv'
  BY <1>1, <1>2, <1>10, WriteMoves, MovedOwner, GoesOnOwner DEF Active
<1>11. ASSUME NEW w \in Writers, WriteFails(w) PROVE OwnerInv'
  BY <1>1, <1>2, <1>11, WriteFailsMoves, MovedOwner, EndedOwner DEF Active
<1>12. ASSUME NEW w \in Writers, Commit(w) PROVE OwnerInv'
  BY <1>1, <1>2, <1>12, CommitMoves, GoesOnOwner DEF Active
<1>13. ASSUME NEW w \in Writers, Undo(w) PROVE OwnerInv'
  BY <1>1, <1>2, <1>13, UndoMoves, GoesOnOwner, EndedOwner DEF Active
<1> QED
  BY <1>3, <1>4, <1>5, <1>6, <1>7, <1>8, <1>9, <1>10, <1>11, <1>12, <1>13 DEF Next, Step

-----------------------------------------------------------------------------
(* What is in the transaction and on disk. *)

LEMMA CallsInit == Init => IInv
<1> SUFFICES ASSUME Init PROVE IInv
  OBVIOUS
<1>1. TypeInv
  BY TypeInit
<1>2. \A w \in Writers : at[w].pc = "idle" /\ at[w].k = 1 /\ outcome[w] = "none"
  BY DEF Init
<1>3. \A w \in Writers : \A k \in 1..Len(cast[w].txs) : Absent(w, k)
  BY DEF Init, Absent, Held, Stored
<1>4. OwnerInv
  BY <1>2 DEF OwnerInv, Active
<1>5. ASSUME NEW w \in Writers PROVE CallInv(w)
  BY <1>2, <1>3, CallShape, <1>1 DEF CallInv, CurrentInv
<1> QED
  BY <1>1, <1>4, <1>5 DEF IInv, CallsInv

\* Of v's, the connection drops or stores some of what it holds.
Gentle(v) ==
    \A k \in 1..Len(cast[v].txs) :
        /\ Held(v, k)' \subseteq Held(v, k)
        /\ Stored(v, k) \subseteq Stored(v, k)'
        /\ Stored(v, k)' \subseteq Stored(v, k) \cup Held(v, k)

LEMMA EndIsGentle ==
  ASSUME NEW v \in Writers, UNCHANGED cast, CommitAll \/ RollbackAll \/ UNCHANGED <<tx, durable>>
  PROVE  Gentle(v)
  BY DEF Gentle, Held, Stored, CommitAll, RollbackAll

LEMMA InsertIsGentle ==
  ASSUME NEW w \in Writers, NEW v \in Writers \ {w}, UNCHANGED cast, Insert(w)
  PROVE  Gentle(v)
<1>1. \A k, i : <<v, k, i>> # Statement(w)
  BY DEF Statement
<1> QED
  BY <1>1 DEF Gentle, Held, Stored, Insert

\* That disturbs no call that is not within a transaction.
LEMMA Untouched ==
  ASSUME TypeInv, UNCHANGED cast, NEW v \in Writers, CallInv(v),
         at'[v] = at[v], outcome'[v] = outcome[v], ~Active(v), Gentle(v)
  PROVE  CallInv(v)'
<1>1. \A k \in 1..Len(cast[v].txs) : Absent(v, k) => Absent(v, k)'
  BY DEF Gentle, Absent
<1>2. \A k \in 1..Len(cast[v].txs) : Done(v, k) => Done(v, k)'
  BY DEF Gentle, Done, Whole
<1>3. \A k \in 1..Len(cast[v].txs) : CurrentInv(v, k) => CurrentInv(v, k)'
  BY <1>1, <1>2 DEF CurrentInv, Active
<1> QED
  BY <1>1, <1>2, <1>3 DEF CallInv

LEMMA Unchanged ==
  ASSUME UNCHANGED <<cast, tx, durable>>, NEW v \in Writers, CallInv(v),
         at'[v] = at[v], outcome'[v] = outcome[v]
  PROVE  CallInv(v)'
<1>1. \A k : Held(v, k)' = Held(v, k) /\ Stored(v, k)' = Stored(v, k) /\ Whole(v, k)' = Whole(v, k)
  BY DEF Held, Stored, Whole
<1>2. \A k : Absent(v, k)' = Absent(v, k) /\ Done(v, k)' = Done(v, k)
  BY <1>1 DEF Absent, Done
<1>3. \A k \in 1..Len(cast[v].txs) : CurrentInv(v, k) => CurrentInv(v, k)'
  BY <1>1, <1>2 DEF CurrentInv
<1> QED
  BY <1>2, <1>3 DEF CallInv

\* A step of one writer of the lock, as the others see it.
LEMMA OthersKeep ==
  ASSUME IInv, OneLock, UNCHANGED cast, NEW w \in Writers, Others(w),
         \/ UNCHANGED <<tx, durable>>
         \/ Active(w) /\ (Insert(w) \/ CommitAll \/ RollbackAll)
  PROVE  \A v \in Writers \ {w} : CallInv(v)'
<1> SUFFICES ASSUME NEW v \in Writers \ {w} PROVE CallInv(v)'
  OBVIOUS
<1>1. CallInv(v) /\ at'[v] = at[v] /\ outcome'[v] = outcome[v]
  BY DEF IInv, CallsInv, Others
<1>2. CASE UNCHANGED <<tx, durable>>
  BY <1>1, <1>2, Unchanged
<1>3. CASE Active(w) /\ (Insert(w) \/ CommitAll \/ RollbackAll)
  <2>1. ~Active(v)
    BY <1>3, Alone DEF IInv
  <2>2. Gentle(v)
    BY <1>3, EndIsGentle, InsertIsGentle
  <2> QED
    BY <1>1, <2>1, <2>2, Untouched DEF IInv
<1> QED
  BY <1>2, <1>3

\* A call that has not ended has nothing on disk of the transaction it is at.
LEMMA NothingYet ==
  ASSUME TypeInv, NEW w \in Writers, CallInv(w), at[w].pc # "ended"
  PROVE  /\ outcome[w] = "none"
         /\ Stored(w, at[w].k) = {}
         /\ \A k \in 1..Len(cast[w].txs) : /\ k < at[w].k => Done(w, k)
                                           /\ k > at[w].k => Absent(w, k)
<1>1. outcome[w] = "none" /\ at[w].k \in 1..Len(cast[w].txs) /\ at[w] \in At
  BY CallShape DEF CallInv
<1>2. CurrentInv(w, at[w].k)
  BY <1>1 DEF CallInv
<1>3. Stored(w, at[w].k) = {}
  BY <1>1, <1>2 DEF CurrentInv, Absent, At
<1> QED
  BY <1>1, <1>3 DEF CallInv

\* What the end of the connection's transaction leaves of the other
\* transactions of the call.
LEMMA OwnOthers ==
  ASSUME TypeInv, UNCHANGED cast, NEW w \in Writers, CallInv(w), at[w].pc # "ended",
         NEW k \in 1..Len(cast[w].txs), k # at[w].k,
         Insert(w) \/ CommitAll \/ RollbackAll \/ UNCHANGED <<tx, durable>>
  PROVE  /\ k < at[w].k => Done(w, k)'
         /\ k > at[w].k => Absent(w, k)'
<1>1. /\ Held(w, k)' \subseteq Held(w, k)
      /\ Stored(w, k) \subseteq Stored(w, k)'
      /\ Stored(w, k)' \subseteq Stored(w, k) \cup Held(w, k)
  <2>1. CASE Insert(w)
    <3>1. \A i : <<w, k, i>> # Statement(w)
      BY DEF Statement
    <3> QED
      BY <2>1, <3>1 DEF Held, Stored, Insert
  <2>2. CASE CommitAll \/ RollbackAll \/ UNCHANGED <<tx, durable>>
    BY <2>2, EndIsGentle DEF Gentle
  <2> QED
    BY <2>1, <2>2
<1>2. /\ k < at[w].k => Done(w, k)
      /\ k > at[w].k => Absent(w, k)
  BY NothingYet
<1> QED
  BY <1>1, <1>2 DEF Done, Absent, Whole

OwnConn(w) == Insert(w) \/ CommitAll \/ RollbackAll \/ UNCHANGED <<tx, durable>>

\* The call moves within its transaction c, goes on to the next or returns, fails.
LEMMA MovedCall ==
  ASSUME TypeInv, UNCHANGED cast, NEW w \in Writers, CallInv(w), at[w].pc # "ended", OwnConn(w),
         NEW c \in 1..Len(cast[w].txs), at[w].k = c,
         at'[w].k = c, at'[w].pc \notin {"idle", "lock", "ended"}, outcome' = outcome,
         CurrentInv(w, c)'
  PROVE  CallInv(w)'
<1>1. outcome'[w] = "none"
  BY NothingYet
<1>2. \A k \in 1..Len(cast[w].txs) \ {c} : /\ k < c => Done(w, k)'
                                           /\ k > c => Absent(w, k)'
  BY OwnOthers DEF OwnConn
<1> QED
  BY <1>1, <1>2 DEF CallInv

LEMMA GoesOnCall ==
  ASSUME TypeInv, UNCHANGED cast, NEW w \in Writers, CallInv(w), at[w].pc # "ended", OwnConn(w),
         NEW c \in 1..Len(cast[w].txs), at[w].k = c,
         Goes_on(w), Done(w, c)'
  PROVE  CallInv(w)'
<1>1. c \in Nat /\ outcome[w] = "none" /\ Len(cast[w].txs) \in 1..2
  BY NothingYet, CallShape
<1>2. \A k \in 1..Len(cast[w].txs) : /\ k < c => Done(w, k)'
                                     /\ k > c => Absent(w, k)'
  BY OwnOthers, <1>1 DEF OwnConn
<1>3. \A k \in 1..Len(cast[w].txs) : k = c => Done(w, k)'
  OBVIOUS
<1>4. ASSUME c + 1 \in 1..Len(cast[w].txs), Moved(w, Start(w, c + 1), c + 1, 1)
      PROVE  CallInv(w)'
  <2> DEFINE n == c + 1
  <2>1. /\ outcome'[w] = "none" /\ at'[w].k = n /\ at'[w].i = 1
        /\ at'[w].pc \in {"nested", "begin", "write"}
    BY <1>1, <1>4, Starts DEF Moved
  <2>2. n \in 1..Len(cast[w].txs) /\ n > c /\ n \in Nat
    BY <1>1, <1>4
  <2>3. Absent(w, n)'
    BY <1>2, <2>2
  <2>4. cast[w].txs[n].stmts \in 1..3
    BY <2>2, CallShape
  <2>5. Held(w, n)' = {} /\ Stored(w, n)' = {} /\ 1 \in Whole(w, n)' /\ 1..(1 - 1) = {}
    BY <2>3, <2>4 DEF Absent, Whole
  <2>6. CurrentInv(w, n)'
    BY <2>1, <2>3, <2>5 DEF CurrentInv
  <2>8. \A k \in 1..Len(cast[w].txs) : /\ k < n => Done(w, k)'
                                       /\ k > n => Absent(w, k)'
    BY <1>1, <1>2, <1>3
  <2> QED
    BY <2>1, <2>6, <2>8 DEF CallInv
<1>5. CASE c = Len(cast[w].txs) /\ Ended(w, "returned")
  <2>1. outcome'[w] = "returned" /\ at'[w].pc = "ended" /\ at'[w].k = c
    BY <1>5 DEF Ended
  <2>2. CurrentInv(w, c)'
    BY <1>3, <2>1 DEF CurrentInv
  <2> QED
    BY <1>2, <1>5, <2>1, <2>2 DEF CallInv
<1> QED
  BY <1>4, <1>5 DEF Goes_on

LEMMA RaisedCall ==
  ASSUME TypeInv, UNCHANGED cast, NEW w \in Writers, CallInv(w), at[w].pc # "ended", OwnConn(w),
         NEW c \in 1..Len(cast[w].txs), at[w].k = c,
         Ended(w, "raised"), Absent(w, c)' \/ cast[w].txs[c].onError = "leave"
  PROVE  CallInv(w)'
<1>1. outcome'[w] = "raised" /\ at'[w].pc = "ended" /\ at'[w].k = c
  BY DEF Ended
<1>2. \A k \in 1..Len(cast[w].txs) \ {c} : /\ k < c => Done(w, k)'
                                           /\ k > c => Absent(w, k)'
  BY OwnOthers DEF OwnConn
<1>3. CurrentInv(w, c)'
  BY <1>1 DEF CurrentInv
<1> QED
  BY <1>1, <1>2, <1>3 DEF CallInv

LEMMA CutCall ==
  ASSUME NEW w \in Writers, Ended(w, "cut")
  PROVE  CallInv(w)'
  BY DEF Ended, CallInv

-----------------------------------------------------------------------------
LEMMA CallsStep == IInv /\ [Next]_vars => CallsInv'
<1> SUFFICES ASSUME IInv, [Next]_vars, OneLock' PROVE CallsInv'
  BY DEF CallsInv
<1>t. TypeInv /\ OwnerInv
  BY DEF IInv
<1>c. UNCHANGED cast
  BY <1>t, CrashMoves, CallMoves, CancelledMoves, AcquireMoves, AcquireNestedMoves, BeginMoves,
     WriteMoves, WriteFailsMoves, CommitMoves, UndoMoves DEF Next, Step, vars
<1>o. OneLock
  BY <1>c, OneLockStays
<1>i. \A w \in Writers : CallInv(w)
  BY <1>o DEF IInv, CallsInv
<1>k. ASSUME NEW w \in Writers, at[w].pc # "ended"
      PROVE  /\ at[w].k \in 1..Len(cast[w].txs) /\ at[w] \in At
             /\ outcome[w] = "none" /\ CurrentInv(w, at[w].k)
             /\ cast[w].txs[at[w].k].stmts \in 1..3
  BY <1>t, <1>i, <1>k, NothingYet, CallShape DEF CallInv
<1>1. CASE UNCHANGED vars
  BY <1>1, <1>i, Unchanged DEF vars, CallsInv
<1>2. CASE Crash
  <2>1. /\ RollbackAll
        /\ \A w \in Writers :
              /\ at[w].pc \in {"idle", "ended"} => at'[w] = at[w] /\ outcome'[w] = outcome[w]
              /\ at[w].pc \notin {"idle", "ended"} =>
                     at'[w].pc = "ended" /\ at'[w].k = at[w].k /\ outcome'[w] = "lost"
    BY <1>2, <1>t, CrashMoves
  <2>2. ASSUME NEW w \in Writers, at[w].pc \in {"idle", "ended"} PROVE CallInv(w)'
    BY <2>1, <2>2, <1>c, <1>i, <1>t, EndIsGentle, Untouched DEF Active
  <2>3. ASSUME NEW w \in Writers, at[w].pc \notin {"idle", "ended"} PROVE CallInv(w)'
    <3>c. PICK c \in 1..Len(cast[w].txs) : c = at[w].k
      BY <1>k, <2>3
    <3>1. outcome'[w] = "lost" /\ at'[w].pc = "ended" /\ at'[w].k = c
      BY <2>1, <2>3, <3>c
    <3>2. Stored(w, c) = {} /\ CallInv(w)
      BY <1>t, <1>i, <2>3, <3>c, NothingYet
    <3>3. Absent(w, c)'
      BY <1>c, <2>1, <3>2 DEF Absent, Held, Stored, RollbackAll
    <3>4. CurrentInv(w, c)'
      BY <3>1, <3>3 DEF CurrentInv
    <3>5. \A k \in 1..Len(cast[w].txs) \ {c} : /\ k < c => Done(w, k)'
                                               /\ k > c => Absent(w, k)'
      BY <1>c, <1>t, <2>1, <2>3, <3>c, <3>2, OwnOthers
    <3> QED
      BY <1>c, <3>1, <3>4, <3>5 DEF CallInv
  <2> QED
    BY <2>2, <2>3 DEF CallsInv
<1>3. ASSUME NEW w \in Writers, Call(w) PROVE CallsInv'
  <2>1. /\ UNCHANGED <<tx, durable>> /\ at[w].pc = "idle" /\ Others(w)
        /\ at'[w].pc = "lock" /\ at'[w].k = 1 /\ UNCHANGED outcome
    BY <1>3, <1>t, <1>o, CallMoves DEF OneLock, Moved, conn
  <2>2. at[w].k = 1 /\ CallInv(w)
    BY <2>1, <1>i DEF CallInv
  <2>3. \A k : Held(w, k)' = Held(w, k) /\ Stored(w, k)' = Stored(w, k) /\ Whole(w, k)' = Whole(w, k)
    BY <2>1, <1>c DEF Held, Stored, Whole
  <2>4. \A k : Absent(w, k)' = Absent(w, k) /\ Done(w, k)' = Done(w, k)
    BY <2>3, <1>c DEF Absent, Done
  <2>5. CurrentInv(w, 1)'
    BY <1>k, <2>1, <2>2, <2>4 DEF CurrentInv
  <2>6. CallInv(w)'
    BY <1>c, <1>k, <2>1, <2>2, <2>4, <2>5 DEF CallInv
  <2> QED
    BY <1>c, <1>o, <2>1, <2>6, OthersKeep DEF CallsInv
<1>4. ASSUME NEW w \in Writers, Cancelled(w) PROVE CallsInv'
  <2>1. /\ Ended(w, "cut") /\ at[w].pc # "ended"
        /\ \/ at[w].pc = "write" /\ Insert(w)
           \/ at[w].pc = "commit" /\ CommitAll
           \/ at[w].pc = "undo" /\ RollbackAll
           \/ UNCHANGED <<tx, durable>>
    BY <1>4, <1>t, CancelledMoves
  <2>2. CallInv(w)'
    BY <2>1, CutCall
  <2> QED
    BY <1>c, <1>o, <2>1, <2>2, OthersKeep DEF CallsInv, Active, Ended
<1>5. ASSUME NEW w \in Writers, Acquire(w) PROVE CallsInv'
  <2>1. /\ UNCHANGED <<tx, durable>> /\ at[w].pc = "lock" /\ Others(w)
        /\ at'[w].pc = Start(w, 1) /\ at'[w].k = 1 /\ at'[w].i = 1 /\ UNCHANGED outcome
    BY <1>5, <1>t, AcquireMoves DEF conn
  <2>2. at[w].k = 1 /\ CallInv(w)
    BY <2>1, <1>i DEF CallInv
  <2>3. \A k : Held(w, k)' = Held(w, k) /\ Stored(w, k)' = Stored(w, k) /\ Whole(w, k)' = Whole(w, k)
    BY <2>1, <1>c DEF Held, Stored, Whole
  <2>4. \A k : Absent(w, k)' = Absent(w, k) /\ Done(w, k)' = Done(w, k)
    BY <2>3, <1>c DEF Absent, Done
  <2>5. at'[w].pc \in {"nested", "begin", "write"} /\ 1 \in 1..Len(cast[w].txs)
        /\ cast[w].txs[1].stmts \in 1..3
    BY <1>k, <1>t, <2>1, <2>2, Starts
  <2>6. Absent(w, 1)'
    BY <1>k, <2>1, <2>2, <2>4 DEF CurrentInv
  <2>7. CurrentInv(w, 1)'
    <3>1. Held(w, 1)' = {} /\ Stored(w, 1)' = {} /\ 1 \in Whole(w, 1)' /\ 1..(1 - 1) = {}
      BY <1>c, <2>5, <2>6 DEF Absent, Whole
    <3> QED
      BY <1>k, <2>1, <2>5, <2>6, <3>1 DEF CurrentInv
  <2>8. CallInv(w)'
    BY <1>c, <1>k, <2>1, <2>2, <2>4, <2>5, <2>7 DEF CallInv
  <2> QED
    BY <1>c, <1>o, <2>1, <2>8, OthersKeep DEF CallsInv
<1>6. ASSUME NEW w \in Writers, AcquireNested(w) PROVE FALSE
  BY <1>o, <1>t, <1>6, AcquireNestedMoves DEF OwnerInv, Active
<1>7. ASSUME NEW w \in Writers, Begin(w) PROVE CallsInv'
  <2>0. at[w].pc # "ended"
    BY <1>7, <1>t, BeginMoves
  <2>c. PICK c \in 1..Len(cast[w].txs) : c = at[w].k
    BY <1>k, <2>0
  <2>1. /\ UNCHANGED <<tx, durable>> /\ at[w].pc = "begin"
        /\ Moved(w, "undo", c, 1) \/ Moved(w, "write", c, 1)
    BY <1>7, <1>t, <2>c, BeginMoves DEF Current
  <2>2. \A k : Held(w, k)' = Held(w, k) /\ Stored(w, k)' = Stored(w, k) /\ Whole(w, k)' = Whole(w, k)
    BY <2>1, <1>c DEF Held, Stored, Whole
  <2>3. Held(w, c)' = {} /\ Stored(w, c)' = {}
    BY <1>k, <2>c, <2>1, <2>2 DEF CurrentInv, Absent
  <2>4. 1 \in Whole(w, c)' /\ 1..(1 - 1) = {}
    BY <1>c, <1>k, <2>c, <2>1, <2>2 DEF Whole
  <2>5. CurrentInv(w, c)'
    BY <1>k, <2>c, <2>1, <2>3, <2>4 DEF CurrentInv, Moved
  <2>6. CallInv(w)'
    BY <1>c, <1>t, <1>i, <2>1, <2>5, MovedCall, <2>c DEF OwnConn, Moved
  <2> QED
    BY <1>c, <1>o, <2>1, <2>6, OthersKeep DEF CallsInv, Moved
<1>8. ASSUME NEW w \in Writers, Write(w) PROVE CallsInv'
  <2>0. at[w].pc # "ended"
    BY <1>8, <1>t, WriteMoves
  <2>c. PICK c \in 1..Len(cast[w].txs) : c = at[w].k
    BY <1>k, <2>0
  <2>1. /\ Insert(w) /\ at[w].pc = "write"
        /\ \/ at[w].i < cast[w].txs[c].stmts /\ Moved(w, "write", c, at[w].i + 1)
           \/ at[w].i >= cast[w].txs[c].stmts /\ Moved(w, "commit", c, at[w].i)
           \/ ~cast[w].txs[c].commits /\ Goes_on(w)
    BY <1>8, <1>t, <2>c, WriteMoves DEF Current
  <2>2. cast[w].txs[c].commits
    BY <1>k, <2>c, <1>o, <1>t, <2>1, CallShape DEF OneLock, Shaped
  <2>3. /\ Held(w, c) = 1..(at[w].i - 1) /\ Stored(w, c) = {}
        /\ at[w].i \in Whole(w, c)
    BY <1>k, <2>c, <2>1 DEF CurrentInv
  <2>4. at[w].i \in 1..cast[w].txs[c].stmts /\ cast[w].txs[c].stmts \in 1..3 /\ at[w].i \in 1..3
    BY <1>k, <2>0, <2>c, <2>3 DEF Whole, At
  <2>5. Held(w, c)' = Held(w, c) \cup {at[w].i}
    <3>1. Statement(w) = <<w, c, at[w].i>>
      BY <2>c DEF Statement
    <3>2. \A i : <<w, c, i>> = Statement(w) <=> i = at[w].i
      BY <3>1
    <3> QED
      BY <1>c, <2>1, <2>4, <3>2 DEF Held, Insert
  <2>6. Held(w, c)' = 1..at[w].i
    BY <2>3, <2>4, <2>5
  <2>7. Stored(w, c)' = {} /\ Whole(w, c)' = 1..cast[w].txs[c].stmts
    BY <1>c, <2>1, <2>3 DEF Stored, Whole, Insert
  <2>8. CASE at[w].i < cast[w].txs[c].stmts /\ Moved(w, "write", c, at[w].i + 1)
    <3>0. at'[w].i = at[w].i + 1 /\ at'[w].i - 1 = at[w].i
      BY <2>4, <2>8 DEF Moved
    <3>1. at'[w].i \in Whole(w, c)' /\ Held(w, c)' = 1..(at'[w].i - 1)
      <4>1. at[w].i + 1 \in 1..cast[w].txs[c].stmts
        BY <2>4, <2>8
      <4>2. Held(w, c)' = 1..(at'[w].i - 1)
        BY <2>6, <3>0, Zenon
      <4> QED
        BY <2>7, <3>0, <4>1, <4>2
    <3>2. CurrentInv(w, c)'
      BY <1>k, <2>c, <2>1, <2>7, <2>8, <3>1 DEF CurrentInv, Moved
    <3>3. CallInv(w)'
      BY <1>c, <1>t, <1>i, <2>1, <2>8, <3>2, MovedCall, <2>c DEF OwnConn, Moved
    <3> QED
      BY <1>c, <1>o, <2>1, <2>8, <3>3, OthersKeep DEF CallsInv, Moved, Active
  <2>9. CASE at[w].i >= cast[w].txs[c].stmts /\ Moved(w, "commit", c, at[w].i)
    <3>1. Held(w, c)' = Whole(w, c)'
      BY <2>4, <2>6, <2>7, <2>9
    <3>2. CurrentInv(w, c)'
      BY <1>k, <2>c, <2>1, <2>7, <2>9, <3>1 DEF CurrentInv, Moved
    <3>3. CallInv(w)'
      BY <1>c, <1>t, <1>i, <2>1, <2>9, <3>2, MovedCall, <2>c DEF OwnConn, Moved
    <3> QED
      BY <1>c, <1>o, <2>1, <2>9, <3>3, OthersKeep DEF CallsInv, Moved, Active
  <2> QED
    BY <2>1, <2>2, <2>8, <2>9
<1>9. ASSUME NEW w \in Writers, WriteFails(w) PROVE CallsInv'
  <2>0. at[w].pc # "ended"
    BY <1>9, <1>t, WriteFailsMoves
  <2>c. PICK c \in 1..Len(cast[w].txs) : c = at[w].k
    BY <1>k, <2>0
  <2>1. /\ UNCHANGED <<tx, durable>> /\ at[w].pc = "write"
        /\ \/ cast[w].txs[c].onError = "leave" /\ Ended(w, "raised")
           \/ cast[w].txs[c].onError # "leave" /\ Moved(w, "undo", c, at[w].i)
    BY <1>9, <1>t, <2>c, WriteFailsMoves DEF Current
  <2>2. CASE cast[w].txs[c].onError = "leave" /\ Ended(w, "raised")
    <3>1. CallInv(w)'
      BY <1>c, <1>t, <1>i, <2>1, <2>2, RaisedCall, <2>c DEF OwnConn
    <3> QED
      BY <1>c, <1>o, <2>1, <2>2, <3>1, OthersKeep DEF CallsInv, Ended
  <2>3. CASE Moved(w, "undo", c, at[w].i)
    <3>1. Stored(w, c)' = {}
      BY <1>c, <1>k, <2>c, <2>1 DEF CurrentInv, Stored
    <3>2. CurrentInv(w, c)'
      BY <1>k, <2>c, <2>1, <2>3, <3>1 DEF CurrentInv, Moved
    <3>3. CallInv(w)'
      BY <1>c, <1>t, <1>i, <2>1, <2>3, <3>2, MovedCall, <2>c DEF OwnConn, Moved
    <3> QED
      BY <1>c, <1>o, <2>1, <2>3, <3>3, OthersKeep DEF CallsInv, Moved
  <2> QED
    BY <2>1, <2>2, <2>3
<1>10. ASSUME NEW w \in Writers, Commit(w) PROVE CallsInv'
  <2>0. at[w].pc # "ended"
    BY <1>10, <1>t, CommitMoves
  <2>c. PICK c \in 1..Len(cast[w].txs) : c = at[w].k
    BY <1>k, <2>0
  <2>1. CommitAll /\ at[w].pc = "commit" /\ Goes_on(w)
    BY <1>10, <1>t, <2>c, CommitMoves DEF Current
  <2>2. Held(w, c) = Whole(w, c)
    BY <1>k, <2>c, <2>1 DEF CurrentInv
  <2>3. Done(w, c)'
    BY <1>c, <2>1, <2>2 DEF Done, Held, Stored, Whole, CommitAll
  <2>4. CallInv(w)'
    BY <1>c, <1>t, <1>i, <2>1, <2>3, GoesOnCall, <2>c DEF OwnConn
  <2> QED
    BY <1>c, <1>o, <2>1, <2>4, OthersKeep DEF CallsInv, Goes_on, Moved, Ended, Active
<1>11. ASSUME NEW w \in Writers, Undo(w) PROVE CallsInv'
  <2>0. at[w].pc # "ended"
    BY <1>11, <1>t, UndoMoves
  <2>c. PICK c \in 1..Len(cast[w].txs) : c = at[w].k
    BY <1>k, <2>0
  <2>1. /\ RollbackAll /\ at[w].pc = "undo"
        /\ \/ cast[w].txs[c].onError = "swallow" /\ Goes_on(w)
           \/ Ended(w, "raised")
    BY <1>11, <1>t, <2>c, UndoMoves DEF Current
  <2>2. Absent(w, c)'
    BY <1>c, <1>k, <2>c, <2>1 DEF CurrentInv, Absent, Held, Stored, RollbackAll
  <2>3. CASE cast[w].txs[c].onError = "swallow" /\ Goes_on(w)
    <3>1. cast[w].txs[c].nested
      BY <1>k, <2>c, <1>t, <2>1, <2>3, CallShape DEF Shaped
    <3>2. Done(w, c)'
      BY <1>c, <2>2, <3>1 DEF Done, Absent
    <3>3. CallInv(w)'
      BY <1>c, <1>t, <1>i, <2>1, <2>3, <3>2, GoesOnCall, <2>c DEF OwnConn
    <3> QED
      BY <1>c, <1>o, <2>1, <2>3, <3>3, OthersKeep DEF CallsInv, Goes_on, Moved, Ended, Active
  <2>4. CASE Ended(w, "raised")
    <3>1. CallInv(w)'
      BY <1>c, <1>t, <1>i, <2>1, <2>2, <2>4, RaisedCall, <2>c DEF OwnConn
    <3> QED
      BY <1>c, <1>o, <2>1, <2>4, <3>1, OthersKeep DEF CallsInv, Ended, Active
  <2> QED
    BY <2>1, <2>3, <2>4
<1> QED
  BY <1>1, <1>2, <1>3, <1>4, <1>5, <1>6, <1>7, <1>8, <1>9, <1>10, <1>11 DEF Next, Step

-----------------------------------------------------------------------------
LEMMA CallsAreWhole == IInv => AllOrNothing
<1> SUFFICES ASSUME IInv, OneLock, NEW w \in Writers, NEW k \in 1..Len(cast[w].txs)
             PROVE  LET t == cast[w].txs[k]
                    IN  /\ outcome[w] # "cut" /\ t.onError # "leave"
                              => Stored(w, k) \in {{}, Whole(w, k)}
                        /\ outcome[w] = "returned" /\ ~t.nested
                              => Stored(w, k) = Whole(w, k)
                        /\ outcome[w] = "raised" /\ t.onError = "undo" /\ k = at[w].k
                              => Stored(w, k) = {}
  BY DEF AllOrNothing, IInv, TypeInv
<1>1. CallInv(w) /\ TypeInv
  BY DEF IInv, CallsInv
<1>2. /\ outcome[w] \in Outcomes /\ at[w].k \in 1..Len(cast[w].txs)
      /\ Len(cast[w].txs) \in 1..2
  BY <1>1, CallShape, TypeParts DEF CallTypes
<1>3. CASE outcome[w] = "cut"
  BY <1>3
<1>4. CASE outcome[w] # "cut" /\ k < at[w].k
  <2>1. Done(w, k)
    BY <1>1, <1>4 DEF CallInv
  <2> QED
    BY <1>4, <2>1 DEF Done
<1>5. CASE outcome[w] # "cut" /\ k > at[w].k
  <2>1. Absent(w, k) /\ outcome[w] # "returned"
    BY <1>1, <1>2, <1>5 DEF CallInv
  <2> QED
    BY <1>5, <2>1 DEF Absent
<1>6. CASE outcome[w] # "cut" /\ k = at[w].k
  <2>1. CurrentInv(w, k)
    BY <1>1, <1>6 DEF CallInv
  <2>2. outcome[w] = "none" => Stored(w, k) = {}
    BY <1>1, <1>6, NothingYet DEF CallInv
  <2> QED
    BY <1>2, <1>6, <2>1, <2>2 DEF CurrentInv, Done, Absent, Outcomes
<1> QED
  BY <1>2, <1>3, <1>4, <1>5, <1>6

-----------------------------------------------------------------------------
\* The invariant that the theorems below rest on is inductive.
LEMMA Invariant == Spec => []IInv
<1>1. Init => IInv
  BY CallsInit
<1>2. IInv /\ [Next]_vars => IInv'
  BY TypeStep, OwnerStep, CallsStep DEF IInv
<1> QED
  BY <1>1, <1>2, PTL DEF Spec

\* Every variable of the writers and of the connection keeps its type.
THEOREM TypeCorrect == Spec => []TypeOK
<1>1. IInv => TypeOK
  BY DEF IInv, TypeInv
<1> QED
  BY <1>1, Invariant, PTL

\* Where all the writers take one lock, at most one of them is between its first
\* statement and its last commit, and it is the one that holds the lock: what
\* db.write promises of the functions it decorates.
THEOREM LockSerialises ==
  Spec => [](OneLock => \A v, w \in Writers : Active(v) /\ Active(w) => v = w)
<1>1. IInv => (OneLock => \A v, w \in Writers : Active(v) /\ Active(w) => v = w)
  BY Alone DEF IInv
<1> QED
  BY <1>1, Invariant, PTL

\* Among writers of one lock a transaction that is rolled back on failure is on
\* disk as a whole or not at all, through failures, cancellations of others and
\* crashes: db.write with messages_append, chat_delete, usage_import and the
\* other functions under it.
THEOREM WholeOrNothing == Spec => []AllOrNothing
  BY CallsAreWhole, Invariant, PTL
=============================================================================
