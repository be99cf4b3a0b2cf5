------------------------ MODULE TransportSync_proofs ------------------------
(***************************************************************************)
(* For any history, any files and any number of requests: the types, one   *)
(* request waiting at a time, and that no sync makes the pointer claim     *)
(* what neither is on the far side nor will be sent again.                 *)
(*                                                                         *)
(* The steps that matter to a sync fall into a few classes (Classified),   *)
(* and the invariants of syncs are proved class by class.                  *)
(***************************************************************************)
EXTENDS TransportSync, FiniteSetTheorems, TLAPS

Places == {"idle", "reject", "resolve"} \cup Syncing

Request == [by : Messages \cup {"ui"},
            status : {"pending", "approved", "rejected", "ended"}]

Doing == [at : Places, row : Nat, since : Nat, sha : Nat,
          push : SUBSET Files, remove : SUBSET Files]

TypeInv ==
    /\ HEAD \in Commits /\ index \subseteq Files
    /\ remote = [f \in Files |-> remote[f]]
    /\ pointer \in 0..HEAD
    /\ rows \in Seq(Request)
    /\ handler \in [Handlers -> Doing]
    /\ watch \cup shown \subseteq Messages
    /\ past \in [overlap : BOOLEAN, dirty : BOOLEAN]
    /\ faults \in 0..MaxFaults

\* A file is what some commit or a failure made of it.
FilesAreTheirs ==
    \A f \in Files : remote[f] \in {Trees[c][f] : c \in Commits} \cup {None, Torn}

\* What a request has in hand, by where it is.
ShapeInv ==
    \A p \in Handlers :
        LET d == handler[p]
        IN  /\ d.at # "idle" => d.row \in DOMAIN rows
            /\ d.at # "transfer" => d.push = {} /\ d.remove = {}
            /\ d.since <= HEAD /\ d.sha <= HEAD
            /\ d.at \in {"list", "transfer"} => d.sha # 0 /\ d.since <= d.sha

Types == TypeInv /\ FilesAreTheirs /\ ShapeInv

\* A pass under way has found nothing pending, and at most one request waits.
PassInv ==
    /\ watch # {} => Pending = {}
    /\ \A q, r \in Pending : q = r

-----------------------------------------------------------------------------
(* The invariants of syncs. *)

Clean == Unstages = {} /\ ~past.overlap

IndexInv == Unstages = {} => Names(HEAD) \subseteq index

\* While no two have overlapped there is one sync, and it knows the pointer.
SoleInv ==
    Clean => \A p \in Handlers : Working(p) =>
        /\ handler[p].since = pointer
        /\ \A q \in Handlers : Working(q) => q = p

\* A plan was made at some commit h since the one its files are read from: what
\* is left to send differs there, and what had to be sent and is not left is sent.
Planned(p, h) ==
    LET d == handler[p]
    IN  IF d.since = 0
        THEN \A f \in Names(h) \ d.push : remote[f] = Trees[d.sha][f]
        ELSE /\ d.push \cup d.remove \subseteq Differ(d.since, h)
             /\ \A f \in (Differ(d.since, h) \cap Names(h)) \ d.push : remote[f] = Trees[d.sha][f]

PlanInv ==
    Clean => \A p \in Handlers : handler[p].at = "transfer" =>
        \E h \in handler[p].sha..HEAD :
            /\ Planned(p, h)
            /\ handler[p].remove \cap Names(h) = {}

KeptInv == Unstages = {} => NothingForgotten

\* While nothing went wrong every file is as of the pointer's commit or of HEAD,
\* and where it is not of HEAD every transfer still has it in hand.
Base(f) == IF pointer = 0 THEN None ELSE Trees[pointer][f]

\* What a request has in hand, of that.
InHand(d) ==
    /\ d.at \in Syncing => d.since = pointer \/ pointer = HEAD
    /\ d.at \in {"list", "transfer"} => d.sha = HEAD
    /\ d.at = "transfer" =>
          /\ \A f \in Files \ (d.push \cup d.remove) : remote[f] = Trees[HEAD][f]
          /\ \A f \in d.remove : Trees[HEAD][f] = None

Based == (\A p \in Handlers : handler[p].at # "transfer") => \A f \in Files : remote[f] = Base(f)

ExactInv ==
    ~past.dirty =>
        /\ \A f \in Files : remote[f] = Base(f) \/ remote[f] = Trees[HEAD][f]
        /\ \A p \in Handlers : InHand(handler[p])
        /\ Based

SyncInv == IndexInv /\ SoleInv /\ PlanInv /\ KeptInv /\ ExactInv

-----------------------------------------------------------------------------
(* Types. *)

LEMMA TypeInit == Init => TypeInv /\ FilesAreTheirs /\ ShapeInv /\ PassInv
<1> SUFFICES ASSUME Init PROVE TypeInv /\ FilesAreTheirs /\ ShapeInv /\ PassInv
  OBVIOUS
<1>1. TypeInv
  BY HistoryIsTrees, BoundsAreNatural
     DEF HistoryIsTrees, BoundsAreNatural, Init, TypeInv, Commits, Names, Doing, Places, Idle, Request
<1>2. FilesAreTheirs
  BY DEF Init, FilesAreTheirs
<1>3. ShapeInv
  BY HistoryIsTrees DEF HistoryIsTrees, Init, ShapeInv, Idle
<1>4. PassInv
  BY DEF Init, PassInv, Pending
<1> QED
  BY <1>1, <1>2, <1>3, <1>4

\* What a request does next has the shape of what it may do.
LEMMA AtType ==
  ASSUME TypeInv, NEW p \in Handlers, NEW rec \in Doing, At(p, rec)
  PROVE  /\ handler' \in [Handlers -> Doing]
         /\ handler'[p] = rec
         /\ \A q \in Handlers \ {p} : handler'[q] = handler[q]
  BY DEF TypeInv, At

LEMMA DoingType ==
  ASSUME TypeInv, NEW p \in Handlers
  PROVE  /\ handler[p] \in Doing
         /\ HEAD \in Nat \ {0} /\ pointer \in Nat
         /\ Idle \in Doing
         /\ [Idle EXCEPT !.at = "resolve", !.row = handler[p].row] \in Doing
<1>1. HEAD \in Nat \ {0} /\ pointer \in Nat
  BY HistoryIsTrees DEF HistoryIsTrees, TypeInv, Commits
<1>2. handler[p] \in Doing
  BY DEF TypeInv
<1>3. Idle \in Doing
  BY DEF Idle, Doing, Places
<1>4. [Idle EXCEPT !.at = "resolve", !.row = handler[p].row] \in Doing
  BY <1>2 DEF Idle, Doing, Places
<1> QED
  BY <1>1, <1>2, <1>3, <1>4

LEMMA IdleButType ==
  ASSUME NEW at \in Places, NEW since \in Nat, NEW row \in Nat
  PROVE  [at |-> at, row |-> row, since |-> since, sha |-> 0, push |-> {}, remove |-> {}] \in Doing
  BY DEF Doing

LEMMA IdleBut ==
  ASSUME NEW at, NEW since, NEW row
  PROVE  [Idle EXCEPT !.at = at, !.since = since, !.row = row]
         = [at |-> at, row |-> row, since |-> since, sha |-> 0, push |-> {}, remove |-> {}]
<1> DEFINE rec == [Idle EXCEPT !.at = at, !.since = since, !.row = row]
<1>1. rec = [Idle EXCEPT !.at = at, !.since = since, !.row = row]
  OBVIOUS
<1> HIDE DEF rec
<1>2. rec = [at |-> at, row |-> row, since |-> since, sha |-> 0, push |-> {}, remove |-> {}]
  BY <1>1 DEF Idle
<1> QED
  BY <1>2 DEF rec

LEMMA IdleAt ==
  ASSUME NEW at, NEW row
  PROVE  [Idle EXCEPT !.at = at, !.row = row]
         = [at |-> at, row |-> row, since |-> 0, sha |-> 0, push |-> {}, remove |-> {}]
<1> DEFINE rec == [Idle EXCEPT !.at = at, !.row = row]
<1>1. rec = [Idle EXCEPT !.at = at, !.row = row]
  OBVIOUS
<1> HIDE DEF rec
<1>2. rec = [at |-> at, row |-> row, since |-> 0, sha |-> 0, push |-> {}, remove |-> {}]
  BY <1>1 DEF Idle
<1> QED
  BY <1>2 DEF rec

LEMMA RowsType ==
  ASSUME TypeInv
  PROVE  /\ Len(rows) \in Nat /\ DOMAIN rows = 1..Len(rows)
         /\ \A by \in Messages \cup {"ui"}, status \in {"pending", "approved"} :
               LET new == Append(rows, [by |-> by, status |-> status])
               IN  /\ new \in Seq(Request)
                   /\ DOMAIN new = 1..(Len(rows) + 1)
                   /\ \A q \in DOMAIN rows : new[q] = rows[q]
                   /\ new[Len(rows) + 1].status = status
         /\ \A q \in DOMAIN rows, status \in {"rejected", "ended"} :
               LET new == [rows EXCEPT ![q].status = status]
               IN  /\ new \in Seq(Request)
                   /\ DOMAIN new = DOMAIN rows
                   /\ \A r \in DOMAIN rows : new[r].status = "pending" => rows[r].status = "pending"
<1>1. Len(rows) \in Nat /\ DOMAIN rows = 1..Len(rows) /\ rows \in [1..Len(rows) -> Request]
  BY DEF TypeInv
<1>2. ASSUME NEW by \in Messages \cup {"ui"}, NEW status \in {"pending", "approved"}
      PROVE  LET new == Append(rows, [by |-> by, status |-> status])
             IN  /\ new \in Seq(Request)
                 /\ DOMAIN new = 1..(Len(rows) + 1)
                 /\ \A q \in DOMAIN rows : new[q] = rows[q]
                 /\ new[Len(rows) + 1].status = status
  <2>1. [by |-> by, status |-> status] \in Request
    BY DEF Request
  <2> QED
    BY <1>1, <2>1 DEF TypeInv
<1>3. ASSUME NEW q \in DOMAIN rows, NEW status \in {"rejected", "ended"}
      PROVE  LET new == [rows EXCEPT ![q].status = status]
             IN  /\ new \in Seq(Request)
                 /\ DOMAIN new = DOMAIN rows
                 /\ \A r \in DOMAIN rows : new[r].status = "pending" => rows[r].status = "pending"
  <2> DEFINE new == [rows EXCEPT ![q].status = status]
  <2>1. new \in [1..Len(rows) -> Request]
    BY <1>1 DEF Request
  <2>2. \A r \in DOMAIN rows : new[r].status = "pending" => rows[r].status = "pending"
    BY <1>1 DEF Request
  <2> QED
    BY <1>1, <2>1, <2>2
<1> QED
  BY <1>1, <1>2, <1>3

\* Steps of a request that leave the files and the rows alone.
LEMMA MoveTypes ==
  ASSUME Types, NEW p \in Handlers, NEW rec \in Doing, At(p, rec),
         rec.at # "idle" => rec.row \in DOMAIN rows,
         rec.at # "transfer" => rec.push = {} /\ rec.remove = {},
         rec.since <= HEAD, rec.sha <= HEAD,
         rec.at \in {"list", "transfer"} => rec.sha # 0 /\ rec.since <= rec.sha,
         UNCHANGED <<HEAD, index, remote, rows, shown, watch, faults>>,
         pointer' \in 0..HEAD, past' \in [overlap : BOOLEAN, dirty : BOOLEAN]
  PROVE  Types'
<1>1. TypeInv'
  BY AtType DEF Types, TypeInv
<1>2. FilesAreTheirs'
  BY DEF Types, FilesAreTheirs
<1>3. ShapeInv'
  BY AtType DEF Types, ShapeInv
<1> QED
  BY <1>1, <1>2, <1>3 DEF Types

LEMMA OverlapType ==
  ASSUME TypeInv, NEW p \in Handlers, Overlap(p)
  PROVE  past' \in [overlap : BOOLEAN, dirty : BOOLEAN]
  BY DEF TypeInv, Overlap

LEMMA DirtyType ==
  ASSUME TypeInv, Dirty
  PROVE  past' \in [overlap : BOOLEAN, dirty : BOOLEAN]
  BY DEF TypeInv, Dirty

\* A file that is sent is a file of a commit.
LEMMA BlobType ==
  ASSUME Types, NEW p \in Handlers, handler[p].at = "transfer"
  PROVE  handler[p].sha \in Commits
<1>1. handler[p].sha \in Nat /\ handler[p].sha # 0 /\ handler[p].sha <= HEAD
  BY DoingType DEF Types, ShapeInv, Doing
<1> QED
  BY <1>1, HistoryIsTrees DEF HistoryIsTrees, Types, TypeInv, Commits

LEMMA EndingTypes ==
  ASSUME Types, NEW p \in Handlers, Ending(p), handler[p].at \in Syncing,
         UNCHANGED <<HEAD, index, rows, shown, watch>>,
         remote' = [f \in Files |-> remote'[f]], FilesAreTheirs',
         pointer' \in 0..HEAD, past' \in [overlap : BOOLEAN, dirty : BOOLEAN],
         faults' \in 0..MaxFaults
  PROVE  Types'
<1> DEFINE rec == [Idle EXCEPT !.at = "resolve", !.row = handler[p].row]
<1>1. rec \in Doing /\ rec.at = "resolve" /\ rec.row = handler[p].row
      /\ rec.push = {} /\ rec.remove = {} /\ rec.since = 0 /\ rec.sha = 0
  BY DoingType DEF Types, Idle
<1>2. At(p, rec)
  BY DEF Ending
<1>3. handler[p].row \in DOMAIN rows
  BY DEF Types, ShapeInv, Syncing
<1>4. HEAD \in Nat
  BY DoingType DEF Types
<1> HIDE DEF rec
<1>5. TypeInv'
  BY <1>1, <1>2, AtType DEF Types, TypeInv
<1>6. ShapeInv'
  BY <1>1, <1>2, <1>3, <1>4, AtType DEF Types, ShapeInv
<1> QED
  BY <1>5, <1>6 DEF Types

\* Rows are added, or change their status: none goes, and no request is lost.
LEMMA RowsTypes ==
  ASSUME Types, rows' \in Seq(Request), DOMAIN rows \subseteq DOMAIN rows',
         UNCHANGED <<HEAD, index, remote, pointer, handler, shown, past, faults>>,
         watch' \subseteq Messages
  PROVE  Types'
<1>1. TypeInv'
  BY DEF Types, TypeInv
<1>2. FilesAreTheirs'
  BY DEF Types, FilesAreTheirs
<1>3. ShapeInv'
  BY DEF Types, ShapeInv
<1> QED
  BY <1>1, <1>2, <1>3 DEF Types

\* Requests are forgotten, and what they were sending may be torn.
LEMMA TornTypes ==
  ASSUME Types, NEW torn, Tear(torn), Dirty, Fault,
         UNCHANGED <<HEAD, index, pointer, rows, shown>>, watch' \subseteq Messages,
         handler' \in [Handlers -> Doing],
         \A q \in Handlers : handler'[q] = handler[q] \/ handler'[q] = Idle
  PROVE  Types'
<1>1. past' \in [overlap : BOOLEAN, dirty : BOOLEAN]
  BY DirtyType DEF Types
<1>2. faults' \in 0..MaxFaults
  BY BoundsAreNatural DEF BoundsAreNatural, Fault, Types, TypeInv
<1>3. TypeInv'
  BY <1>1, <1>2 DEF Types, TypeInv, Tear
<1>4. FilesAreTheirs'
  BY DEF Types, FilesAreTheirs, Tear
<1>5. HEAD \in Nat
  BY HistoryIsTrees DEF HistoryIsTrees, Types, TypeInv, Commits
<1>6. ShapeInv'
  BY <1>5 DEF Types, ShapeInv, Idle
<1> QED
  BY <1>3, <1>4, <1>6 DEF Types

LEMMA CheckoutTypes ==
  ASSUME Types, Commit \/ \E f \in Files : Stage(f)
  PROVE  Types'
<1>0. HEAD \in Nat \ {0} /\ HEAD <= Len(Trees) /\ Len(Trees) \in Nat /\ pointer \in Nat
  BY HistoryIsTrees DEF HistoryIsTrees, Types, TypeInv, Commits
<1>1. CASE Commit
  <2>1. HEAD' = HEAD + 1 /\ HEAD' \in Commits
    BY <1>0, <1>1 DEF Commit, Commits
  <2>2. index' \subseteq Files
    BY <1>1 DEF Commit, Names
  <2>3. past' \in [overlap : BOOLEAN, dirty : BOOLEAN]
    BY <1>1 DEF Commit, Types, TypeInv
  <2>4. TypeInv'
    BY <1>0, <1>1, <2>1, <2>2, <2>3 DEF Commit, Types, TypeInv
  <2>5. FilesAreTheirs'
    BY <1>1 DEF Commit, Types, FilesAreTheirs
  <2>6. \A p \in Handlers : handler[p].since \in Nat /\ handler[p].sha \in Nat
    BY DoingType DEF Types, Doing
  <2>7. ShapeInv'
    BY <1>0, <1>1, <2>1, <2>6 DEF Commit, Types, ShapeInv
  <2> QED
    BY <2>4, <2>5, <2>7 DEF Types
<1>2. ASSUME NEW f \in Files, Stage(f)
      PROVE  Types'
  <2>1. TypeInv'
    BY <1>2 DEF Stage, Types, TypeInv
  <2>2. FilesAreTheirs'
    BY <1>2 DEF Stage, Types, FilesAreTheirs
  <2>3. ShapeInv'
    BY <1>2 DEF Stage, Types, ShapeInv
  <2> QED
    BY <2>1, <2>2, <2>3 DEF Types
<1> QED
  BY <1>1, <1>2

LEMMA SyncTypes ==
  ASSUME Types, NEW p \in Handlers, handle_transport_sync(p)
  PROVE  Types'
<1>0. HEAD \in Nat \ {0} /\ pointer \in 0..HEAD /\ pointer \in Nat /\ Len(rows) \in Nat
  BY DoingType, RowsType DEF Types, TypeInv
<1> DEFINE rec == [at |-> "rev_parse", row |-> Len(rows) + 1, since |-> pointer, sha |-> 0,
                   push |-> {}, remove |-> {}]
           new == Append(rows, [by |-> "ui", status |-> "approved"])
<1>1. rec \in Doing /\ rec.at = "rev_parse" /\ rec.row = Len(rows) + 1
      /\ rec.push = {} /\ rec.remove = {} /\ rec.since = pointer /\ rec.sha = 0
  <2>1. "rev_parse" \in Places /\ Len(rows) + 1 \in Nat
    BY <1>0 DEF Places, Syncing
  <2>2. rec \in Doing
    BY <1>0, <2>1, IdleButType
  <2> QED
    BY <2>2
<1>2. At(p, rec) /\ rows' = new
  BY IdleBut DEF handle_transport_sync, sync_request_create
<1>3. new \in Seq(Request) /\ DOMAIN new = 1..(Len(rows) + 1) /\ DOMAIN rows = 1..Len(rows)
  BY RowsType DEF Types
<1>4. past' \in [overlap : BOOLEAN, dirty : BOOLEAN]
  BY OverlapType DEF handle_transport_sync, Types
<1> HIDE DEF rec, new
<1>5. TypeInv'
  BY <1>1, <1>2, <1>3, <1>4, AtType DEF handle_transport_sync, Types, TypeInv
<1>6. FilesAreTheirs'
  BY DEF handle_transport_sync, Types, FilesAreTheirs
<1>7. ShapeInv'
  <2>1. Len(rows) + 1 \in DOMAIN new /\ DOMAIN rows \subseteq DOMAIN new
    BY <1>0, <1>3
  <2> QED
    BY <1>0, <1>1, <1>2, <2>1, AtType DEF handle_transport_sync, Types, TypeInv, ShapeInv
<1> QED
  BY <1>5, <1>6, <1>7 DEF Types

LEMMA ApproveTypes ==
  ASSUME Types, NEW p \in Handlers, NEW q \in DOMAIN rows, handle_sync_request_approve(p, q)
  PROVE  Types'
<1>0. HEAD \in Nat \ {0} /\ pointer \in 0..HEAD /\ pointer \in Nat /\ Len(rows) \in Nat
  BY DoingType, RowsType DEF Types, TypeInv
<1> DEFINE rec == [at |-> "rev_parse", row |-> q, since |-> pointer, sha |-> 0,
                   push |-> {}, remove |-> {}]
<1>1. rec \in Doing /\ rec.at = "rev_parse" /\ rec.row = q
      /\ rec.push = {} /\ rec.remove = {} /\ rec.since = pointer /\ rec.sha = 0
  <2>1. "rev_parse" \in Places /\ q \in Nat
    BY RowsType DEF Types, Places, Syncing
  <2>2. rec \in Doing
    BY <1>0, <2>1, IdleButType
  <2> QED
    BY <2>2
<1>2. At(p, rec)
  <2>1. [Idle EXCEPT !.at = "rev_parse", !.since = pointer, !.row = q] = rec
    BY IdleBut, Zenon
  <2> QED
    BY <2>1, Zenon DEF handle_sync_request_approve
<1>3. past' \in [overlap : BOOLEAN, dirty : BOOLEAN]
  BY OverlapType DEF handle_sync_request_approve, Types
<1> HIDE DEF rec
<1>4. pointer' \in 0..HEAD /\ rec.since <= HEAD /\ rec.sha <= HEAD
      /\ UNCHANGED <<HEAD, index, remote, rows, shown, watch, faults>>
  BY <1>0, <1>1 DEF handle_sync_request_approve
<1> QED
  BY <1>1, <1>2, <1>3, <1>4, MoveTypes

LEMMA RejectTypes ==
  ASSUME Types, NEW p \in Handlers, NEW q \in DOMAIN rows, handle_sync_request_reject(p, q)
  PROVE  Types'
<1>0. HEAD \in Nat \ {0} /\ pointer \in 0..HEAD /\ pointer \in Nat /\ Len(rows) \in Nat
  BY DoingType, RowsType DEF Types, TypeInv
<1> DEFINE rec == [at |-> "reject", row |-> q, since |-> 0, sha |-> 0,
                   push |-> {}, remove |-> {}]
<1>1. rec \in Doing /\ rec.at = "reject" /\ rec.row = q
      /\ rec.push = {} /\ rec.remove = {} /\ rec.since = 0 /\ rec.sha = 0
  <2>1. "reject" \in Places /\ q \in Nat
    BY RowsType DEF Types, Places
  <2>2. rec \in Doing
    BY <1>0, <2>1, IdleButType
  <2> QED
    BY <2>2
<1>2. At(p, rec) /\ past' \in [overlap : BOOLEAN, dirty : BOOLEAN]
  BY IdleAt DEF handle_sync_request_reject, Types, TypeInv
<1> HIDE DEF rec
<1>4. pointer' \in 0..HEAD /\ rec.since <= HEAD /\ rec.sha <= HEAD
      /\ UNCHANGED <<HEAD, index, remote, rows, shown, watch, faults>>
  BY <1>0, <1>1 DEF handle_sync_request_reject
<1> QED
  BY <1>1, <1>2, <1>4, MoveTypes

LEMMA ResolveTypes ==
  ASSUME Types, NEW p \in Handlers, Reject(p) \/ Resolve(p)
  PROVE  Types'
<1>0. HEAD \in Nat \ {0} /\ pointer \in 0..HEAD /\ pointer \in Nat /\ Len(rows) \in Nat
  BY DoingType, RowsType DEF Types, TypeInv
<1>1. handler[p].row \in DOMAIN rows
  BY DEF Types, ShapeInv, Reject, Resolve
<1>2. rows' \in Seq(Request) /\ DOMAIN rows' = DOMAIN rows
  BY <1>1, RowsType DEF Types, Reject, Resolve, sync_request_resolve
<1>3. At(p, Idle) /\ Idle \in Doing /\ UNCHANGED <<HEAD, index, remote, pointer, shown, watch, past, faults>>
  BY DoingType DEF Types, Reject, Resolve
<1>4. TypeInv'
  BY <1>2, <1>3, AtType DEF Types, TypeInv
<1>5. FilesAreTheirs'
  BY <1>3 DEF Types, FilesAreTheirs
<1>6. ShapeInv'
  BY <1>0, <1>2, <1>3, AtType DEF Types, ShapeInv, Idle
<1> QED
  BY <1>4, <1>5, <1>6 DEF Types

LEMMA RevParseTypes ==
  ASSUME Types, NEW p \in Handlers, RevParse(p)
  PROVE  Types'
<1> DEFINE d == handler[p]
           next == IF d.since = HEAD THEN "transfer" ELSE "list"
           rec == [d EXCEPT !.sha = HEAD, !.at = next]
<1>1. d \in Doing /\ HEAD \in Nat \ {0} /\ next \in Places
  BY DoingType DEF Types, Places, Syncing
<1>2. rec \in Doing /\ rec.at = next /\ rec.sha = HEAD /\ rec.since = d.since /\ rec.row = d.row
      /\ rec.push = d.push /\ rec.remove = d.remove
  <2> HIDE DEF d, next
  <2> QED
    BY <1>1 DEF Doing
<1>3. At(p, rec)
  BY DEF RevParse
<1>4. d.row \in DOMAIN rows /\ d.push = {} /\ d.remove = {} /\ d.since <= HEAD
  BY DEF Types, ShapeInv, RevParse
<1>5. UNCHANGED <<HEAD, index, remote, rows, shown, watch, faults>> /\ pointer' \in 0..HEAD
      /\ past' \in [overlap : BOOLEAN, dirty : BOOLEAN]
  BY DEF RevParse, Types, TypeInv
<1> HIDE DEF d, rec, next
<1> QED
  BY <1>1, <1>2, <1>3, <1>4, <1>5, MoveTypes

LEMMA ListTypes ==
  ASSUME Types, NEW p \in Handlers, List(p)
  PROVE  Types'
<1> DEFINE d == handler[p]
           changed == IF d.since = 0 THEN index ELSE Differ(d.since, HEAD)
           kept == IF d.since = 0 THEN index ELSE Names(HEAD)
           push == changed \cap kept
           remove == changed \ kept
           rec == [d EXCEPT !.at = "transfer", !.push = push, !.remove = remove]
<1>1. d \in Doing /\ HEAD \in Nat \ {0} /\ "transfer" \in Places
  BY DoingType DEF Types, Places, Syncing
<1>2. push \subseteq Files /\ remove \subseteq Files
  BY DEF Types, TypeInv, Differ
<1>3. rec \in Doing /\ rec.at = "transfer" /\ rec.sha = d.sha /\ rec.since = d.since /\ rec.row = d.row
      /\ rec.push = push /\ rec.remove = remove
  <2> HIDE DEF d, push, remove
  <2> QED
    BY <1>1, <1>2 DEF Doing
<1>4. At(p, rec)
  BY DEF List
<1>5. d.row \in DOMAIN rows /\ d.since <= HEAD /\ d.sha <= HEAD /\ d.sha # 0 /\ d.since <= d.sha
  BY DEF Types, ShapeInv, List
<1>6. UNCHANGED <<HEAD, index, remote, rows, shown, watch, faults>> /\ pointer' \in 0..HEAD
      /\ past' \in [overlap : BOOLEAN, dirty : BOOLEAN]
  BY DEF List, Types, TypeInv
<1> HIDE DEF d, rec, push, remove
<1> QED
  BY <1>1, <1>3, <1>4, <1>5, <1>6, MoveTypes

\* A step of a transfer: one file less to send or to remove.
LEMMA TransferTypes ==
  ASSUME Types, NEW p \in Handlers, NEW rec \in Doing, At(p, rec), handler[p].at = "transfer",
         rec.at = "transfer", rec.row = handler[p].row,
         rec.since = handler[p].since, rec.sha = handler[p].sha,
         UNCHANGED <<HEAD, index, pointer, rows, shown, watch, faults, past>>,
         NEW f \in Files, NEW blob, remote' = [remote EXCEPT ![f] = blob],
         blob \in {Trees[c][f] : c \in Commits} \cup {None}
  PROVE  Types'
<1>1. remote' = [g \in Files |-> remote'[g]] /\ \A g \in Files : remote'[g] = IF g = f THEN blob ELSE remote[g]
  BY DEF Types, TypeInv
<1>2. TypeInv'
  BY <1>1, AtType DEF Types, TypeInv
<1>3. FilesAreTheirs'
  BY <1>1 DEF Types, FilesAreTheirs
<1>4. ShapeInv'
  BY AtType DEF Types, ShapeInv
<1> QED
  BY <1>2, <1>3, <1>4 DEF Types

LEMMA PushTypes ==
  ASSUME Types, NEW p \in Handlers, NEW f \in Files, Push(p, f)
  PROVE  Types'
<1> DEFINE d == handler[p]
           blob == Trees[d.sha][f]
           push == d.push \ {f}
           rec == [d EXCEPT !.push = push]
<1>0. d.at = "transfer" /\ d.sha \in Commits
  BY BlobType DEF Push
<1>1. CASE blob = None
  <2>1. FilesAreTheirs' /\ remote' = [g \in Files |-> remote'[g]]
    BY <1>1 DEF Push, Types, TypeInv, FilesAreTheirs
  <2>2. Ending(p) /\ d.at \in Syncing /\ UNCHANGED <<HEAD, index, pointer, rows, shown, watch, faults>>
    BY <1>1 DEF Push, Syncing
  <2>3. past' \in [overlap : BOOLEAN, dirty : BOOLEAN] /\ pointer' \in 0..HEAD /\ faults' \in 0..MaxFaults
    BY <1>1, <2>2, DirtyType DEF Push, Types, TypeInv
  <2> QED
    BY <2>1, <2>2, <2>3, EndingTypes
<1>2. CASE blob # None
  <2>1. d \in Doing /\ push \subseteq Files
    BY DoingType DEF Types, Doing
  <2>2. rec \in Doing /\ rec.at = d.at /\ rec.row = d.row /\ rec.since = d.since /\ rec.sha = d.sha
    <3> HIDE DEF d, push
    <3> QED
      BY <2>1 DEF Doing
  <2>3. At(p, rec) /\ UNCHANGED <<HEAD, index, pointer, rows, shown, watch, faults, past>>
        /\ remote' = [remote EXCEPT ![f] = blob]
    BY <1>2 DEF Push
  <2>4. blob \in {Trees[c][f] : c \in Commits} \cup {None}
    BY <1>0
  <2> HIDE DEF rec, blob
  <2> QED
    BY <1>0, <2>2, <2>3, <2>4, TransferTypes
<1> QED
  BY <1>1, <1>2

LEMMA RemoveTypes ==
  ASSUME Types, NEW p \in Handlers, NEW f \in Files, Remove(p, f)
  PROVE  Types'
<1> DEFINE d == handler[p]
           remove == d.remove \ {f}
           rec == [d EXCEPT !.remove = remove]
<1>1. d \in Doing /\ remove \subseteq Files /\ d.at = "transfer"
  BY DoingType DEF Types, Doing, Remove
<1>2. rec \in Doing /\ rec.at = d.at /\ rec.row = d.row /\ rec.since = d.since /\ rec.sha = d.sha
  <2> HIDE DEF d, remove
  <2> QED
    BY <1>1 DEF Doing
<1>3. At(p, rec) /\ UNCHANGED <<HEAD, index, pointer, rows, shown, watch, faults, past>>
      /\ remote' = [remote EXCEPT ![f] = None]
  BY DEF Remove
<1> HIDE DEF rec
<1> QED
  BY <1>1, <1>2, <1>3, TransferTypes

LEMMA AdvanceTypes ==
  ASSUME Types, NEW p \in Handlers, Advance(p)
  PROVE  Types'
<1>1. pointer' \in 0..HEAD
  <2>1. handler[p].sha \in Nat /\ handler[p].sha <= HEAD /\ HEAD \in Nat
    BY DoingType DEF Types, ShapeInv, Doing
  <2> QED
    BY <2>1 DEF Advance
<1>2. FilesAreTheirs' /\ remote' = [f \in Files |-> remote'[f]]
  BY DEF Advance, Types, TypeInv, FilesAreTheirs
<1>3. Ending(p) /\ handler[p].at \in Syncing /\ UNCHANGED <<HEAD, index, rows, shown, watch, past, faults>>
  BY DEF Advance, Transferred, Syncing
<1> QED
  BY <1>1, <1>2, <1>3, EndingTypes DEF Types, TypeInv

LEMMA FailTypes ==
  ASSUME Types, NEW p \in Handlers, SyncError(p) \/ Escape(p)
  PROVE  Types'
<1>1. PICK torn : Tear(torn)
  BY DEF SyncError, Escape
<1>2. Fault /\ Dirty /\ UNCHANGED <<HEAD, index, pointer, rows, shown, watch>>
  BY DEF SyncError, Escape
<1>3. past' \in [overlap : BOOLEAN, dirty : BOOLEAN] /\ faults' \in 0..MaxFaults /\ pointer' \in 0..HEAD
  BY <1>2, DirtyType, BoundsAreNatural DEF BoundsAreNatural, Fault, Types, TypeInv
<1>4. FilesAreTheirs' /\ remote' = [f \in Files |-> remote'[f]]
  BY <1>1 DEF Types, FilesAreTheirs, Tear
<1>5. CASE SyncError(p)
  <2>1. Ending(p) /\ handler[p].at \in Syncing
    BY <1>5 DEF SyncError
  <2> QED
    BY <1>2, <1>3, <1>4, <2>1, EndingTypes
<1>6. CASE Escape(p)
  <2>1. At(p, Idle) /\ Idle \in Doing
    BY <1>6, DoingType DEF Escape, Types
  <2>2. handler' \in [Handlers -> Doing] /\ \A q \in Handlers : handler'[q] = handler[q] \/ handler'[q] = Idle
    BY <2>1, AtType DEF Types
  <2>3. watch' \subseteq Messages
    BY <1>2 DEF Types, TypeInv
  <2> QED
    BY <1>1, <1>2, <2>2, <2>3, TornTypes
<1> QED
  BY <1>5, <1>6

LEMMA RestartTypes ==
  ASSUME Types, Restart
  PROVE  Types'
<1>1. PICK torn : Tear(torn)
  BY DEF Restart
<1>2. handler' \in [Handlers -> Doing] /\ \A q \in Handlers : handler'[q] = Idle
  BY DoingType DEF Restart, Types
<1> QED
  BY <1>1, <1>2, TornTypes DEF Restart

LEMMA WatcherTypes ==
  ASSUME Types, \/ agent_traffic \/ PassFails
                \/ \E m \in Messages : Message(m) \/ Queue(m) \/ QueueFails(m)
  PROVE  Types'
<1>1. ASSUME NEW m \in Messages, Queue(m)
      PROVE  Types'
  <2>1. rows' \in Seq(Request) /\ DOMAIN rows' = 1..(Len(rows) + 1) /\ DOMAIN rows = 1..Len(rows) /\ Len(rows) \in Nat
    BY <1>1, RowsType DEF Queue, sync_request_create, Types
  <2>2. UNCHANGED <<HEAD, index, remote, pointer, handler, shown, past, faults>> /\ watch' \subseteq Messages
    BY <1>1 DEF Queue
  <2>3. DOMAIN rows \subseteq DOMAIN rows'
    BY <2>1
  <2> QED
    BY <2>1, <2>2, <2>3, RowsTypes
<1>2. ASSUME NEW m \in Messages, Message(m) \/ QueueFails(m) \/ agent_traffic \/ PassFails
      PROVE  Types'
  <2>1. UNCHANGED <<HEAD, index, remote, pointer, rows, handler, past>>
    BY <1>2 DEF Message, QueueFails, agent_traffic, PassFails
  <2>2. watch' \cup shown' \subseteq Messages
    BY <1>2 DEF Message, QueueFails, agent_traffic, PassFails, Types, TypeInv
  <2>3. faults' \in 0..MaxFaults
    BY <1>2, BoundsAreNatural
       DEF BoundsAreNatural, Message, QueueFails, agent_traffic, PassFails, Fault, Types, TypeInv
  <2>4. TypeInv'
    BY <2>1, <2>2, <2>3 DEF Types, TypeInv
  <2>5. FilesAreTheirs'
    BY <2>1 DEF Types, FilesAreTheirs
  <2>6. ShapeInv'
    BY <2>1 DEF Types, ShapeInv
  <2> QED
    BY <2>4, <2>5, <2>6 DEF Types
<1>3. CASE Messages = {}
  <2>1. watch = {} /\ shown = {}
    BY <1>3 DEF Types, TypeInv
  <2>2. UNCHANGED <<HEAD, index, remote, pointer, rows, handler, past, shown, watch, faults>>
    BY <1>3, <2>1 DEF agent_traffic, PassFails
  <2>3. TypeInv'
    BY <2>2 DEF Types, TypeInv
  <2>4. FilesAreTheirs' /\ ShapeInv'
    BY <2>2 DEF Types, FilesAreTheirs, ShapeInv
  <2> QED
    BY <2>3, <2>4 DEF Types
<1> QED
  BY <1>1, <1>2, <1>3

LEMMA TypeStep == Types /\ [Next]_vars => Types'
<1> SUFFICES ASSUME Types, [Next]_vars PROVE Types'
  OBVIOUS
<1>1. CASE UNCHANGED vars
  <2>1. TypeInv'
    BY <1>1 DEF vars, Types, TypeInv
  <2>2. FilesAreTheirs' /\ ShapeInv'
    BY <1>1 DEF vars, Types, FilesAreTheirs, ShapeInv
  <2> QED
    BY <2>1, <2>2 DEF Types
<1>2. CASE Next
  BY <1>2, CheckoutTypes, SyncTypes, ApproveTypes, RejectTypes, ResolveTypes, RevParseTypes, ListTypes,
     PushTypes, RemoveTypes, AdvanceTypes, FailTypes, RestartTypes, WatcherTypes
     DEF Next, Sync, Watcher
<1> QED
  BY <1>1, <1>2

-----------------------------------------------------------------------------
(* One request waits. *)

LEMMA PassStep == Types /\ PassInv /\ [Next]_vars => PassInv'
<1> SUFFICES ASSUME Types, PassInv, [Next]_vars PROVE PassInv'
  OBVIOUS
<1>0. Pending = {q \in DOMAIN rows : rows[q].status = "pending"}
  BY DEF Pending
<1>1. ASSUME NEW p \in Handlers, handle_transport_sync(p)
      PROVE  PassInv'
  <2>1. rows' = Append(rows, [by |-> "ui", status |-> "approved"]) /\ watch' = watch
    BY <1>1 DEF handle_transport_sync, sync_request_create
  <2>2. /\ Len(rows) \in Nat /\ DOMAIN rows = 1..Len(rows) /\ DOMAIN rows' = 1..(Len(rows) + 1)
        /\ \A q \in DOMAIN rows : rows'[q] = rows[q]
        /\ rows'[Len(rows) + 1].status = "approved"
    BY <2>1, RowsType DEF Types
  <2>3. Pending' = Pending
    BY <2>2 DEF Pending
  <2> QED
    BY <2>1, <2>3 DEF PassInv
<1>2. ASSUME NEW p \in Handlers, Reject(p) \/ Resolve(p)
      PROVE  PassInv'
  <2>1. handler[p].row \in DOMAIN rows /\ watch' = watch
    BY <1>2 DEF Types, ShapeInv, Reject, Resolve
  <2>2. PICK status \in {"rejected", "ended"} : rows' = [rows EXCEPT ![handler[p].row].status = status]
    BY <1>2 DEF Reject, Resolve, sync_request_resolve
  <2>3. DOMAIN rows' = DOMAIN rows /\ \A r \in DOMAIN rows : rows'[r].status = "pending" => rows[r].status = "pending"
    BY <2>1, <2>2, RowsType DEF Types
  <2>4. Pending' \subseteq Pending
    BY <2>3 DEF Pending
  <2> QED
    BY <2>1, <2>4 DEF PassInv
<1>3. ASSUME NEW m \in Messages, Queue(m)
      PROVE  PassInv'
  <2>1. rows' = Append(rows, [by |-> m, status |-> "pending"]) /\ watch' = {} /\ Pending = {}
    BY <1>3 DEF Queue, sync_request_create, PassInv
  <2>2. /\ Len(rows) \in Nat /\ DOMAIN rows = 1..Len(rows) /\ DOMAIN rows' = 1..(Len(rows) + 1)
        /\ \A q \in DOMAIN rows : rows'[q] = rows[q]
    BY <2>1, RowsType DEF Types
  <2>3. Pending' \subseteq {Len(rows) + 1}
    BY <2>1, <2>2 DEF Pending
  <2> QED
    BY <2>1, <2>3 DEF PassInv
<1>4. ASSUME UNCHANGED rows, watch' \subseteq watch \/ Pending = {}
      PROVE  PassInv'
  BY <1>4 DEF PassInv, Pending
<1>5. ASSUME NEW p \in Handlers, \E f \in Files : Push(p, f) \/ Remove(p, f)
      PROVE  UNCHANGED <<rows, watch>>
  BY <1>5 DEF Push, Remove
<1>6. ASSUME NEW p \in Handlers, \/ RevParse(p) \/ List(p) \/ Advance(p)
                                \/ SyncError(p) \/ Escape(p)
                                \/ \E q \in DOMAIN rows : \/ handle_sync_request_approve(p, q)
                                                         \/ handle_sync_request_reject(p, q)
      PROVE  UNCHANGED <<rows, watch>>
  BY <1>6 DEF RevParse, List, Advance, SyncError, Escape, handle_sync_request_approve, handle_sync_request_reject
<1>7. ASSUME Commit \/ \E f \in Files : Stage(f)
      PROVE  UNCHANGED <<rows, watch>>
  BY <1>7 DEF Commit, Stage
<1>8. ASSUME \/ Restart \/ PassFails \/ \E m \in Messages : Message(m) \/ QueueFails(m)
      PROVE  UNCHANGED rows /\ watch' \subseteq watch
  BY <1>8 DEF Restart, PassFails, Message, QueueFails
<1>9. agent_traffic => UNCHANGED rows /\ Pending = {}
  BY DEF agent_traffic, Considered
<1>10. UNCHANGED vars => UNCHANGED <<rows, watch>>
  BY DEF vars
<1> QED
  BY <1>1, <1>2, <1>3, <1>4, <1>5, <1>6, <1>7, <1>8, <1>9, <1>10 DEF Next, Sync, Watcher

LEMMA TypesGiveTypeOK == Types => TypeOK
<1> SUFFICES ASSUME Types PROVE TypeOK
  OBVIOUS
<1>1. HEAD \in Commits /\ index \subseteq Files /\ pointer \in 0..HEAD /\ HEAD \in Nat
  BY HistoryIsTrees DEF HistoryIsTrees, Commits, Types, TypeInv
<1>2. \A f \in Files : remote[f] \in {Trees[c][f] : c \in Commits} \cup {None, Torn}
  BY DEF Types, FilesAreTheirs
<1>3. \A q \in DOMAIN rows : rows[q] \in Request
  BY DEF Types, TypeInv
<1>4. \A q \in DOMAIN rows :
        /\ rows[q].by \in Messages \cup {"ui"}
        /\ rows[q].status \in {"pending", "approved", "rejected", "ended"}
  BY <1>3 DEF Request
<1>5. ASSUME NEW p \in Handlers
      PROVE  /\ handler[p].since \in 0..HEAD /\ handler[p].sha \in 0..HEAD
             /\ handler[p].push \cup handler[p].remove \subseteq Files
             /\ handler[p].at # "idle" => handler[p].row \in DOMAIN rows
  <2>1. handler[p] \in Doing
    BY DoingType DEF Types
  <2>2. handler[p].since <= HEAD /\ handler[p].sha <= HEAD
        /\ (handler[p].at # "idle" => handler[p].row \in DOMAIN rows)
    BY DEF Types, ShapeInv
  <2> QED
    BY <1>1, <2>1, <2>2 DEF Doing
<1>6. watch \cup shown \subseteq Messages /\ past.overlap \in BOOLEAN /\ past.dirty \in BOOLEAN
      /\ faults \in 0..MaxFaults
  BY DEF Types, TypeInv
<1> QED
  BY <1>1, <1>2, <1>4, <1>5, <1>6 DEF TypeOK

\* What a handler, a pass of the watcher and the rows hold keeps its type, for
\* any history, any number of requests in flight and any failures.
THEOREM TypeCorrect == Spec => []Types
<1>1. Init => Types
  BY TypeInit DEF Types
<1> QED
  BY <1>1, TypeStep, PTL DEF Spec

\* However many passes, requests and restarts: at most one request for the
\* transport waits for a decision (queue_agent_sync_request).
THEOREM OneWaits == Spec => []OnePending
<1>1. Init => Types /\ PassInv
  BY TypeInit DEF Types
<1>2. Types /\ PassInv /\ [Next]_vars => (Types /\ PassInv)'
  BY TypeStep, PassStep
<1>3. Types /\ PassInv => OnePending
  <2> SUFFICES ASSUME Types, PassInv PROVE OnePending
    OBVIOUS
  <2>1. Cardinality(Pending) <= 1
    <3>1. CASE Pending = {}
      BY <3>1, FS_EmptySet
    <3>2. CASE Pending # {}
      <4>1. PICK q : Pending = {q}
        BY <3>2 DEF PassInv
      <4> QED
        BY <4>1, FS_Singleton
    <3> QED
      BY <3>1, <3>2
  <2> QED
    BY <2>1, TypesGiveTypeOK DEF OnePending
<1> QED
  BY <1>1, <1>2, <1>3, PTL DEF Spec

-----------------------------------------------------------------------------
(* What a step is to the syncs. *)

Others(p) == \A q \in Handlers \ {p} : handler'[q] = handler[q]

Goes(p, at, since, sha, push, remove) ==
    /\ Others(p)
    /\ handler'[p].at = at /\ handler'[p].since = since /\ handler'[p].sha = sha
    /\ handler'[p].push = push /\ handler'[p].remove = remove

Starts(p) ==
    /\ handler[p].at = "idle"
    /\ Goes(p, "rev_parse", pointer, 0, {}, {})
    /\ past'.dirty = past.dirty /\ (past.overlap => past'.overlap)
    /\ ~past'.overlap => \A q \in Handlers \ {p} : ~Working(q)
    /\ UNCHANGED <<HEAD, index, remote, pointer>>

Parses(p) ==
    LET d == handler[p]
    IN  /\ d.at = "rev_parse"
        /\ Goes(p, IF d.since = HEAD THEN "transfer" ELSE "list", d.since, HEAD, {}, {})
        /\ UNCHANGED <<HEAD, index, remote, pointer, past>>

Lists(p) ==
    LET since   == handler[p].since
        changed == IF since = 0 THEN index ELSE Differ(since, HEAD)
        kept    == IF since = 0 THEN index ELSE Names(HEAD)
    IN  /\ handler[p].at = "list"
        /\ Goes(p, "transfer", since, handler[p].sha, changed \cap kept, changed \ kept)
        /\ past'.overlap = past.overlap
        /\ ~past'.dirty => ~past.dirty /\ (since = 0 => index = Names(HEAD))
        /\ UNCHANGED <<HEAD, index, remote, pointer>>

Writes(f, blob) == \A g \in Files : remote'[g] = IF g = f THEN blob ELSE remote[g]

Sends(p, f) ==
    LET d == handler[p]
    IN  /\ d.at = "transfer" /\ f \in d.push
        /\ Goes(p, "transfer", d.since, d.sha, d.push \ {f}, d.remove)
        /\ Writes(f, Trees[d.sha][f])
        /\ UNCHANGED <<HEAD, index, pointer, past>>

Removes(p, f) ==
    LET d == handler[p]
    IN  /\ d.at = "transfer" /\ f \in d.remove
        /\ Goes(p, "transfer", d.since, d.sha, d.push, d.remove \ {f})
        /\ Writes(f, None)
        /\ UNCHANGED <<HEAD, index, pointer, past>>

Advances(p) ==
    LET d == handler[p]
    IN  /\ d.at = "transfer" /\ d.push = {} /\ d.remove = {}
        /\ Goes(p, "resolve", 0, 0, {}, {})
        /\ pointer' = d.sha
        /\ UNCHANGED <<HEAD, index, remote, past>>

\* Some requests end, and what they were sending may be torn or left undone.
Fails ==
    /\ \A q \in Handlers : handler'[q] = handler[q] \/ handler'[q].at \in {"idle", "resolve"}
    /\ \A f \in Files :
          remote'[f] = remote[f]
          \/ \E q \in Handlers : f \in handler[q].push /\ handler'[q].at \in {"idle", "resolve"}
    /\ past'.dirty /\ past'.overlap = past.overlap
    /\ UNCHANGED <<HEAD, index, pointer>>

\* Nothing that a sync depends on.
Rests ==
    /\ \A q \in Handlers : handler'[q] = handler[q] \/ (~Working(q) /\ handler'[q].at \notin Syncing)
    /\ Unstages = {} => index \subseteq index'
    /\ UNCHANGED <<HEAD, remote, pointer, past>>

Step ==
    \/ Commit \/ Fails \/ Rests
    \/ \E p \in Handlers : \/ Starts(p) \/ Parses(p) \/ Lists(p) \/ Advances(p)
                           \/ \E f \in Files : Sends(p, f) \/ Removes(p, f)

LEMMA GoesBy ==
  ASSUME TypeInv, NEW p \in Handlers, NEW rec, At(p, rec)
  PROVE  Goes(p, rec.at, rec.since, rec.sha, rec.push, rec.remove)
  BY DEF TypeInv, At, Goes, Others

LEMMA StartsBy ==
  ASSUME Types, NEW p \in Handlers,
         handle_transport_sync(p) \/ \E q \in DOMAIN rows : handle_sync_request_approve(p, q)
  PROVE  Starts(p)
<1>1. PICK row : At(p, [Idle EXCEPT !.at = "rev_parse", !.since = pointer, !.row = row])
  BY DEF handle_transport_sync, handle_sync_request_approve
<1> DEFINE rec == [at |-> "rev_parse", row |-> row, since |-> pointer, sha |-> 0,
                   push |-> {}, remove |-> {}]
<1>2. At(p, rec) /\ rec.at = "rev_parse" /\ rec.since = pointer /\ rec.sha = 0
      /\ rec.push = {} /\ rec.remove = {}
  BY <1>1, IdleBut
<1> HIDE DEF rec
<1>3. Goes(p, "rev_parse", pointer, 0, {}, {})
  BY <1>2, GoesBy DEF Types
<1>4. handler[p].at = "idle" /\ Overlap(p) /\ UNCHANGED <<HEAD, index, remote, pointer>>
  BY DEF handle_transport_sync, handle_sync_request_approve
<1>5. /\ past'.dirty = past.dirty /\ (past.overlap => past'.overlap)
      /\ ~past'.overlap => \A q \in Handlers \ {p} : ~Working(q)
  BY <1>4 DEF Overlap, Types, TypeInv
<1> QED
  BY <1>3, <1>4, <1>5 DEF Starts

LEMMA ParsesBy ==
  ASSUME Types, NEW p \in Handlers, RevParse(p)
  PROVE  Parses(p)
<1> DEFINE d == handler[p]
           next == IF d.since = HEAD THEN "transfer" ELSE "list"
           rec == [d EXCEPT !.sha = HEAD, !.at = next]
<1>1. d \in Doing
  BY DoingType DEF Types
<1>2. rec.at = next /\ rec.sha = HEAD /\ rec.since = d.since /\ rec.push = d.push /\ rec.remove = d.remove
  <2> HIDE DEF d, next
  <2> QED
    BY <1>1 DEF Doing
<1>3. At(p, rec)
  BY DEF RevParse
<1>4. d.at = "rev_parse" /\ d.push = {} /\ d.remove = {}
  BY DEF Types, ShapeInv, RevParse
<1>5. Goes(p, next, d.since, HEAD, {}, {})
  <2> HIDE DEF rec
  <2> QED
    BY <1>2, <1>3, <1>4, GoesBy DEF Types
<1> QED
  BY <1>4, <1>5 DEF Parses, RevParse

LEMMA ListsBy ==
  ASSUME Types, NEW p \in Handlers, List(p)
  PROVE  Lists(p)
<1> DEFINE d == handler[p]
           changed == IF d.since = 0 THEN index ELSE Differ(d.since, HEAD)
           kept == IF d.since = 0 THEN index ELSE Names(HEAD)
           push == changed \cap kept
           remove == changed \ kept
           rec == [d EXCEPT !.at = "transfer", !.push = push, !.remove = remove]
<1>1. d \in Doing
  BY DoingType DEF Types
<1>2. rec.at = "transfer" /\ rec.sha = d.sha /\ rec.since = d.since /\ rec.push = push /\ rec.remove = remove
  <2> HIDE DEF d, push, remove
  <2> QED
    BY <1>1 DEF Doing
<1>3. At(p, rec)
  BY DEF List
<1>4. Goes(p, "transfer", d.since, d.sha, push, remove)
  <2> HIDE DEF rec, push, remove
  <2> QED
    BY <1>2, <1>3, GoesBy DEF Types
<1>5. past'.overlap = past.overlap /\ (~past'.dirty => ~past.dirty /\ (d.since = 0 => index = Names(HEAD)))
  BY DEF List, Types, TypeInv
<1> QED
  BY <1>4, <1>5 DEF Lists, List

LEMMA EndsBy ==
  ASSUME Types, NEW p \in Handlers, Ending(p)
  PROVE  Goes(p, "resolve", 0, 0, {}, {})
<1> DEFINE rec == [at |-> "resolve", row |-> handler[p].row, since |-> 0, sha |-> 0,
                   push |-> {}, remove |-> {}]
<1>1. At(p, rec) /\ rec.at = "resolve" /\ rec.since = 0 /\ rec.sha = 0 /\ rec.push = {} /\ rec.remove = {}
  BY IdleAt DEF Ending
<1> HIDE DEF rec
<1> QED
  BY <1>1, GoesBy DEF Types

LEMMA AdvancesBy ==
  ASSUME Types, NEW p \in Handlers, Advance(p)
  PROVE  Advances(p)
  BY EndsBy DEF Advance, Transferred, Advances

LEMMA PushBy ==
  ASSUME Types, NEW p \in Handlers, NEW f \in Files, Push(p, f)
  PROVE  Sends(p, f) \/ Fails
<1> DEFINE d == handler[p]
           blob == Trees[d.sha][f]
           push == d.push \ {f}
           rec == [d EXCEPT !.push = push]
<1>1. CASE blob = None
  <2>1. Goes(p, "resolve", 0, 0, {}, {}) /\ UNCHANGED <<HEAD, index, pointer, remote>>
    BY <1>1, EndsBy DEF Push
  <2>2. past'.dirty /\ past'.overlap = past.overlap
    BY <1>1 DEF Push, Dirty, Types, TypeInv
  <2> QED
    BY <2>1, <2>2 DEF Fails, Goes, Others
<1>2. CASE blob # None
  <2>1. d \in Doing
    BY DoingType DEF Types
  <2>2. rec.at = d.at /\ rec.since = d.since /\ rec.sha = d.sha /\ rec.push = push /\ rec.remove = d.remove
    <3> HIDE DEF d, push
    <3> QED
      BY <2>1 DEF Doing
  <2>3. At(p, rec) /\ UNCHANGED <<HEAD, index, pointer, past>> /\ remote' = [remote EXCEPT ![f] = blob]
        /\ d.at = "transfer" /\ f \in d.push
    BY <1>2 DEF Push
  <2>4. Goes(p, "transfer", d.since, d.sha, push, d.remove)
    <3> HIDE DEF rec, push
    <3> QED
      BY <2>2, <2>3, GoesBy DEF Types
  <2>5. Writes(f, blob)
    BY <2>3 DEF Writes, Types, TypeInv
  <2> QED
    BY <2>3, <2>4, <2>5 DEF Sends
<1> QED
  BY <1>1, <1>2

LEMMA RemovesBy ==
  ASSUME Types, NEW p \in Handlers, NEW f \in Files, Remove(p, f)
  PROVE  Removes(p, f)
<1> DEFINE d == handler[p]
           remove == d.remove \ {f}
           rec == [d EXCEPT !.remove = remove]
<1>1. d \in Doing
  BY DoingType DEF Types
<1>2. rec.at = d.at /\ rec.since = d.since /\ rec.sha = d.sha /\ rec.push = d.push /\ rec.remove = remove
  <2> HIDE DEF d, remove
  <2> QED
    BY <1>1 DEF Doing
<1>3. At(p, rec) /\ UNCHANGED <<HEAD, index, pointer, past>> /\ remote' = [remote EXCEPT ![f] = None]
      /\ d.at = "transfer" /\ f \in d.remove
  BY DEF Remove
<1>4. Goes(p, "transfer", d.since, d.sha, d.push, remove)
  <2> HIDE DEF rec, remove
  <2> QED
    BY <1>2, <1>3, GoesBy DEF Types
<1>5. Writes(f, None)
  BY <1>3 DEF Writes, Types, TypeInv
<1> QED
  BY <1>3, <1>4, <1>5 DEF Removes

LEMMA FailsBy ==
  ASSUME Types, Restart \/ \E p \in Handlers : SyncError(p) \/ Escape(p)
  PROVE  Fails
<1>0. past'.dirty /\ past'.overlap = past.overlap /\ UNCHANGED <<HEAD, index, pointer>>
  BY DEF Restart, SyncError, Escape, Dirty, Types, TypeInv
<1>1. CASE Restart
  <2>1. PICK torn \in SUBSET UNION {handler[p].push : p \in Handlers} : Tear(torn)
    BY <1>1 DEF Restart
  <2>2. \A q \in Handlers : handler'[q].at = "idle"
    BY <1>1 DEF Restart, Idle
  <2>3. \A f \in Files : remote'[f] = remote[f] \/ \E q \in Handlers : f \in handler[q].push
    BY <2>1 DEF Tear
  <2> QED
    BY <1>0, <2>2, <2>3 DEF Fails
<1>2. ASSUME NEW p \in Handlers, SyncError(p) \/ Escape(p)
      PROVE  Fails
  <2>1. PICK torn \in {{}} \cup {{f} : f \in handler[p].push} : Tear(torn)
    BY <1>2 DEF SyncError, Escape
  <2>2. Others(p) /\ handler'[p].at \in {"idle", "resolve"}
    <3>1. CASE SyncError(p)
      BY <3>1, EndsBy DEF SyncError, Goes
    <3>2. CASE Escape(p)
      <4>1. At(p, Idle) /\ Idle.at = "idle"
        BY <3>2 DEF Escape, Idle
      <4> QED
        BY <4>1, GoesBy DEF Types, Goes
    <3> QED
      BY <1>2, <3>1, <3>2
  <2>3. \A f \in Files : remote'[f] = remote[f] \/ f \in handler[p].push
    BY <2>1 DEF Tear
  <2> QED
    BY <1>0, <2>2, <2>3 DEF Fails, Others
<1> QED
  BY <1>1, <1>2

LEMMA RestsBy ==
  ASSUME Types,
         \/ \E f \in Files : Stage(f)
         \/ \E p \in Handlers : \/ Reject(p) \/ Resolve(p)
                                \/ \E q \in DOMAIN rows : handle_sync_request_reject(p, q)
         \/ \E m \in Messages : Message(m) \/ Queue(m) \/ QueueFails(m)
         \/ agent_traffic \/ PassFails \/ UNCHANGED vars
  PROVE  Rests
<1>1. CASE \E f \in Files : Stage(f)
  BY <1>1 DEF Stage, Rests
<1>2. ASSUME NEW p \in Handlers, \/ Reject(p) \/ Resolve(p)
                                \/ \E q \in DOMAIN rows : handle_sync_request_reject(p, q)
      PROVE  Rests
  <2>1. PICK rec : At(p, rec) /\ rec.at \in {"idle", "reject"}
    <3>1. CASE Reject(p) \/ Resolve(p)
      BY <3>1 DEF Reject, Resolve, Idle
    <3>2. ASSUME NEW q \in DOMAIN rows, handle_sync_request_reject(p, q)
          PROVE  \E rec : At(p, rec) /\ rec.at \in {"idle", "reject"}
      <4>1. At(p, [at |-> "reject", row |-> q, since |-> 0, sha |-> 0, push |-> {}, remove |-> {}])
        BY <3>2, IdleAt DEF handle_sync_request_reject
      <4> QED
        BY <4>1
    <3> QED
      BY <1>2, <3>1, <3>2
  <2>2. Others(p) /\ handler'[p].at \in {"idle", "reject"}
    BY <2>1, GoesBy DEF Types, Goes
  <2>3. ~Working(p) /\ UNCHANGED <<HEAD, index, remote, pointer, past>>
    BY <1>2 DEF Reject, Resolve, handle_sync_request_reject, Working, Syncing
  <2> QED
    BY <2>2, <2>3 DEF Rests, Others, Syncing
<1>3. CASE \/ \E m \in Messages : Message(m) \/ Queue(m) \/ QueueFails(m)
           \/ agent_traffic \/ PassFails \/ UNCHANGED vars
  <2>1. UNCHANGED <<HEAD, index, remote, pointer, past, handler>>
    BY <1>3 DEF Message, Queue, QueueFails, agent_traffic, PassFails, vars
  <2> QED
    BY <2>1 DEF Rests
<1> QED
  BY <1>1, <1>2, <1>3

LEMMA Classified == Types /\ [Next]_vars => Step
<1> SUFFICES ASSUME Types, [Next]_vars PROVE Step
  OBVIOUS
<1>1. CASE \/ Restart \/ \E p \in Handlers : SyncError(p) \/ Escape(p)
  BY <1>1, FailsBy DEF Step
<1>2. CASE \/ \E f \in Files : Stage(f)
           \/ \E p \in Handlers : \/ Reject(p) \/ Resolve(p)
                                  \/ \E q \in DOMAIN rows : handle_sync_request_reject(p, q)
           \/ \E m \in Messages : Message(m) \/ Queue(m) \/ QueueFails(m)
           \/ agent_traffic \/ PassFails \/ UNCHANGED vars
  BY <1>2, RestsBy DEF Step
<1>3. CASE \E p \in Handlers :
              \/ handle_transport_sync(p) \/ \E q \in DOMAIN rows : handle_sync_request_approve(p, q)
              \/ RevParse(p) \/ List(p) \/ Advance(p)
  BY <1>3, StartsBy, ParsesBy, ListsBy, AdvancesBy DEF Step
<1>4. CASE \E p \in Handlers : \E f \in Files : Push(p, f) \/ Remove(p, f)
  BY <1>4, PushBy, RemovesBy DEF Step
<1>5. CASE Commit
  BY <1>5 DEF Step
<1> QED
  BY <1>1, <1>2, <1>3, <1>4, <1>5 DEF Next, Sync, Watcher

-----------------------------------------------------------------------------
(* What a sync that knows the pointer can count on. *)

\* What differs from an earlier commit and does not return differs from HEAD.
LEMMA StillDiffers ==
  ASSUME TypeInv, NEW c \in Nat, NEW h \in c..HEAD, c # 0,
         NEW f \in Files \ Returning, Trees[c][f] # Trees[h][f]
  PROVE  f \in Differ(c, HEAD)
<1>1. HEAD \in Commits /\ c \in Commits /\ h \in Commits /\ c < h /\ Len(Trees) \in Nat /\ HEAD \in Nat
  BY HistoryIsTrees DEF HistoryIsTrees, TypeInv, Commits
<1>2. CASE h = HEAD
  BY <1>2 DEF Differ
<1>3. CASE h < HEAD
  BY <1>1, <1>3 DEF Differ, Returning
<1> QED
  BY <1>1, <1>2, <1>3

LEMMA Fields ==
  ASSUME Types, NEW p \in Handlers
  PROVE  /\ handler[p].since \in Nat /\ handler[p].sha \in Nat
         /\ handler[p].push \subseteq Files /\ handler[p].remove \subseteq Files
         /\ HEAD \in Nat \ {0} /\ pointer \in 0..HEAD
         /\ handler[p].sha <= HEAD /\ handler[p].since <= HEAD
         /\ handler[p].at \in {"list", "transfer"} => handler[p].sha # 0 /\ handler[p].since <= handler[p].sha
         /\ handler[p].at # "transfer" => handler[p].push = {} /\ handler[p].remove = {}
<1>1. handler[p] \in Doing /\ HEAD \in Nat \ {0} /\ pointer \in 0..HEAD
  BY DoingType DEF Types, TypeInv
<1>2. handler[p].since \in Nat /\ handler[p].sha \in Nat
      /\ handler[p].push \subseteq Files /\ handler[p].remove \subseteq Files
  BY <1>1 DEF Doing
<1> QED
  BY <1>1, <1>2 DEF Types, ShapeInv

\* Once two have overlapped, they have.
LEMMA CleanStays ==
  ASSUME Types, Step, Clean'
  PROVE  Clean
<1>1. ASSUME NEW p \in Handlers, \/ Starts(p) \/ Parses(p) \/ Lists(p) \/ Advances(p)
                                \/ \E f \in Files : Sends(p, f) \/ Removes(p, f)
      PROVE  past.overlap => past'.overlap
  BY <1>1 DEF Starts, Parses, Lists, Advances, Sends, Removes
<1>2. Commit => (past.overlap => past'.overlap)
  BY DEF Commit, Types, TypeInv
<1>3. past.overlap => past'.overlap
  BY <1>1, <1>2 DEF Step, Fails, Rests
<1> QED
  BY <1>3 DEF Clean

LEMMA IndexStep ==
  ASSUME Types, IndexInv, Step
  PROVE  IndexInv'
<1>1. CASE Commit
  BY <1>1 DEF Commit, IndexInv, Names
<1>2. CASE Fails
  BY <1>2 DEF Fails, IndexInv, Names
<1>3. CASE Rests
  BY <1>3 DEF Rests, IndexInv, Names
<1>4. ASSUME NEW p \in Handlers, \/ Starts(p) \/ Parses(p) \/ Lists(p) \/ Advances(p)
                                \/ \E f \in Files : Sends(p, f) \/ Removes(p, f)
      PROVE  UNCHANGED <<HEAD, index>>
  BY <1>4 DEF Starts, Parses, Lists, Advances, Sends, Removes
<1> QED
  BY <1>1, <1>2, <1>3, <1>4 DEF Step, IndexInv, Names

\* While no two have overlapped, another sync begins only when the last is over.
LEMMA SoleStep ==
  ASSUME Types, SoleInv, Step
  PROVE  SoleInv'
<1> SUFFICES ASSUME Clean' PROVE (\A p \in Handlers : Working(p) =>
                                    /\ handler[p].since = pointer
                                    /\ \A q \in Handlers : Working(q) => q = p)'
  BY DEF SoleInv
<1>0. Clean
  BY CleanStays
<1>1. \A p \in Handlers : Working(p) =>
        handler[p].since = pointer /\ \A q \in Handlers : Working(q) => q = p
  BY <1>0 DEF SoleInv
<1>2. CASE Commit \/ Fails \/ Rests
  <2>1. \A q \in Handlers : handler'[q] = handler[q] \/ handler'[q].at \notin Syncing
    BY <1>2 DEF Commit, Fails, Rests, Syncing
  <2>2. UNCHANGED pointer
    BY <1>2 DEF Commit, Fails, Rests
  <2> QED
    BY <1>1, <2>1, <2>2 DEF Working
<1>3. ASSUME NEW p \in Handlers, Starts(p)
      PROVE  (\A r \in Handlers : Working(r) =>
                 handler[r].since = pointer /\ \A q \in Handlers : Working(q) => q = r)'
  <2>1. \A q \in Handlers \ {p} : ~Working(q) /\ handler'[q] = handler[q]
    BY <1>3 DEF Starts, Clean, Goes, Others
  <2>2. handler'[p].since = pointer /\ pointer' = pointer
    BY <1>3 DEF Starts, Goes
  <2> QED
    BY <2>1, <2>2 DEF Working
<1>4. ASSUME NEW p \in Handlers, \/ Parses(p) \/ Lists(p)
                                \/ \E f \in Files : Sends(p, f) \/ Removes(p, f)
      PROVE  (\A r \in Handlers : Working(r) =>
                 handler[r].since = pointer /\ \A q \in Handlers : Working(q) => q = r)'
  <2>1. Working(p) /\ Others(p) /\ handler'[p].since = handler[p].since /\ pointer' = pointer
    BY <1>4 DEF Parses, Lists, Sends, Removes, Goes, Working, Syncing
  <2> QED
    BY <1>1, <2>1 DEF Working, Others
<1>5. ASSUME NEW p \in Handlers, Advances(p)
      PROVE  (\A r \in Handlers : Working(r) =>
                 handler[r].since = pointer /\ \A q \in Handlers : Working(q) => q = r)'
  <2>1. Working(p) /\ Others(p) /\ handler'[p].at = "resolve"
    BY <1>5 DEF Advances, Goes, Working, Syncing
  <2> QED
    BY <1>1, <2>1 DEF Working, Others, Syncing
<1> QED
  BY <1>2, <1>3, <1>4, <1>5 DEF Step

\* The transfer that is under way in a clean history is the only sync, and
\* what a failure of another could tear is not its own.
LEMMA PlanStep ==
  ASSUME Types, IndexInv, SoleInv, PlanInv, Step
  PROVE  PlanInv'
<1> SUFFICES ASSUME Clean', NEW p \in Handlers, handler'[p].at = "transfer"
             PROVE  \E h \in handler'[p].sha..HEAD' :
                       Planned(p, h)' /\ handler'[p].remove \cap Names(h) = {}
  BY DEF PlanInv, Names
<1>0. Clean /\ HEAD \in Nat \ {0} /\ handler[p].sha \in Nat
  BY CleanStays, Fields
<1>1. ASSUME handler'[p] = handler[p], \A f \in Files : remote'[f] = remote[f], HEAD' \in HEAD..(HEAD + 1)
      PROVE  \E h \in handler'[p].sha..HEAD' :
                Planned(p, h)' /\ handler'[p].remove \cap Names(h) = {}
  <2>1. PICK h \in handler[p].sha..HEAD : Planned(p, h) /\ handler[p].remove \cap Names(h) = {}
    BY <1>0, <1>1 DEF PlanInv
  <2>2. Planned(p, h)'
    BY <1>1, <2>1 DEF Planned, Names, Differ
  <2>3. h \in handler'[p].sha..HEAD'
    BY <1>0, <1>1, <2>1
  <2> QED
    BY <1>1, <2>1, <2>2, <2>3
<1>2. CASE Commit \/ Rests
  <2>1. handler'[p] = handler[p] /\ UNCHANGED remote /\ HEAD' \in HEAD..(HEAD + 1)
    BY <1>0, <1>2 DEF Commit, Rests, Syncing
  <2> QED
    BY <1>1, <2>1
<1>3. CASE Fails
  <2>1. handler'[p] = handler[p] /\ Working(p)
    BY <1>3 DEF Fails, Working, Syncing
  <2>2. ASSUME NEW q \in Handlers, NEW f \in handler[q].push, handler'[q].at \in {"idle", "resolve"}
        PROVE  FALSE
    <3>1. Working(q) /\ q # p
      BY <2>1, <2>2, Fields DEF Working, Syncing
    <3> QED
      BY <1>0, <2>1, <3>1 DEF SoleInv
  <2>3. \A f \in Files : remote'[f] = remote[f]
    BY <1>3, <2>2 DEF Fails
  <2>4. HEAD' \in HEAD..(HEAD + 1)
    BY <1>0, <1>3 DEF Fails
  <2> QED
    BY <1>1, <2>1, <2>3, <2>4
<1>4. ASSUME NEW q \in Handlers, \/ Starts(q) \/ Parses(q) \/ Lists(q) \/ Advances(q)
                                \/ \E f \in Files : Sends(q, f) \/ Removes(q, f)
      PROVE  \E h \in handler'[p].sha..HEAD' :
                Planned(p, h)' /\ handler'[p].remove \cap Names(h) = {}
  <2>1. Others(q) /\ HEAD' = HEAD
    BY <1>4 DEF Starts, Parses, Lists, Advances, Sends, Removes, Goes
  <2>2. CASE Starts(q) \/ Advances(q)
    <3>1. p # q /\ UNCHANGED remote
      BY <2>2 DEF Starts, Advances, Goes
    <3> QED
      BY <1>0, <1>1, <2>1, <3>1 DEF Others
  <2>3. ASSUME p # q
        PROVE  \E h \in handler'[p].sha..HEAD' :
                  Planned(p, h)' /\ handler'[p].remove \cap Names(h) = {}
    <3>1. handler'[p] = handler[p]
      BY <2>1, <2>3 DEF Others
    <3>2. Working(p)
      BY <3>1 DEF Working, Syncing
    <3>3. ~Working(q)
      BY <1>0, <2>3, <3>2 DEF SoleInv
    <3>4. UNCHANGED remote
      BY <1>4, <3>3 DEF Starts, Parses, Lists, Advances, Sends, Removes, Working, Syncing
    <3> QED
      BY <1>0, <1>1, <2>1, <3>1, <3>4
  <2>4. CASE p = q /\ Parses(p)
    <3>1. /\ handler'[p].since = HEAD /\ handler'[p].sha = HEAD
          /\ handler'[p].push = {} /\ handler'[p].remove = {}
      BY <2>4 DEF Parses, Goes
    <3>2. Planned(p, HEAD)'
      BY <1>0, <2>1, <3>1 DEF Planned, Differ
    <3> QED
      BY <1>0, <2>1, <3>1, <3>2
  <2>5. CASE p = q /\ Lists(p)
    <3>1. handler'[p].since = handler[p].since /\ handler'[p].sha = handler[p].sha
      BY <2>5 DEF Lists, Goes
    <3>2. handler[p].sha <= HEAD
      BY Fields
    <3>3. CASE handler[p].since = 0
      <4>1. handler'[p].push = index /\ handler'[p].remove = {}
        BY <2>5, <3>3 DEF Lists, Goes
      <4>2. Names(HEAD) \subseteq index
        BY <1>0 DEF Clean, IndexInv
      <4>3. Planned(p, HEAD)'
        BY <2>1, <3>1, <3>3, <4>1, <4>2 DEF Planned, Names
      <4> QED
        BY <1>0, <2>1, <3>1, <3>2, <4>1, <4>3
    <3>4. CASE handler[p].since # 0
      <4>1. /\ handler'[p].push = Differ(handler[p].since, HEAD) \cap Names(HEAD)
            /\ handler'[p].remove = Differ(handler[p].since, HEAD) \ Names(HEAD)
        BY <2>5, <3>4 DEF Lists, Goes
      <4>2. Planned(p, HEAD)'
        BY <2>1, <3>1, <3>4, <4>1 DEF Planned, Names, Differ
      <4> QED
        BY <1>0, <2>1, <3>1, <3>2, <4>1, <4>2
    <3> QED
      BY <3>3, <3>4
  <2>6. ASSUME p = q, NEW f \in Files, Sends(p, f) \/ Removes(p, f)
        PROVE  \E h \in handler'[p].sha..HEAD' :
                  Planned(p, h)' /\ handler'[p].remove \cap Names(h) = {}
    <3>1. handler[p].at = "transfer" /\ handler'[p].since = handler[p].since /\ handler'[p].sha = handler[p].sha
      BY <2>6 DEF Sends, Removes, Goes
    <3>2. PICK h \in handler[p].sha..HEAD : Planned(p, h) /\ handler[p].remove \cap Names(h) = {}
      BY <1>0, <3>1 DEF PlanInv
    <3>3. CASE Sends(p, f)
      <4>1. /\ handler'[p].push = handler[p].push \ {f} /\ handler'[p].remove = handler[p].remove
            /\ \A g \in Files : remote'[g] = IF g = f THEN Trees[handler[p].sha][f] ELSE remote[g]
        BY <3>3 DEF Sends, Goes, Writes
      <4>2. Planned(p, h)'
        BY <3>1, <3>2, <4>1 DEF Planned, Names, Differ
      <4> QED
        BY <2>1, <3>1, <3>2, <4>1, <4>2
    <3>4. CASE Removes(p, f)
      <4>1. /\ handler'[p].push = handler[p].push /\ handler'[p].remove = handler[p].remove \ {f}
            /\ \A g \in Files : remote'[g] = IF g = f THEN None ELSE remote[g]
            /\ f \in handler[p].remove
        BY <3>4 DEF Removes, Goes, Writes
      <4>2. \A g \in Names(h) : remote'[g] = remote[g]
        BY <3>2, <4>1 DEF Names
      <4>3. Planned(p, h)'
        BY <3>1, <3>2, <4>1, <4>2 DEF Planned, Names, Differ
      <4> QED
        BY <2>1, <3>1, <3>2, <4>1, <4>3
    <3> QED
      BY <2>6, <3>3, <3>4
  <2> QED
    BY <1>4, <2>2, <2>3, <2>4, <2>5, <2>6
<1> QED
  BY <1>2, <1>3, <1>4 DEF Step

\* What a transfer of a later sync has in hand differs from HEAD, at the latest
\* when HEAD has moved on.
LEMMA InHandDiffers ==
  ASSUME Types, SoleInv, PlanInv, Clean, pointer # 0, NEW p \in Handlers,
         NEW f \in (handler[p].push \cup handler[p].remove) \ Returning
  PROVE  f \in Differ(pointer, HEAD)
<1>1. handler[p].at = "transfer" /\ f \in Files
  BY Fields
<1>2. handler[p].since = pointer
  BY <1>1 DEF SoleInv, Working, Syncing
<1>3. PICK h \in handler[p].sha..HEAD : Planned(p, h)
  BY <1>1 DEF PlanInv
<1>4. f \in Differ(pointer, h)
  BY <1>2, <1>3 DEF Planned
<1>5. pointer \in Nat /\ h \in pointer..HEAD
  BY <1>1, <1>2, <1>3, Fields
<1> QED
  BY <1>4, <1>5, StillDiffers DEF Differ, Types

\* When the pointer moves, what the sync did not send is as it was before it, or
\* has changed since its commit.
LEMMA AdvanceKeeps ==
  ASSUME Types, SoleInv, PlanInv, KeptInv, Clean, NEW p \in Handlers, Advances(p)
  PROVE  \A f \in Names(handler[p].sha) \ Returning :
            remote[f] = Trees[handler[p].sha][f] \/ f \in Differ(handler[p].sha, HEAD)
<1> DEFINE sha == handler[p].sha
           since == handler[p].since
<1>1. handler[p].at = "transfer" /\ handler[p].push = {}
  BY DEF Advances
<1>2. since = pointer
  BY <1>1 DEF SoleInv, Working, Syncing
<1>3. PICK h \in sha..HEAD : Planned(p, h)
  BY <1>1 DEF PlanInv
<1>4. sha \in Nat \ {0} /\ TypeInv
  BY <1>1, Fields DEF Types
<1> SUFFICES ASSUME NEW f \in Names(sha) \ Returning, f \notin Differ(sha, HEAD)
             PROVE  remote[f] = Trees[sha][f]
  OBVIOUS
<1>5. f \in Files \ Returning /\ Trees[sha][f] # None
  BY DEF Names
<1>6. Trees[sha][f] = Trees[h][f]
  BY <1>3, <1>4, <1>5, StillDiffers
<1>7. f \in Names(h)
  BY <1>5, <1>6 DEF Names
<1>8. CASE since = 0
  BY <1>1, <1>3, <1>7, <1>8 DEF Planned
<1>9. CASE since # 0 /\ f \in Differ(since, h)
  BY <1>1, <1>3, <1>7, <1>9 DEF Planned
<1>10. CASE since # 0 /\ f \notin Differ(since, h)
  <2>1. Trees[pointer][f] = Trees[sha][f]
    BY <1>2, <1>5, <1>6, <1>10 DEF Differ
  <2>2. f \in Names(pointer) \ Returning /\ f \notin Differ(pointer, HEAD)
    BY <1>5, <2>1 DEF Names, Differ
  <2> QED
    BY <1>2, <1>10, <2>1, <2>2 DEF KeptInv, NothingForgotten, Clean
<1> QED
  BY <1>8, <1>9, <1>10

LEMMA KeptStep ==
  ASSUME Types, SoleInv, PlanInv, KeptInv, Step
  PROVE  KeptInv'
<1> SUFFICES ASSUME Clean', pointer' # 0, NEW f \in Names(pointer') \ Returning
             PROVE  remote'[f] = Trees[pointer'][f] \/ f \in Differ(pointer', HEAD')
  BY DEF KeptInv, NothingForgotten, Clean, Names, Differ
<1>0. Clean /\ HEAD \in Nat \ {0} /\ pointer \in 0..HEAD /\ f \in Files
  BY CleanStays, HistoryIsTrees DEF HistoryIsTrees, Commits, Types, TypeInv, Names
<1>1. pointer' = pointer => remote[f] = Trees[pointer][f] \/ f \in Differ(pointer, HEAD)
  BY <1>0 DEF KeptInv, NothingForgotten, Clean
<1>2. CASE Commit
  <2>1. pointer' = pointer /\ remote' = remote /\ HEAD' = HEAD + 1 /\ HEAD < Len(Trees)
    BY <1>2 DEF Commit
  <2>2. CASE f \in Differ(pointer, HEAD) /\ Trees[pointer][f] = Trees[HEAD + 1][f]
    <3>1. pointer < HEAD /\ {pointer, HEAD, HEAD + 1} \subseteq Commits
      BY <1>0, <2>1, <2>2, HistoryIsTrees DEF HistoryIsTrees, Differ, Commits
    <3>2. f \in Returning
      BY <1>0, <2>2, <3>1 DEF Returning, Differ
    <3> QED
      BY <3>2
  <2> QED
    BY <1>0, <1>1, <2>1, <2>2 DEF Differ
<1>3. CASE Rests
  BY <1>1, <1>3 DEF Rests
<1>4. CASE Fails
  <2>1. pointer' = pointer /\ HEAD' = HEAD
    BY <1>4 DEF Fails
  <2>2. ASSUME NEW q \in Handlers, f \in handler[q].push
        PROVE  f \in Differ(pointer, HEAD)
    BY <1>0, <2>1, <2>2, InHandDiffers
  <2> QED
    BY <1>0, <1>1, <1>4, <2>1, <2>2 DEF Fails
<1>5. ASSUME NEW p \in Handlers, Starts(p) \/ Parses(p) \/ Lists(p)
      PROVE  remote'[f] = Trees[pointer'][f] \/ f \in Differ(pointer', HEAD')
  BY <1>1, <1>5 DEF Starts, Parses, Lists
<1>6. ASSUME NEW p \in Handlers, NEW g \in Files, Sends(p, g) \/ Removes(p, g)
      PROVE  remote'[f] = Trees[pointer'][f] \/ f \in Differ(pointer', HEAD')
  <2>1. pointer' = pointer /\ HEAD' = HEAD /\ g \in handler[p].push \cup handler[p].remove
        /\ (f # g => remote'[f] = remote[f])
    BY <1>0, <1>6 DEF Sends, Removes, Writes
  <2>2. f = g => f \in Differ(pointer, HEAD)
    BY <1>0, <2>1, InHandDiffers
  <2> QED
    BY <1>1, <2>1, <2>2
<1>7. ASSUME NEW p \in Handlers, Advances(p)
      PROVE  remote'[f] = Trees[pointer'][f] \/ f \in Differ(pointer', HEAD')
  <2>1. pointer' = handler[p].sha /\ UNCHANGED <<remote, HEAD>>
    BY <1>7 DEF Advances
  <2> QED
    BY <1>0, <1>7, <2>1, AdvanceKeeps
<1> QED
  BY <1>2, <1>3, <1>4, <1>5, <1>6, <1>7 DEF Step

\* With nothing gone wrong: a commit finds no sync at work, and each step of one
\* leaves every file either of the pointer's commit or of HEAD.
LEMMA ExactStep ==
  ASSUME Types, ExactInv, Step
  PROVE  ExactInv'
<1> SUFFICES ASSUME ~past'.dirty
             PROVE  /\ \A f \in Files : remote'[f] = Base(f)' \/ remote'[f] = Trees[HEAD'][f]
                    /\ \A p \in Handlers : InHand(handler[p])'
                    /\ Based'
  BY DEF ExactInv
<1>0. ~past.dirty /\ HEAD \in Nat \ {0} /\ pointer \in 0..HEAD /\ ~Fails
  <2>1. ASSUME NEW p \in Handlers, \/ Starts(p) \/ Parses(p) \/ Lists(p) \/ Advances(p)
                                  \/ \E f \in Files : Sends(p, f) \/ Removes(p, f)
        PROVE  past.dirty => past'.dirty
    BY <2>1 DEF Starts, Parses, Lists, Advances, Sends, Removes
  <2>2. Commit => (past.dirty => past'.dirty)
    BY DEF Commit, Types, TypeInv
  <2>3. HEAD \in Nat \ {0} /\ pointer \in 0..HEAD
    BY HistoryIsTrees DEF HistoryIsTrees, Commits, Types, TypeInv
  <2> QED
    BY <2>1, <2>2, <2>3 DEF Step, Fails, Rests
<1>1. /\ \A f \in Files : remote[f] = Base(f) \/ remote[f] = Trees[HEAD][f]
      /\ \A p \in Handlers : InHand(handler[p])
      /\ Based
  BY <1>0 DEF ExactInv
<1>2. CASE Commit
  <2>1. UNCHANGED <<remote, pointer, handler>> /\ \A p \in Handlers : ~Working(p)
    BY <1>0, <1>2 DEF Commit, Types, TypeInv
  <2>2. \A f \in Files : remote[f] = Base(f)
    BY <1>1, <2>1 DEF Based, Working, Syncing
  <2> QED
    BY <2>1, <2>2 DEF Base, Based, InHand, Working, Syncing
<1>3. CASE Rests
  <2>1. UNCHANGED <<HEAD, remote, pointer>>
    BY <1>3 DEF Rests
  <2>2. \A p \in Handlers : handler'[p] = handler[p] \/ (handler[p].at # "transfer" /\ handler'[p].at \notin Syncing)
    BY <1>3 DEF Rests, Working, Syncing
  <2>3. ASSUME NEW p \in Handlers PROVE InHand(handler[p])'
    BY <1>1, <2>1, <2>2 DEF InHand, Syncing
  <2>4. Based'
    BY <1>1, <2>1, <2>2 DEF Based, Base
  <2> QED
    BY <1>1, <2>1, <2>3, <2>4 DEF Base
<1>4. ASSUME NEW p \in Handlers, Starts(p)
      PROVE  /\ \A f \in Files : remote'[f] = Base(f)' \/ remote'[f] = Trees[HEAD'][f]
             /\ \A q \in Handlers : InHand(handler[q])'
             /\ Based'
  <2>1. /\ UNCHANGED <<HEAD, remote, pointer>> /\ Others(p)
        /\ handler[p].at = "idle" /\ handler'[p].at = "rev_parse" /\ handler'[p].since = pointer
    BY <1>4 DEF Starts, Goes
  <2>2. ASSUME NEW q \in Handlers PROVE InHand(handler[q])'
    BY <1>1, <2>1 DEF InHand, Others
  <2>3. Based'
    BY <1>1, <2>1 DEF Based, Base, Others
  <2> QED
    BY <1>1, <2>1, <2>2, <2>3 DEF Base
<1>5. ASSUME NEW p \in Handlers, Parses(p)
      PROVE  /\ \A f \in Files : remote'[f] = Base(f)' \/ remote'[f] = Trees[HEAD'][f]
             /\ \A q \in Handlers : InHand(handler[q])'
             /\ Based'
  <2>1. /\ UNCHANGED <<HEAD, remote, pointer>> /\ Others(p)
        /\ handler[p].at = "rev_parse" /\ handler'[p].since = handler[p].since /\ handler'[p].sha = HEAD
        /\ handler'[p].push = {} /\ handler'[p].remove = {}
        /\ handler'[p].at = IF handler[p].since = HEAD THEN "transfer" ELSE "list"
    BY <1>5 DEF Parses, Goes
  <2>2. handler[p].since = pointer \/ pointer = HEAD
    BY <1>1, <2>1 DEF InHand, Syncing
  <2>3. handler[p].since = HEAD => \A f \in Files : remote[f] = Trees[HEAD][f]
    BY <1>0, <1>1, <2>2 DEF Base
  <2>4. InHand(handler[p])'
    BY <2>1, <2>2, <2>3 DEF InHand
  <2>5. ASSUME NEW q \in Handlers \ {p} PROVE InHand(handler[q])'
    BY <1>1, <2>1 DEF InHand, Others
  <2>6. Based'
    BY <1>1, <2>1 DEF Based, Base, Others
  <2> QED
    BY <1>1, <2>1, <2>4, <2>5, <2>6 DEF Base
<1>6. ASSUME NEW p \in Handlers, Lists(p)
      PROVE  /\ \A f \in Files : remote'[f] = Base(f)' \/ remote'[f] = Trees[HEAD'][f]
             /\ \A q \in Handlers : InHand(handler[q])'
             /\ Based'
  <2> DEFINE since == handler[p].since
  <2>1. /\ UNCHANGED <<HEAD, remote, pointer>> /\ Others(p)
        /\ handler[p].at = "list" /\ handler'[p].since = since /\ handler'[p].sha = handler[p].sha
        /\ handler'[p].at = "transfer"
    BY <1>6 DEF Lists, Goes
  <2>2. (since = pointer \/ pointer = HEAD) /\ handler[p].sha = HEAD
    BY <1>1, <2>1 DEF InHand, Syncing
  <2>3. InHand(handler[p])'
    <3>1. CASE since = 0
      <4>1. handler'[p].push = Names(HEAD) /\ handler'[p].remove = {}
        BY <1>6, <3>1 DEF Lists, Goes
      <4>2. \A f \in Files \ Names(HEAD) : remote[f] = Trees[HEAD][f]
        BY <1>1, <2>2, <3>1 DEF Names, Base
      <4> QED
        BY <2>1, <2>2, <4>1, <4>2 DEF InHand
    <3>2. CASE since # 0
      <4>1. /\ handler'[p].push = Differ(since, HEAD) \cap Names(HEAD)
            /\ handler'[p].remove = Differ(since, HEAD) \ Names(HEAD)
        BY <1>6, <3>2 DEF Lists, Goes
      <4>2. \A f \in Files \ Differ(since, HEAD) : remote[f] = Trees[HEAD][f]
        BY <1>0, <1>1, <2>2, <3>2 DEF Differ, Base
      <4>3. \A f \in handler'[p].remove : Trees[HEAD][f] = None
        BY <4>1 DEF Names, Differ
      <4> QED
        BY <2>1, <2>2, <4>1, <4>2, <4>3 DEF InHand
    <3> QED
      BY <3>1, <3>2
  <2>4. ASSUME NEW q \in Handlers \ {p} PROVE InHand(handler[q])'
    BY <1>1, <2>1 DEF InHand, Others
  <2>5. Based'
    BY <2>1 DEF Based
  <2> QED
    BY <1>1, <2>1, <2>3, <2>4, <2>5 DEF Base
<1>7. ASSUME NEW p \in Handlers, NEW f \in Files, Sends(p, f) \/ Removes(p, f)
      PROVE  /\ \A g \in Files : remote'[g] = Base(g)' \/ remote'[g] = Trees[HEAD'][g]
             /\ \A q \in Handlers : InHand(handler[q])'
             /\ Based'
  <2>1. /\ UNCHANGED <<HEAD, pointer>> /\ Others(p)
        /\ handler[p].at = "transfer" /\ handler'[p].at = "transfer"
        /\ handler'[p].since = handler[p].since /\ handler'[p].sha = handler[p].sha
        /\ handler[p].push \cup handler[p].remove \subseteq handler'[p].push \cup handler'[p].remove \cup {f}
        /\ handler'[p].remove \subseteq handler[p].remove
    BY <1>7 DEF Sends, Removes, Goes
  <2>2. handler[p].sha = HEAD /\ \A g \in handler[p].remove : Trees[HEAD][g] = None
    BY <1>1, <2>1 DEF InHand
  <2>3. \A g \in Files : remote'[g] = IF g = f THEN Trees[HEAD][f] ELSE remote[g]
    BY <1>7, <2>2 DEF Sends, Removes, Writes
  <2>4. InHand(handler[p])'
    BY <1>1, <2>1, <2>2, <2>3 DEF InHand, Syncing
  <2>5. ASSUME NEW q \in Handlers \ {p} PROVE InHand(handler[q])'
    BY <1>1, <2>1, <2>3 DEF InHand, Others
  <2>6. Based'
    BY <2>1 DEF Based
  <2> QED
    BY <1>1, <2>1, <2>3, <2>4, <2>5, <2>6 DEF Base
<1>8. ASSUME NEW p \in Handlers, Advances(p)
      PROVE  /\ \A f \in Files : remote'[f] = Base(f)' \/ remote'[f] = Trees[HEAD'][f]
             /\ \A q \in Handlers : InHand(handler[q])'
             /\ Based'
  <2>1. /\ UNCHANGED <<HEAD, remote>> /\ Others(p) /\ handler[p].at = "transfer"
        /\ handler[p].push = {} /\ handler[p].remove = {}
        /\ handler'[p].at = "resolve" /\ pointer' = handler[p].sha
    BY <1>8 DEF Advances, Goes
  <2>2. handler[p].sha = HEAD /\ \A f \in Files : remote[f] = Trees[HEAD][f]
    BY <1>1, <2>1 DEF InHand
  <2>3. ASSUME NEW q \in Handlers PROVE InHand(handler[q])'
    BY <1>1, <2>1, <2>2 DEF InHand, Others, Syncing
  <2>4. Based'
    BY <1>0, <2>1, <2>2 DEF Based, Base
  <2> QED
    BY <2>1, <2>2, <2>3, <2>4
<1> QED
  BY <1>0, <1>2, <1>3, <1>4, <1>5, <1>6, <1>7, <1>8 DEF Step

LEMMA SyncInit == Init => SyncInv
<1> SUFFICES ASSUME Init PROVE SyncInv
  OBVIOUS
<1>1. /\ HEAD = 1 /\ index = Names(1) /\ pointer = 0 /\ ~past.dirty
      /\ \A p \in Handlers : handler[p].at = "idle"
      /\ \A f \in Files : remote[f] = None
  BY DEF Init, Idle
<1>2. IndexInv /\ SoleInv /\ PlanInv /\ KeptInv
  BY <1>1 DEF IndexInv, SoleInv, PlanInv, KeptInv, NothingForgotten, Working, Syncing
<1>3. ExactInv
  BY <1>1 DEF ExactInv, InHand, Based, Base, Syncing
<1> QED
  BY <1>2, <1>3 DEF SyncInv

\* For every history and any number of syncs, failures and restarts: while no two
\* syncs overlap, and none leaves out a file for the index's sake, whatever is not
\* on the far side as the pointer says is sent by the next sync, and with nothing
\* gone wrong the directory is the pointer's tree (apply_plan, _run_sync).
THEOREM PointerTrue == Unstages = {} => (Spec => []PointerIsTrue)
<1> SUFFICES ASSUME Unstages = {} PROVE Spec => []PointerIsTrue
  OBVIOUS
<1>1. Init => Types /\ SyncInv
  BY TypeInit, SyncInit DEF Types
<1>2. Types /\ SyncInv /\ [Next]_vars => (Types /\ SyncInv)'
  <2> SUFFICES ASSUME Types, SyncInv, [Next]_vars PROVE Types' /\ SyncInv'
    OBVIOUS
  <2>1. Types' /\ Step
    BY TypeStep, Classified
  <2>2. IndexInv' /\ SoleInv' /\ PlanInv' /\ KeptInv' /\ ExactInv'
    BY <2>1, IndexStep, SoleStep, PlanStep, KeptStep, ExactStep DEF SyncInv
  <2> QED
    BY <2>1, <2>2 DEF SyncInv
<1>3. Types /\ SyncInv => PointerIsTrue
  <2> SUFFICES ASSUME Types, SyncInv PROVE PointerIsTrue
    OBVIOUS
  <2>1. NothingForgotten
    BY DEF SyncInv, KeptInv
  <2>2. ASSUME pointer # 0, ~past.dirty, \A p \in Handlers : handler[p].at # "transfer"
        PROVE  remote = Trees[pointer]
    <3>1. \A f \in Files : remote[f] = Trees[pointer][f]
      BY <2>2 DEF SyncInv, ExactInv, Based, Base
    <3>2. remote = [f \in Files |-> remote[f]]
      BY DEF Types, TypeInv
    <3>3. pointer \in Commits
      BY <2>2, HistoryIsTrees DEF HistoryIsTrees, Commits, Types, TypeInv
    <3>4. Trees[pointer] = [f \in Files |-> Trees[pointer][f]]
      BY <3>3, HistoryIsTrees DEF HistoryIsTrees
    <3>5. [f \in Files |-> remote[f]] = [f \in Files |-> Trees[pointer][f]]
      BY <3>1
    <3> QED
      BY <3>2, <3>4, <3>5
  <2> QED
    BY <2>1, <2>2 DEF PointerIsTrue
<1> QED
  BY <1>1, <1>2, <1>3, PTL DEF Spec
=============================================================================
