--------------------------- MODULE TransportSync ---------------------------
(***************************************************************************)
(* Pushing this checkout to a transport: transport_sync, the requests for  *)
(* it (routes/transports, routes/db_transport_sync), and the watcher that  *)
(* turns messages of agents into requests (sync_request_watcher).          *)
(*                                                                         *)
(* The remote side is a plain directory.  What it holds is known here only *)
(* by a pointer, the commit of the last sync that succeeded, and the next  *)
(* sync sends what differs from it.  A sync is a handler's: it reads the   *)
(* pointer first and moves it last, several may run at a time, and commits *)
(* are made meanwhile.  One transport; HEAD only advances, a revert being  *)
(* a later commit with an earlier tree.                                    *)
(***************************************************************************)
EXTENDS Naturals, Sequences, FiniteSets

CONSTANTS Files,
          Trees,      \* the history: per commit, the version of each file or None
          Handlers,   \* requests in flight
          Messages,   \* SYNC_REQUESTs that agents will write
          Unstages,   \* files that may be removed from the index alone
          MaxRows,    \* bound: requests recorded, after which none is made
          MaxFaults,  \* bound: failures
          None, Torn

Commits == 1..Len(Trees)
Names(c) == {f \in Files : Trees[c][f] # None}

ASSUME HistoryIsTrees ==
    /\ Len(Trees) \in Nat \ {0}
    /\ \A c \in Commits : Trees[c] = [f \in Files |-> Trees[c][f]]
ASSUME BoundsAreNatural == MaxRows \in Nat /\ MaxFaults \in Nat

VARIABLES
    HEAD,
    index,     \* the names in the index (git ls-files)
    remote,    \* what the transport's directory holds
    pointer,   \* ssh_transports.last_synced_sha, 0 for ''
    rows,      \* transport_sync_requests, by id; done and failed are both "ended"
    handler,   \* what each request is doing
    shown,     \* the messages in the files that are scanned
    watch,     \* the messages of the watcher's pass that it has yet to look at
    past,      \* ghost: what has happened that a clean history would not hold
    faults

vars == <<HEAD, index, remote, pointer, rows, handler, shown, watch, past, faults>>

Idle == [at |-> "idle", row |-> 0, since |-> 0, sha |-> 0, push |-> {}, remove |-> {}]

Init ==
    /\ HEAD = 1 /\ index = Names(1)
    /\ remote = [f \in Files |-> None]
    /\ pointer = 0
    /\ rows = <<>>
    /\ handler = [p \in Handlers |-> Idle]
    /\ shown = {}
    /\ watch = {}
    /\ past = [overlap |-> FALSE, dirty |-> FALSE]
    /\ faults = 0

Syncing == {"rev_parse", "list", "transfer"}
Working(p) == handler[p].at \in Syncing
Pending == {q \in DOMAIN rows : rows[q].status = "pending"}

Fault == faults < MaxFaults /\ faults' = faults + 1
Dirty == past' = [past EXCEPT !.dirty = TRUE]

sync_request_create(by, status) == rows' = Append(rows, [by |-> by, status |-> status])
sync_request_resolve(q, status) == rows' = [rows EXCEPT ![q].status = status]

-----------------------------------------------------------------------------
(* The checkout. *)

Commit ==
    /\ HEAD < Len(Trees)
    /\ HEAD' = HEAD + 1 /\ index' = Names(HEAD + 1)
    /\ past' = [past EXCEPT !.dirty = @ \/ \E p \in Handlers : Working(p)]
    /\ UNCHANGED <<remote, pointer, rows, handler, shown, watch, faults>>

Stage(f) ==
    /\ f \in Unstages \/ f \notin index
    /\ index' = IF f \in index THEN index \ {f} ELSE index \cup {f}
    /\ UNCHANGED <<HEAD, remote, pointer, rows, handler, shown, watch, past, faults>>

-----------------------------------------------------------------------------
(* The three requests.  The transport's row, and so the pointer, is read   *)
(* first.                                                                  *)

Overlap(p) ==
    past' = [past EXCEPT !.overlap = @ \/ \E q \in Handlers \ {p} : Working(q)]

At(p, rec) == handler' = [handler EXCEPT ![p] = rec]

Ending(p) == At(p, [Idle EXCEPT !.at = "resolve", !.row = handler[p].row])

\* The row's insertion and the second look are of a piece with the reading of
\* the pointer: what may happen between them may as well happen after.
handle_transport_sync(p) ==
    /\ handler[p].at = "idle" /\ Len(rows) < MaxRows
    /\ sync_request_create("ui", "approved")
    /\ At(p, [Idle EXCEPT !.at = "rev_parse", !.since = pointer, !.row = Len(rows) + 1])
    /\ Overlap(p)
    /\ UNCHANGED <<HEAD, index, remote, pointer, shown, watch, faults>>

\* Nothing is written until the sync has ended.
handle_sync_request_approve(p, q) ==
    /\ handler[p].at = "idle" /\ q \in Pending
    /\ At(p, [Idle EXCEPT !.at = "rev_parse", !.since = pointer, !.row = q])
    /\ Overlap(p)
    /\ UNCHANGED <<HEAD, index, remote, pointer, rows, shown, watch, faults>>

handle_sync_request_reject(p, q) ==
    /\ handler[p].at = "idle" /\ q \in Pending
    /\ At(p, [Idle EXCEPT !.at = "reject", !.row = q])
    /\ UNCHANGED <<HEAD, index, remote, pointer, rows, shown, watch, past, faults>>

Reject(p) ==
    /\ handler[p].at = "reject"
    /\ sync_request_resolve(handler[p].row, "rejected")
    /\ At(p, Idle)
    /\ UNCHANGED <<HEAD, index, remote, pointer, shown, watch, past, faults>>

-----------------------------------------------------------------------------
(* compute_plan, apply_plan, _run_sync. *)

RevParse(p) ==
    /\ handler[p].at = "rev_parse"
    /\ At(p, [handler[p] EXCEPT !.sha = HEAD,
                                !.at = IF handler[p].since = HEAD THEN "transfer" ELSE "list"])
    /\ UNCHANGED <<HEAD, index, remote, pointer, rows, shown, watch, past, faults>>

Differ(c, d) == {f \in Files : Trees[c][f] # Trees[d][f]}

\* Everything in the index at first, what differs from HEAD later: HEAD as it
\* is by now, which need not be the commit that the files are read from.
List(p) ==
    LET since   == handler[p].since
        changed == IF since = 0 THEN index ELSE Differ(since, HEAD)
        kept    == IF since = 0 THEN index ELSE Names(HEAD)
    IN  /\ handler[p].at = "list"
        /\ At(p, [handler[p] EXCEPT !.at = "transfer", !.push = changed \cap kept,
                                    !.remove = changed \ kept])
        /\ past' = [past EXCEPT !.dirty = @ \/ (since = 0 /\ index # Names(HEAD))]
        /\ UNCHANGED <<HEAD, index, remote, pointer, rows, shown, watch, faults>>

\* git show of a name that the commit does not have fails the sync.
Push(p, f) ==
    LET blob == Trees[handler[p].sha][f]
    IN  /\ handler[p].at = "transfer" /\ f \in handler[p].push
        /\ IF blob = None
           THEN /\ Ending(p)
                /\ Dirty
                /\ UNCHANGED remote
           ELSE /\ At(p, [handler[p] EXCEPT !.push = @ \ {f}])
                /\ remote' = [remote EXCEPT ![f] = blob]
                /\ UNCHANGED past
        /\ UNCHANGED <<HEAD, index, pointer, rows, shown, watch, faults>>

\* A file that is gone already is as good as removed.
Remove(p, f) ==
    /\ handler[p].at = "transfer" /\ handler[p].push = {} /\ f \in handler[p].remove
    /\ At(p, [handler[p] EXCEPT !.remove = @ \ {f}])
    /\ remote' = [remote EXCEPT ![f] = None]
    /\ UNCHANGED <<HEAD, index, pointer, rows, shown, watch, past, faults>>

\* Mutant: the pointer moves before the files do.
TransferredBefore(p) == handler[p].at = "transfer"

Transferred(p) == handler[p].at = "transfer" /\ handler[p].push = {} /\ handler[p].remove = {}

Advance(p) ==
    /\ Transferred(p)
    /\ pointer' = handler[p].sha
    /\ Ending(p)
    /\ UNCHANGED <<HEAD, index, remote, rows, shown, watch, past, faults>>

Resolve(p) ==
    /\ handler[p].at = "resolve"
    /\ sync_request_resolve(handler[p].row, "ended")
    /\ At(p, Idle)
    /\ UNCHANGED <<HEAD, index, remote, pointer, shown, watch, past, faults>>

\* What was on its way may be half written.
Tear(torn) == remote' = [f \in Files |-> IF f \in torn THEN Torn ELSE remote[f]]

\* git, the tunnel or the far side fails.
SyncError(p) ==
    /\ handler[p].at \in Syncing /\ Fault
    /\ Ending(p)
    /\ \E torn \in {{}} \cup {{f} : f \in handler[p].push} : Tear(torn)
    /\ Dirty
    /\ UNCHANGED <<HEAD, index, pointer, rows, shown, watch>>

\* What is not an OSError ends the request, and its row stays as it is.
Escape(p) ==
    /\ handler[p].at # "idle" /\ Fault
    /\ At(p, Idle)
    /\ \E torn \in {{}} \cup {{f} : f \in handler[p].push} : Tear(torn)
    /\ Dirty
    /\ UNCHANGED <<HEAD, index, pointer, rows, shown, watch>>

Restart ==
    /\ Fault
    /\ handler' = [p \in Handlers |-> Idle] /\ watch' = {}
    /\ \E torn \in SUBSET UNION {handler[p].push : p \in Handlers} : Tear(torn)
    /\ Dirty
    /\ UNCHANGED <<HEAD, index, pointer, rows, shown>>

-----------------------------------------------------------------------------
(* Messages, and the watcher. *)

\* A file may leave the newest ones and come back.
Message(m) ==
    /\ shown' = IF m \in shown THEN shown \ {m} ELSE shown \cup {m}
    /\ UNCHANGED <<HEAD, index, remote, pointer, rows, handler, watch, past, faults>>

\* Mutant: what other passes have queued is not looked up.
ConsideredByPass == {}

\* Mutant: a transport that was asked for once is remembered.
ConsideredEver == {q \in DOMAIN rows : rows[q].by # "ui"}

\* Requests are looked up again by every pass.
Considered == Pending

\* A pass that finds a pending request has nothing to do.
agent_traffic ==
    /\ watch = {} /\ Considered = {}
    /\ watch' = shown
    /\ UNCHANGED <<HEAD, index, remote, pointer, rows, handler, shown, past, faults>>

\* With it the transport counts as pending, and the pass has nothing left to do.
Queue(m) ==
    /\ m \in watch /\ Len(rows) < MaxRows
    /\ sync_request_create(m, "pending")
    /\ watch' = {}
    /\ UNCHANGED <<HEAD, index, remote, pointer, handler, shown, past, faults>>

QueueFails(m) ==
    /\ m \in watch /\ Fault
    /\ watch' = watch \ {m}
    /\ UNCHANGED <<HEAD, index, remote, pointer, rows, handler, shown, past>>

PassFails ==
    /\ watch # {} /\ Fault
    /\ watch' = {}
    /\ UNCHANGED <<HEAD, index, remote, pointer, rows, handler, shown, past>>

-----------------------------------------------------------------------------
Sync(p) ==
    \/ Reject(p) \/ RevParse(p) \/ List(p) \/ Advance(p) \/ Resolve(p)
    \/ \E f \in Files : Push(p, f) \/ Remove(p, f)

Watcher == agent_traffic \/ \E m \in Messages : Queue(m)

Next ==
    \/ Commit
    \/ \E f \in Files : Stage(f)
    \/ \E p \in Handlers : \/ handle_transport_sync(p)
                           \/ \E q \in DOMAIN rows : \/ handle_sync_request_approve(p, q)
                                                     \/ handle_sync_request_reject(p, q)
                           \/ Sync(p) \/ SyncError(p) \/ Escape(p)
    \/ \E m \in Messages : Message(m) \/ QueueFails(m)
    \/ Watcher \/ PassFails \/ Restart

\* The watcher's loop sleeps and goes on.
Spec == Init /\ [][Next]_vars /\ WF_vars(Watcher)

-----------------------------------------------------------------------------
(* Properties. *)

TypeOK ==
    /\ HEAD \in Commits /\ index \subseteq Files
    /\ \A f \in Files : remote[f] \in {Trees[c][f] : c \in Commits} \cup {None, Torn}
    /\ pointer \in 0..HEAD
    /\ \A q \in DOMAIN rows :
          /\ rows[q].by \in Messages \cup {"ui"}
          /\ rows[q].status \in {"pending", "approved", "rejected", "ended"}
    /\ \A p \in Handlers :
          /\ handler[p].since \in 0..HEAD /\ handler[p].sha \in 0..HEAD
          /\ handler[p].push \cup handler[p].remove \subseteq Files
          /\ handler[p].at # "idle" => handler[p].row \in DOMAIN rows
    /\ watch \cup shown \subseteq Messages
    /\ past.overlap \in BOOLEAN /\ past.dirty \in BOOLEAN
    /\ faults \in 0..MaxFaults

\* Files that come back to a version they had.
Returning ==
    {f \in Files : \E c, d, e \in Commits :
        c < d /\ d < e /\ Trees[c][f] = Trees[e][f] /\ Trees[c][f] # Trees[d][f]}

\* A sync that fails, is cut short or races a commit loses nothing: a file of
\* the pointer's commit that is not as it was there is in what the next sync
\* sends (the rule of no silent pointer advancement).  Not said of files that
\* come back to an earlier version, nor once two syncs have overlapped; nor where
\* the index may lack files of HEAD (Unstages), which a first sync then leaves out.
NothingForgotten ==
    pointer # 0 /\ ~past.overlap =>
        \A f \in Names(pointer) \ Returning :
            remote[f] = Trees[pointer][f] \/ f \in Differ(pointer, HEAD)

\* And while nothing went wrong, the directory is the pointer's tree, files
\* that were removed included, whatever comes back.
PointerIsTrue ==
    /\ NothingForgotten
    /\ pointer # 0 /\ ~past.dirty /\ (\A p \in Handlers : handler[p].at # "transfer") =>
           remote = Trees[pointer]

\* However often the passes read the same messages, with requests decided and
\* the process restarted in between, at most one waits for a decision.
OnePending == TypeOK /\ Cardinality(Pending) <= 1

\* A request to sync is put before the user in the end, also after an earlier
\* one for the same transport was decided, unless it is no longer among the
\* messages that are scanned.
RequestsHeard ==
    \A m \in Messages :
        m \in shown ~> (Pending # {} \/ m \notin shown \/ Len(rows) >= MaxRows)

-----------------------------------------------------------------------------
(* What documents and comments say, and the code does not do. *)

\* "a message already turned into a pending (or resolved) request doesn't spawn
\* a second one" (docs/.../2026-09-09-transport-project-sync-design.md:124-126).
OneRequestPerMessage ==
    \A m \in Messages : Cardinality({q \in DOMAIN rows : rows[q].by = m}) <= 1

\* "Reject a pending, agent-requested sync. Pushes nothing"
\* (routes/transports.py:509): nothing is pushed for a rejected request.
RejectedPushesNothing ==
    [][\A p \in Handlers : handler[p].row \in DOMAIN rows
          /\ rows[handler[p].row].status = "rejected" /\ handler[p].at = "transfer"
          => remote' = remote \/ handler'[p] = handler[p]]_vars

\* Without its exceptions: "an unsynced diff is silently lost" never
\* (transport_sync.py:166-168).
NothingEverForgotten ==
    pointer # 0 =>
        \A f \in Names(pointer) : remote[f] = Trees[pointer][f] \/ f \in Differ(pointer, HEAD)
=============================================================================
