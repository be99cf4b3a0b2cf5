----------------------------- MODULE Delegation -----------------------------
(***************************************************************************)
(* The settings of tiered delegation: the capability table, the types that *)
(* are routed by it, the operator's pins, the two enforcement knobs and    *)
(* the switch of the whole.  Requests change one of them each; a boot      *)
(* validates the lot and refuses to start on a problem.                    *)
(*                                                                         *)
(* A request reads what it validates in one step and writes in another.    *)
(* The nightly sweep writes its measurements into the same table, and the  *)
(* models that the machines serve change underneath.                       *)
(***************************************************************************)
EXTENDS Ladder

CONSTANTS Requests,
          Changes,      \* what a request may ask for
          Measures,     \* what the sweep may measure
          Seeded,       \* the rows to start with
          Catalogues    \* what live_known_models may answer; None: cannot tell

VARIABLES
    stored,   \* the tables and settings
    known,    \* the models served
    up,       \* whether the console has booted
    req       \* per request: where it is, what it will write, and whether
              \* nothing else was written since it read (a ghost)

delegationVars == <<stored, known, up, req>>

Row == [accuracy: Nat \cup {None}, cost: Nat \cup {None},
        latency: Nat \cup {None}, window: Nat \cup {None}]
Blank == [accuracy |-> None, cost |-> None, latency |-> None, window |-> None]
Idle == [at |-> "idle", write |-> None, alone |-> FALSE]

ASSUME SeededAreRows == /\ DOMAIN Seeded \subseteq Models \X Types
                        /\ \A k \in DOMAIN Seeded : Seeded[k] \in Row
ASSUME ChangesAreEdits ==
    \A c \in Changes :
        \/ /\ c.kind = "row" /\ c.key \in Models \X Types
           /\ c.column \in {"accuracy", "cost", "latency", "window"}
           /\ c.value \in Nat \cup {None}
        \/ c.kind = "operational" /\ c.type \in Types /\ c.on \in BOOLEAN
        \/ c.kind = "pin" /\ c.type \in Types /\ (c.rungs = None \/ c.rungs \in Seq(Models))
        \/ c.kind \in {"ceiling", "budget", "enabled"} /\ c.on \in BOOLEAN
ASSUME MeasuresAreCells ==
    \A x \in Measures :
        x.key \in Models \X Types /\ {x.accuracy, x.latency} \subseteq Nat \cup {None}
ASSUME CataloguesHoldBuiltin == \A k \in Catalogues : k = None \/ Builtin \subseteq k

DelegationInit ==
    /\ stored = [rows |-> Seeded, operational |-> {}, pins |-> <<>>,
                 ceiling |-> FALSE, budget |-> FALSE, enabled |-> TRUE]
    /\ known \in Catalogues
    /\ up = TRUE
    /\ req = [r \in Requests |-> Idle]

-----------------------------------------------------------------------------
(* What is validated, and against which table. *)

Table(s) == CapabilityTable(s.rows, s.operational, s.pins)
WithoutPins(s) == CapabilityTable(s.rows, s.operational, <<>>)
boot_shaped_table(s) == without_unusable_pins(Table(s))

problems_with(tb, s, k) == validate(tb, k, s.ceiling, s.budget)

\* app.py: nothing is validated while the switch is off.
boot_problems(s, k) == IF s.enabled THEN problems_with(boot_shaped_table(s), s, k) ELSE {}
Boots(s, k) == boot_problems(s, k) = {}

Put(f, x, v) == [y \in DOMAIN f \cup {x} |-> IF y = x THEN v ELSE f[y]]
Old(s, key) == IF key \in DOMAIN s.rows THEN s.rows[key] ELSE Blank

\* A row is stored whole: the column that was edited, the rest as read.
Merged(s, c) ==
    IF c.kind = "row"
    THEN [kind |-> "row", key |-> c.key, row |-> [Old(s, c.key) EXCEPT ![c.column] = c.value]]
    ELSE c

Store(s, w) ==
    CASE w.kind = "row" -> [s EXCEPT !.rows = Put(@, w.key, w.row)]
      [] w.kind = "operational" ->
            [s EXCEPT !.operational = IF w.on THEN @ \cup {w.type} ELSE @ \ {w.type}]
      [] w.kind = "pin" ->
            [s EXCEPT !.pins = IF w.rungs = None THEN Unpinned(s, w.type).pins
                               ELSE Put(@, w.type, w.rungs)]
      [] OTHER -> [s EXCEPT ![w.kind] = w.on]

-----------------------------------------------------------------------------
(* The handlers' refusals. *)

\* Without an operational type a row is written unseen.
row_refusals(s, k, w) ==
    IF s.operational = {} THEN {} ELSE problems_with(boot_shaped_table(Store(s, w)), s, k)

\* Mutant: a gate is turned off under the types that run on it.
NoDependents(s) == {}

dependents(s) == s.operational \ GateTypes
gate_refusals(s, w) ==
    IF w.type \in GateTypes THEN {<<t, "runs on", w.type>> : t \in dependents(s)} ELSE {}

operational_refusals(s, k, w) ==
    IF w.on THEN problems_with(WithoutPins(Store(s, w)), s, k) ELSE gate_refusals(s, w)

ceiling_refusals(s, k, w) ==
    IF w.on THEN validate(boot_shaped_table(s), k, TRUE, FALSE) ELSE {}
budget_refusals(s, k, w) ==
    IF w.on THEN validate(boot_shaped_table(s), k, FALSE, TRUE) ELSE {}
enabled_refusals(s, k, w) ==
    IF w.on THEN problems_with(WithoutPins(s), s, k) ELSE {}

\* A pin is refused for its shape, never for what it does to the table.
pin_refusals(s, w) ==
    IF w.rungs = None THEN {}
    ELSE IF Len(w.rungs) > attempts(w.type) THEN {<<w.type, "too many rungs", None>>}
    ELSE IF Cardinality(ToSet(w.rungs)) < Len(w.rungs) THEN {<<w.type, "duplicates", None>>}
    ELSE IF rows_for(s.rows, w.type) = {} THEN {<<w.type, "no rows", None>>}
    ELSE {}

Refusals(s, k, w) ==
    CASE w.kind = "row"         -> row_refusals(s, k, w)
      [] w.kind = "operational" -> operational_refusals(s, k, w)
      [] w.kind = "ceiling"     -> ceiling_refusals(s, k, w)
      [] w.kind = "budget"      -> budget_refusals(s, k, w)
      [] w.kind = "enabled"     -> enabled_refusals(s, k, w)
      [] w.kind = "pin"         -> pin_refusals(s, w)

-----------------------------------------------------------------------------
(* Requests, measurements, machines, boots. *)

NotAlone == [q \in Requests |-> [req[q] EXCEPT !.alone = FALSE]]

\* A refused request ends where it began.
Ask(r, c) ==
    LET w == Merged(stored, c)
    IN  /\ up /\ req[r].at = "idle"
        /\ Refusals(stored, known, w) = {}
        /\ req' = [req EXCEPT ![r] = [at |-> "write", write |-> w, alone |-> TRUE]]
        /\ UNCHANGED <<stored, known, up>>

Write(r) ==
    /\ up /\ req[r].at = "write"
    /\ stored' = Store(stored, req[r].write)
    /\ req' = [NotAlone EXCEPT ![r] = Idle]
    /\ UNCHANGED <<known, up>>

\* write_cell keeps the cost and the window of the row, and asks nobody.  It
\* runs in the sweep's process, whether the console is up or not.
Measure(x) ==
    /\ stored' = [stored EXCEPT !.rows =
                     Put(@, x.key, [Old(stored, x.key) EXCEPT !.accuracy = x.accuracy,
                                                              !.latency = x.latency])]
    /\ req' = NotAlone
    /\ UNCHANGED <<known, up>>

Serve(k) ==
    /\ known' = k
    /\ req' = NotAlone
    /\ UNCHANGED <<stored, up>>

Restart ==
    /\ up' = Boots(stored, known)
    /\ req' = [r \in Requests |-> Idle]
    /\ UNCHANGED <<stored, known>>

DelegationNext ==
    \/ \E r \in Requests, c \in Changes : Ask(r, c)
    \/ \E r \in Requests : Write(r)
    \/ \E x \in Measures : Measure(x)
    \/ \E k \in Catalogues : Serve(k)
    \/ Restart

DelegationSpec == DelegationInit /\ [][DelegationNext]_delegationVars

-----------------------------------------------------------------------------
(* Properties. *)

\* The tables keep their shape: no pin is longer than its type has attempts
\* or names a model twice, and none is of a type that is not in the table.
DelegationTypeOK ==
    /\ DOMAIN stored.rows \subseteq Models \X Types
    /\ \A k \in DOMAIN stored.rows : stored.rows[k] \in Row
    /\ stored.operational \subseteq Types
    /\ stored.ceiling \in BOOLEAN /\ stored.budget \in BOOLEAN /\ stored.enabled \in BOOLEAN
    /\ \A t \in DOMAIN stored.pins :
          /\ t \in Types /\ rows_for(stored.rows, t) # {}
          /\ Len(stored.pins[t]) <= attempts(t)
          /\ Cardinality(ToSet(stored.pins[t])) = Len(stored.pins[t])
    /\ known \in Catalogues /\ up \in BOOLEAN
    /\ \A r \in Requests : req[r] = Idle \/ req[r].at = "write"

\* The ladders that are generated from the table that is stored, whatever
\* edits and measurements made of it, are sound (generated_ladder).
LaddersSound == DelegationTypeOK /\ \A t \in Types : Sound(stored.rows, t)

\* Pins of ordinary types, of models that are served.
OrdinaryPins ==
    \A t \in DOMAIN stored.pins :
        t \notin GateTypes /\ (known # None => ToSet(stored.pins[t]) \subseteq known)

\* Setting pins aside at boot does what it is for: ordinary pins only ever
\* remove problems, never add one (delegation_startup.py:256-258).
PinsOnlyRemove ==
    OrdinaryPins => problems_with(boot_shaped_table(stored), stored, known)
                    \subseteq problems_with(WithoutPins(stored), stored, known)

\* What a validated request writes alone does not stop the next boot: the
\* handlers predict what validate_or_die will say.  Those that validate a
\* table without pins are excused where a pin is not an ordinary one.
AcceptedBoots ==
    [][\A r \in Requests :
          /\ req[r].at = "write" /\ req'[r].at = "idle" /\ req[r].alone
          /\ req[r].write.kind # "pin"
          /\ req[r].write.kind \in {"operational", "enabled"} => OrdinaryPins
          => (Boots(stored, known) => Boots(stored', known'))]_delegationVars

-----------------------------------------------------------------------------
(* What documents and comments say, and the code does not do. *)

\* What was validated boots, whatever other request lands in between: "a
\* settings write that bricks the boot path is exactly what 1.1's checks exist
\* to prevent" (routes/delegation.py:624-626).
ValidatedBoots ==
    [][\A r \in Requests :
          /\ req[r].at = "write" /\ req'[r].at = "idle"
          /\ req[r].write.kind # "pin" /\ OrdinaryPins
          => (Boots(stored, known) => Boots(stored', known'))]_delegationVars

\* Setting or clearing a pin leaves a deployment that boots: what would
\* prevent startup is dropped (routes/delegation.py:866).
PinEditBoots ==
    [][\A r \in Requests :
          /\ req[r].at = "write" /\ req'[r].at = "idle" /\ req[r].write.kind = "pin"
          => (Boots(stored, known) => Boots(stored', known'))]_delegationVars

\* So does a measurement: "every write is validated before it is stored"
\* (routes/delegation.py:4-5).
MeasuringBoots ==
    [][\A x \in Measures : Measure(x) => (Boots(stored, known) => Boots(stored', known'))]_delegationVars

\* No pin at all adds a problem: "a pin can only ever remove a problem here,
\* never add one" (delegation_startup.py:258-259).
AnyPinOnlyRemoves ==
    problems_with(boot_shaped_table(stored), stored, known)
        \subseteq problems_with(WithoutPins(stored), stored, known)

\* A flip is refused only for what would stop a boot: "Every prospective check
\* must build its table through this" (delegation_startup.py:261).
RefusedOnlyIfBootFails ==
    \A c \in Changes :
        c.kind = "operational" /\ c.on /\ stored.enabled /\ Refusals(stored, known, c) # {}
        => ~Boots(Store(stored, c), known)
=============================================================================
