------------------------------- MODULE Ladder -------------------------------
(***************************************************************************)
(* The capability table of tiered delegation: which models would be tried, *)
(* in what order, for a task type, and what is wrong with a table.         *)
(*                                                                         *)
(* A table is a record of rows, operational types and pins, and of what    *)
(* follows from the rows alone.  Its rows are a function from pairs        *)
(* (model, task type), its pins one from task types to ladders.            *)
(* A model is a number, its place among the names.  Sample sizes and       *)
(* the wording of a problem are left out: a problem is the task type it    *)
(* names, its kind, and what distinguishes it from others of its kind.     *)
(***************************************************************************)
EXTENDS Naturals, FiniteSets, Sequences, SequencesExt

CONSTANTS Models,
          TypeOrder,         \* the task types, in the order of their names
          GateCalls,         \* how many calls of a leaf each gate type backs
          Excluded,          \* EXCLUDED_MODELS
          Qualified,         \* models named "backend/model"
          Builtin,           \* config.KNOWN_MODELS
          MaxAttempts, GateMaxAttempts,
          Reach, GateReach,  \* P(rung is reached), per attempt, on a common scale
          LeafTokens, GateTokens,
          Budget, Ceiling,
          Calibration,       \* of some types: published baseline, its reference
          SizeFactor,        \* the largest
          None

Types == {TypeOrder[i] : i \in DOMAIN TypeOrder}
GateTypes == DOMAIN GateCalls

ASSUME ModelsAreNumbers == Models \subseteq Nat /\ IsFiniteSet(Models)
ASSUME GatesAreTypes == GateTypes \subseteq Types
ASSUME TypesAreOrdered == TypeOrder \in Seq(Types)
ASSUME EveryAttemptIsPriced == /\ Reach \in Seq(Nat) /\ Len(Reach) = MaxAttempts
                               /\ GateReach \in Seq(Nat) /\ Len(GateReach) = GateMaxAttempts
ASSUME SomeCalibration == Calibration # <<>> /\ DOMAIN Calibration \subseteq Types

attempts(t) == IF t \in GateTypes THEN GateMaxAttempts ELSE MaxAttempts

-----------------------------------------------------------------------------
(* Ladders. *)

rows_for(rows, t) == {m \in Models : <<m, t>> \in DOMAIN rows}

Accuracy(rows, t, m) == rows[<<m, t>>].accuracy
Price(rows, t, m) == rows[<<m, t>>].cost

ladder_eligible(rows, t) ==
    {m \in rows_for(rows, t) : /\ Accuracy(rows, t, m) # None
                               /\ m \notin Excluded
                               /\ Price(rows, t, m) # None}

\* Cheapest first, ties by name.
Cheaper(rows, t, m, k) ==
    \/ Price(rows, t, m) < Price(rows, t, k)
    \/ Price(rows, t, m) = Price(rows, t, k) /\ m < k

by_cost(rows, t, S) ==
    [i \in 1..Cardinality(S) |->
        CHOOSE m \in S : Cardinality({k \in S : Cheaper(rows, t, k, m)}) = i - 1]

\* The walk skips a model measured worse than the current rung.
Climb(rows, t, rungs, m) ==
    IF rungs # <<>> /\ Accuracy(rows, t, m) < Accuracy(rows, t, Last(rungs))
    THEN rungs ELSE Append(rungs, m)

WalkSteps(rows, t) ==
    LET order == by_cost(rows, t, ladder_eligible(rows, t))
        walked[i \in 0..Len(order)] ==
            IF i = 0 THEN <<>> ELSE Climb(rows, t, walked[i - 1], order[i])
    IN  walked

Walk(rows, t) == WalkSteps(rows, t)[Cardinality(ladder_eligible(rows, t))]

\* What the attempt budget drops next: the first rung between the ends that
\* does not improve on the one before it, else the least accurate one.
Victim(acc) ==
    LET middle    == 2..Len(acc) - 1
        redundant == {i \in middle : acc[i] <= acc[i - 1]}
        worst     == {i \in middle : \A j \in middle : acc[i] <= acc[j]}
    IN  Min(IF redundant # {} THEN redundant ELSE worst)

\* Mutant: the first rungs are kept, and the most accurate one lost.
KeepFirst(rows, t, rungs) ==
    IF Len(rungs) <= attempts(t) THEN rungs ELSE SubSeq(rungs, 1, attempts(t))

Drop(rows, t, kept) ==
    RemoveAt(kept, Victim([j \in DOMAIN kept |-> Accuracy(rows, t, kept[j])]))

Drops(rows, t, rungs) ==
    LET kept[i \in 0..Len(rungs) - attempts(t)] ==
            IF i = 0 THEN rungs ELSE Drop(rows, t, kept[i - 1])
    IN  kept

truncate_to_attempt_budget(rows, t, rungs) ==
    IF Len(rungs) <= attempts(t) THEN rungs
    ELSE IF attempts(t) = 0 THEN <<>>
    ELSE IF attempts(t) = 1 THEN <<Last(rungs)>>
    ELSE Drops(rows, t, rungs)[Len(rungs) - attempts(t)]

generated_ladder(rows, t) == truncate_to_attempt_budget(rows, t, Walk(rows, t))

\* The models a gate can run on, measured or not, cheapest first.
gate_candidates(rows, g) ==
    by_cost(rows, g, {m \in rows_for(rows, g) : m \notin Excluded /\ Price(rows, g, m) # None})

\* A table; what follows from its rows alone is worked out once.
CapabilityTable(rows, operational, pins) ==
    [rows |-> rows, operational |-> operational, pins |-> pins,
     generated |-> [t \in Types |-> generated_ladder(rows, t)],
     candidates |-> [g \in GateTypes |-> gate_candidates(rows, g)]]

\* A pin replaces the generated ladder, an empty one too.
ladder(tb, t) == IF t \in DOMAIN tb.pins THEN tb.pins[t] ELSE tb.generated[t]

-----------------------------------------------------------------------------
(* The worst-case path, and the expected cost of a tree. *)

Latency(tb, t, m) == IF m \in rows_for(tb.rows, t) THEN tb.rows[<<m, t>>].latency ELSE None
Rate(tb, t, m) == IF m \in rows_for(tb.rows, t) THEN Price(tb.rows, t, m) ELSE None

\* The fastest ladder-eligible model; None also for a reference of zero.
latency_reference_s(tb, t) ==
    LET measured == {Latency(tb, t, m) : m \in ladder_eligible(tb.rows, t)} \ {None}
    IN  IF measured = {} \/ 0 \in measured THEN None ELSE Min(measured)

gate_rung0(tb, g) ==
    LET rungs == ladder(tb, g)
        floor == tb.candidates[g]
    IN  IF rungs # <<>> /\ rungs[1] \in rows_for(tb.rows, g) THEN rungs[1]
        ELSE IF floor # <<>> THEN floor[1] ELSE None

\* The entry call is timed by the gate's row, else by the leaf's own.
gate_latency_s(tb, t, g) ==
    LET gate == gate_rung0(tb, g)
    IN  IF Latency(tb, g, gate) # None THEN Latency(tb, g, gate) ELSE Latency(tb, t, gate)

climbs(tb, g) == Len(tb.candidates[g]) > 1
gate_climb_latency_s(tb, g) ==
    IF climbs(tb, g) THEN Latency(tb, g, tb.candidates[g][2]) ELSE 0

gates_of(t) == IF t \in GateTypes THEN {} ELSE GateTypes

\* Why the worst-case path cannot be computed: problems, whatever the knobs.
PathUnknown(tb, t) ==
    LET rungs == ToSet(ladder(tb, t))
    IN  IF rungs = {} THEN {}
        ELSE IF latency_reference_s(tb, t) = None THEN {<<t, "no reference", None>>}
        ELSE {<<t, "no latency", m>> : m \in {k \in rungs : Latency(tb, t, k) = None}}
             \cup {<<t, "no gate entry", g>> :
                      g \in {h \in gates_of(t) : gate_latency_s(tb, t, h) = None}}
             \cup {<<t, "no gate climb", g>> :
                      g \in {h \in gates_of(t) : gate_climb_latency_s(tb, h) = None}}

\* Every generation attempt runs to its deadline, each gate call once per
\* attempt and once more at its climb.  The path is a fraction, in seconds:
\* with a calibrated baseline the reference cancels.
worst_case(tb, t) ==
    LET rungs == ToSet(ladder(tb, t))
        gate(g) == GateCalls[g] * (MaxAttempts * gate_latency_s(tb, t, g)
                                   + gate_climb_latency_s(tb, g))
        sum == SumFunction([m \in rungs |-> Latency(tb, t, m)])
               + SumFunction([g \in gates_of(t) |-> gate(g)])
        longest == Max({Calibration[c].baseline : c \in DOMAIN Calibration})
    IN  IF t \in DOMAIN Calibration
        THEN [num |-> Calibration[t].baseline * SizeFactor * sum,
              den |-> Calibration[t].reference]
        ELSE [num |-> longest * SizeFactor * sum, den |-> latency_reference_s(tb, t)]

\* The breach names the path, rounded to a second.
ceiling_breach(tb, t) ==
    IF ladder(tb, t) = <<>> \/ PathUnknown(tb, t) # {} THEN {}
    ELSE LET path == worst_case(tb, t)
         IN  IF path.num <= Ceiling * path.den THEN {}
             ELSE {<<t, "ceiling", (2 * path.num + path.den) \div (2 * path.den)>>}

CostUnknown(tb, t) ==
    {<<t, "no cost", m>> : m \in {k \in ToSet(ladder(tb, t)) : Rate(tb, t, k) = None}}

rung_cost_usd(tb, t, i) ==
    IF t \in GateTypes THEN GateTokens * GateReach[i] * Rate(tb, t, ladder(tb, t)[i])
                       ELSE LeafTokens * Reach[i] * Rate(tb, t, ladder(tb, t)[i])

tree_cost(tb, t) ==
    SumFunction([i \in DOMAIN ladder(tb, t) |-> rung_cost_usd(tb, t, i)])

\* The breach names the total and the costliest rung, the first of equals.
budget_breach(tb, t) ==
    LET rungs == DOMAIN ladder(tb, t)
        costliest == Min({i \in rungs : \A j \in rungs :
                              rung_cost_usd(tb, t, j) <= rung_cost_usd(tb, t, i)})
    IN  IF rungs = {} \/ CostUnknown(tb, t) # {} \/ tree_cost(tb, t) <= Budget THEN {}
        ELSE {<<t, "budget", <<tree_cost(tb, t), ladder(tb, t)[costliest]>>>>}

-----------------------------------------------------------------------------
(* Validation. *)

\* A bare name is looked up in the models that are served, or in the built-in
\* list when those are not known; a qualified one only in the former.
resolution_problems(tb, t, known) ==
    {<<t, "unresolved", m>> :
        m \in {k \in ToSet(ladder(tb, t)) :
                  IF known # None THEN k \notin known
                  ELSE k \notin Qualified /\ k \notin Builtin}}

\* A model's context window is the same for every operational type.
windows(tb, m) ==
    {tb.rows[<<m, t>>].window : t \in {u \in tb.operational : m \in rows_for(tb.rows, u)}} \ {None, 0}

max_context_problems(tb) ==
    {<<"table", "windows", m>> : m \in {k \in Models : Cardinality(windows(tb, k)) > 1}}

type_problems(tb, t, known, ceiling, budget) ==
       {<<t, "blank", m>> : m \in {k \in ladder_eligible(tb.rows, t) :
                                      None \in {tb.rows[<<k, t>>].latency, tb.rows[<<k, t>>].window}}}
  \cup (IF ladder(tb, t) = <<>> THEN {<<t, "empty", None>>} ELSE {})
  \cup {<<t, "no row", m>> : m \in ToSet(ladder(tb, t)) \ rows_for(tb.rows, t)}
  \cup resolution_problems(tb, t, known)
  \cup {<<t, "gate off", g>> : g \in gates_of(t) \ tb.operational}
  \cup PathUnknown(tb, t)
  \cup (IF ceiling THEN ceiling_breach(tb, t) ELSE {})
  \cup CostUnknown(tb, t)
  \cup (IF budget THEN budget_breach(tb, t) ELSE {})

validate(tb, known, ceiling, budget) ==
    (UNION {type_problems(tb, t, known, ceiling, budget) : t \in tb.operational})
    \cup max_context_problems(tb)

Unpinned(tb, t) == [tb EXCEPT !.pins = [u \in DOMAIN @ \ {t} |-> @[u]]]

\* Mutant: every pin is kept.
EveryPin(tb) == tb

\* A pin is dropped if its type has a problem with it that it would not have
\* without, at both knobs and against the built-in list ...
Troubles(tb, t) == IF t \in tb.operational THEN type_problems(tb, t, None, TRUE, TRUE) ELSE {}

without_unusable_pin(tb, t) ==
    IF t \in DOMAIN tb.pins /\ ~(Troubles(tb, t) \subseteq Troubles(Unpinned(tb, t), t))
    THEN Unpinned(tb, t) ELSE tb

\* ... one after another.
TablesTried(tb) ==
    LET after[i \in 0..Len(TypeOrder)] ==
            IF i = 0 THEN tb ELSE without_unusable_pin(after[i - 1], TypeOrder[i])
    IN  after

without_unusable_pins(tb) == TablesTried(tb)[Len(TypeOrder)]

-----------------------------------------------------------------------------
(* What a generated ladder is for. *)

\* The models that no cheaper one beats.
Envelope(rows, t) ==
    {m \in ladder_eligible(rows, t) :
        ~ \E k \in ladder_eligible(rows, t) :
             Cheaper(rows, t, k, m) /\ Accuracy(rows, t, k) > Accuracy(rows, t, m)}

\* A generated ladder climbs, in cost and never down in accuracy, from the
\* cheapest model to the most accurate one, over models that no cheaper one
\* beats, within the attempts there are; and if an accuracy was left out for
\* want of attempts, each attempt but the last improves on the one before.
Sound(rows, t) ==
    LET rungs  == generated_ladder(rows, t)
        acc(i) == Accuracy(rows, t, rungs[i])
        best   == Envelope(rows, t)
        n      == Len(rungs)
    IN  /\ ToSet(rungs) \subseteq best
        /\ n = Min({Cardinality(best), attempts(t)})
        /\ \A i, j \in 1..n : i < j => Cheaper(rows, t, rungs[i], rungs[j]) /\ acc(i) <= acc(j)
        /\ n > 0 => \A m \in ladder_eligible(rows, t) : Accuracy(rows, t, m) <= acc(n)
        /\ n > 1 => \A m \in ladder_eligible(rows, t) \ {rungs[1]} : Cheaper(rows, t, rungs[1], m)
        /\ \/ {acc(i) : i \in 1..n} = {Accuracy(rows, t, m) : m \in best}
           \/ \A i \in 2..n - 1 : acc(i - 1) < acc(i)
=============================================================================
