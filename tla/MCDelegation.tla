---------------------------- MODULE MCDelegation ----------------------------
(* Instances of Delegation for TLC. *)
EXTENDS Delegation

CONSTANTS r1, r2

R(a, c, l, w) == [accuracy |-> a, cost |-> c, latency |-> l, window |-> w]
On(kind) == {[kind |-> kind, on |-> b] : b \in BOOLEAN}
Cell(m, t, column, v) == [kind |-> "row", key |-> <<m, t>>, column |-> column, value |-> v]
Pin(t, rungs) == [kind |-> "pin", type |-> t, rungs |-> rungs]

const_TypeOrder == <<"coding", "gate">>
const_GateCalls == [g \in {"gate"} |-> 2]
const_Reach == <<6, 3, 1>>
const_GateReach == <<6, 1>>
const_Calibration == [t \in {"coding"} |-> [baseline |-> 2, reference |-> 2]]

\* Model 2 is slow; 3 is as accurate, faster and dearer.  Model 4 is not in
\* the built-in list, and qualified.
const_Seeded ==
    [k \in {<<1, "coding">>, <<2, "coding">>, <<3, "coding">>, <<4, "coding">>,
            <<1, "gate">>, <<3, "gate">>, <<4, "gate">>} |->
        CASE k = <<1, "coding">> -> R(1, 0, 1, 9)
          [] k = <<2, "coding">> -> R(2, 1, 6, 9)
          [] k = <<3, "coding">> -> R(2, 2, 2, 9)
          [] k = <<4, "coding">> -> R(3, 3, 1, 9)
          [] k = <<1, "gate">>   -> R(1, 0, 1, 9)
          [] k = <<3, "gate">>   -> R(2, 2, 3, 9)
          [] k = <<4, "gate">>   -> R(2, 4, 3, 9)]

Flips == {[kind |-> "operational", type |-> t, on |-> b] : t \in {"coding", "gate"}, b \in BOOLEAN}
Pins == {Pin("coding", None), Pin("coding", <<1, 3, 4>>), Pin("coding", <<1, 2, 3, 4>>), Pin("coding", <<2, 2>>),
         Pin("coding", <<>>), Pin("gate", None), Pin("gate", <<4>>)}
Cells == {Cell(4, "coding", "cost", None), Cell(3, "coding", "cost", 4)}
const_Changes == Flips \cup On("ceiling") \cup On("budget") \cup On("enabled") \cup Pins \cup Cells

const_Measures ==
    {[key |-> <<3, "coding">>, accuracy |-> 3, latency |-> 2],
     [key |-> <<1, "gate">>, accuracy |-> 2, latency |-> 2]}
const_Catalogues == {None, {1, 2, 3}}
=============================================================================
