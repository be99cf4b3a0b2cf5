----------------------------- MODULE MCPrompts -----------------------------
(* Instances of Prompts for TLC. *)
EXTENDS Prompts

CONSTANT p1

\* A question that recommends an answer, a permission and a plan: raised one by
\* one, or called for together.  The last two are told by the same line.
const_Script == <<
    [kind |-> "question",   labels |-> <<"yes", "recommended">>, words |-> "Which"],
    [kind |-> "permission", labels |-> <<"no", "yes">>,          words |-> "Proceed"],
    [kind |-> "plan",       labels |-> <<"yes">>,                words |-> "Proceed"]>>
=============================================================================
