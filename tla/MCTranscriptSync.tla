-------------------------- MODULE MCTranscriptSync --------------------------
\* A turn t1 and a terminal that says things of its own, one thing twice that
\* is also t1's reply, or what t1's prompt and reply say.
EXTENDS TranscriptSync
CONSTANTS p1, p2, t1, q1, q2

const_Distinct == [row \in Row |-> row]
const_Repeated ==
    [row \in Row |-> IF row[1] = "say" THEN <<"reply", t1>> ELSE row]
const_Echoed ==
    [row \in Row |-> IF row = <<"say", 1>> THEN <<"prompt", t1>>
                     ELSE IF row = <<"say", 2>> THEN <<"reply", t1>> ELSE row]
const_Wordings == {const_Distinct, const_Repeated, const_Echoed}
const_OwnWords == {const_Distinct}
=============================================================================
