----------------------------- MODULE MCAttempts -----------------------------
EXTENDS Attempts
CONSTANTS s1, b1

\* The result frames a retry, the accounting or the second try tells apart.
const_Reports == {<<"few">>, <<"many">>, <<"few", "stalled">>}
=============================================================================
