----------------------------- MODULE MCTunnels -----------------------------
\* Two machines on one transport: the instance in which a connection is shared.
EXTENDS Tunnels, TLC
CONSTANTS m1, m2, t1
const_TransportOf == (m1 :> t1) @@ (m2 :> t1)
=============================================================================
