----------------------------- MODULE MCRDPProxy -----------------------------
EXTENDS RDPProxy, TLC

CONSTANTS w1, w2, n1

MCWeb == {w1, w2}
MCNative == {n1}

\* The web connections are alike, and the first to come is the first one; a
\* second one comes in behaviours without the native client.
Regimes == /\ conn[w1] = "none" => conn[w2] = "none"
           /\ conn[w2] = "none" \/ conn[n1] = "none"

=============================================================================
