--------------------------- MODULE MCSessionStore ---------------------------
(* Instances of SessionStore for TLC. *)
EXTENDS SessionStore, TLC

CONSTANTS w1, w2

TwoWorkers == {w1, w2}

\* One session, a clock and a failure; two of either kind; three native ones
\* under a limit of two; with a failure, two that only the native endpoints
\* touch.
Regimes ==
    \/ last <= 1
    \/ /\ now = 0 /\ failures = 0
       /\ last <= 2 \/ (forced = {} /\ \A i \in 1..last : rows[i].native)
    \/ /\ now = 0 /\ last <= 2 /\ updated = {} /\ forced = {}
       /\ \A w \in Workers : sess[w] = NoRow

\* The workers are alike: the first session is made by the first one, or while
\* it is at it.
FirstIsFirst == last = 0 /\ pc[w1] = "idle" => pc[w2] = "idle"
=============================================================================
