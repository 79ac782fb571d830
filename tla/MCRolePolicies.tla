--------------------------- MODULE MCRolePolicies ---------------------------
(* Instances of RolePolicies for TLC. *)
EXTENDS RolePolicies, TLC

CONSTANTS w1, w2, super, ops, p1, p2

TwoWorkers == {w1, w2}
TwoNames == {super, ops}
OneDefault == {super}
TwoPerms == {p1, p2}
SuperMay == {<<super, p1>>}

\* The roles and the name of the administrator as they are at the start, or the
\* role withdrawn by a request about the role.
AdminAsCreated == held \subseteq {1} /\ (admin \/ ~withdrawn)

\* One request after the other and two failures: the undoing of a rename, which
\* begins with a failure, fails too.  Two requests at once; and with a failure
\* between them, where a role's rules are taken away or another one is given.
\* The administrator's name and roles change beside one request at a time, with
\* a failure or none.
Regimes ==
    \/ together = {} /\ (failures <= 1 \/ AdminAsCreated)
    \/ failures = 0 /\ AdminAsCreated
    \/ /\ failures = 1 /\ AdminAsCreated
       /\ \A w \in Workers : req[w].op = "set" => req[w].asked \in {{}, {p2}}

\* The workers are alike: the second one has a request only beside the first
\* one's.
FirstIsFirst == pc[w2] # "idle" => w2 \in together
=============================================================================
