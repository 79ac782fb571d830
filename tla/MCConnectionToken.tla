-------------------------- MODULE MCConnectionToken --------------------------
(* An instance of ConnectionGrants for TLC.  Its two parts are checked side   *)
(* by side: a behaviour runs one and leaves the other idle.                   *)
EXTENDS ConnectionGrants, TLC

CONSTANTS u1, s1, s2, a1, t1, t2, w1, w2

MCUsers == {u1}
MCAssets == {s1, s2}
MCAccounts == {a1}
MCAssetOf == (a1 :> s1)
MCTokens == {t1, t2}
MCWorkers == {w1, w2}
MCSpellings == {"", "postgresql"}

\* Two workers race for one token while administrators intervene.
Race ==
    /\ status[s2] = "inactive"
    /\ now <= 1 \/ adminOps <= 1
    /\ \E t \in Tokens :
          /\ minted[t] = "never"
          /\ \A w \in Workers : req[w] # NoRow =>
                IF "token" \in DOMAIN req[w]
                THEN req[w].token # t /\ req[w].expected # "postgres"
                ELSE req[w].asset = s1 /\ req[w].protocol = "ssh"

\* One worker at a time, every request: another asset than the account's,
\* every protocol spelling.  With two tokens, which must not be confused,
\* nothing else happens.
OneByOne ==
    /\ now <= 1 /\ adminOps <= 1
    /\ \E w \in Workers : req[w] = NoRow
    /\ (\E t \in Tokens : minted[t] = "never") \/ now + adminOps = 0

-----------------------------------------------------------------------------
(* AssetGrants *)

CONSTANTS g1, n0, n1, c1, c2, c3, p1

MCGroups == {g1}
MCNodes == {n0, n1}
MCNamedAccounts == {c1, c2, c3}
MCPermissions == {p1}
MCMemberOf == (g1 :> {u1})
MCParent == (n0 :> NoRow @@ n1 :> n0)
MCAccountAsset == (c1 :> s1 @@ c2 :> s1 @@ c3 :> s2)

\* Everybody of a group may use what hangs below the root, from tomorrow on.
Everything == [active |-> "absent", actions |-> {}, from |-> 1, until |-> 2,
               users |-> {}, groups |-> {g1}, assets |-> {}, nodes |-> {n0},
               accounts |-> {}]
OneAccount == [active |-> "on", actions |-> {"connect", ""}, from |-> 0,
               until |-> 2, users |-> {u1}, groups |-> {}, assets |-> {s1},
               nodes |-> {}, accounts |-> {c1}]
\* Accounts of two assets, until tonight.
TwoAssets == [active |-> "absent", actions |-> {"connect", "upload"},
              from |-> 0, until |-> 1, users |-> {u1}, groups |-> {},
              assets |-> {s1}, nodes |-> {n1}, accounts |-> {c1, c3}]
Withdrawn == [OneAccount EXCEPT !.active = "off", !.actions = {"upload"}]

MCInputs == {Everything, OneAccount, TwoAssets, Withdrawn}
MCAssetInputs == {[node |-> n0, active |-> "on"],
                  [node |-> NoRow, active |-> "off"]}

\* The first asset hangs below the root and has an account; the second one and
\* its account exist together.
Populated == requests = 0 =>
    /\ {s1, c1} \subseteq created /\ (s2 \in created <=> c3 \in created)
    /\ assets[s1].node = n1 /\ (s2 \in created => assets[s2].node = n0)

-----------------------------------------------------------------------------
(* One or the other *)

VARIABLE part

grantVars == <<assets, accounts, rule, links, users, created, today, doing,
               request, row, requests, secrets, asked>>

MCInit ==
    \/ part = "tokens" /\ Init /\ Tables!Init /\ created = {}
    \/ /\ part = "grants" /\ Tables!Init
       /\ Init /\ connect = {} /\ \A e \in Entities : status[e] = "active"

MCNext ==
    \/ part = "tokens" /\ Next /\ UNCHANGED <<part, grantVars>>
    \/ part = "grants" /\ Tables!Next /\ UNCHANGED <<part, vars>>

MCSpec == MCInit /\ [][MCNext]_<<part, vars, grantVars>>

Bounded == IF part = "tokens" THEN Race \/ OneByOne ELSE Populated

Symmetric == Permutations(MCWorkers) \union Permutations(MCTokens)
=============================================================================
