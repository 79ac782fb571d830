----------------------------- MODULE MCDBProxy -----------------------------
EXTENDS DBProxy, TLC

CONSTANTS my1, my2, pg1, pg2, x1, w1, w2, t1, t2

MCMySQL == {my1, my2}
MCPostgres == {pg1, pg2}
MCCancel == {x1}
MCWeb == {w1, w2}
MCUsqlOf == (w1 :> my2) @@ (w2 :> pg2)
MCCancelOf == x1 :> pg1
MCTokenOf == (my1 :> t1) @@ (my2 :> t1) @@ (pg1 :> t2) @@ (pg2 :> t2)

\* The terminals share one slot; a CancelRequest needs a second one.
MCLimit == ("mysql" :> 1) @@ ("postgres" :> 2) @@ ("web" :> 1)

\* Who comes in one behaviour: rivals for a token and a slot; a cancelled
\* query; two terminals.  A request fails where no more than two have come, and
\* a login has a USE where only one has.
Groups == {{my1, my2, w1}, {pg1, pg2, w2}, {pg1, x1}, {w1, w2, my2}}

Came == {c \in Conns : pc[c] # "idle"} \union {w \in Web : term[w] # "idle"}
Grouped == /\ \E g \in Groups : Came \subseteq g
           /\ failures = 0 \/ Cardinality(Came) <= 2
           /\ \/ Cardinality(Came) <= 1
              \/ /\ \A c \in MySQL : pc[c] # "use"
                 /\ \A m \in missed : m[2] # "login"

=============================================================================
