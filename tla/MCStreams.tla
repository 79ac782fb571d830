------------------------------ MODULE MCStreams ------------------------------
(* Instances of PostgresAudit, MySQLWire and CommandFilter for TLC, which are *)
(* checked side by side: a behaviour runs one and leaves the others idle.     *)
EXTENDS MCPostgresAudit, DBStreams, SSHStreams

wireVars == <<toMySQL, toClient, stage, seq, columns, todo, rows, expired,
              reader, expected, left, commands, spoiled, silent>>
filterVars == <<rules, line, buf, delivered, notices, ended, typed>>

Rule(pattern, compiles, action) ==
    [pattern |-> pattern, compiles |-> compiles, action |-> action]

\* No rules; and rules of every sort, of which "rm" and "m" reject.
MCRuleLists ==
    {<<>>,
     <<Rule(<<>>, TRUE, "deny"), Rule(<<" ">>, TRUE, "deny"),
       Rule(<<"r">>, FALSE, "deny"), Rule(<<"r", "r">>, TRUE, "review"),
       Rule(<<"r", "m">>, TRUE, ""), Rule(<<"r">>, TRUE, "review"),
       Rule(<<"m">>, TRUE, "deny")>>}

\* Letters, a blank, a control character, and two ends of a line.
MCBytes == {"r", "m", " ", "^", "cr", "lf"}
MCBlanks == {" "}
MCControls == {"^"}
MCLineEnds == {"cr", "lf"}

-----------------------------------------------------------------------------
(* One of them *)

VARIABLE part

MCInit ==
    /\ part \in {"postgres", "mysql", "filter"}
    /\ Init /\ Wire!Init /\ Filter!Init
    /\ part # "filter" => rules = <<>>

MCNext ==
    /\ UNCHANGED part
    /\ \/ /\ part = "postgres" /\ Next
          /\ UNCHANGED <<wireVars, filterVars>>
       \/ /\ part = "mysql" /\ Wire!Next
          /\ UNCHANGED <<vars, filterVars>>
       \/ /\ part = "filter" /\ Filter!Next
          /\ UNCHANGED <<vars, wireVars>>

\* Four messages, two answers under way; or three, with a line lost or the end
\* of the relay.
Regimes == sent <= 3 \/ (open /\ unwritten = {} /\ Len(toProxy) <= 2)

MCSpec == MCInit /\ [][MCNext]_<<part, vars, wireVars, filterVars>>
=============================================================================
