--------------------------- MODULE MCPostgresAudit ---------------------------
(* Instances of PostgresAudit for TLC. *)
EXTENDS PostgresAudit, TLC

CONSTANTS Prepared, A, B

AllNames == {Unnamed, Prepared}
TwoPortals == {Unnamed, Prepared}

\* A client that mixes the simple and the extended protocol, names its portals,
\* and sends texts of no, one and two statements.
MixedRequests ==
    {Query(<<B>>), Query(<<A, B>>), Sync}
    \union {Parse(Prepared, <<A>>), Parse(Unnamed, <<B>>), Parse(Unnamed, <<>>)}
    \union {Bind(Unnamed, n) : n \in AllNames} \union {Bind(Prepared, Prepared)}
    \union {Execute(p) : p \in TwoPortals}
    \union {CloseStatement(Prepared), ClosePortal(Unnamed)}

\* The least that goes wrong with a ReadyForQuery.
OneQuery == {Query(<<A>>)}
=============================================================================
