------------------------------ MODULE DBStreams ------------------------------
(***************************************************************************)
(* What the database proxies write into the connections they relay: the    *)
(* audit of the PostgreSQL stream, and beside it an instance of MySQLWire, *)
(* the packets of the MySQL proxy.  The two proxies share no state; what   *)
(* the second one promises has its name here.                              *)
(***************************************************************************)
EXTENDS PostgresAudit

CONSTANTS ColumnCounts, MaxRows, MaxCommands, Window   \* MySQLWire

\* LenEncInt has the numbers that fit in two bytes; MySQL allows 4096 columns.
ASSUME ColumnCountsType == \A n \in ColumnCounts : n \in Nat /\ n < 65536

VARIABLES
    toMySQL, toClient, stage, seq, columns, todo, rows, expired, reader,
    expected, left, commands, spoiled, silent

Wire == INSTANCE MySQLWire WITH toProxy <- toMySQL

-----------------------------------------------------------------------------
(* Properties *)

\* See MySQLWire: the client understands every answer and gets one.
AnswersInStep == Wire!AnswersInStep
=============================================================================
