------------------------------ MODULE MySQLWire ------------------------------
(***************************************************************************)
(* The MySQL protocol as the proxy speaks it to its client.  Every packet  *)
(* carries a number of eight bits which the reader compares with its own   *)
(* count; a command starts at 0 again.  The proxy does not count what it   *)
(* reads: each answer begins with 1, an error in the middle of one too.    *)
(*                                                                         *)
(* The proxy writes packet by packet into a connection that takes a few.   *)
(* Its read and write deadline is renewed before each command only.  What  *)
(* the client makes of the packets is the protocol's and so external.  A   *)
(* packet is its number and its kind; of a result set's first packet the   *)
(* bytes of the column count are kept, since their first one tells kinds   *)
(* of packets apart.  DBProxy has what goes on around the connection.      *)
(***************************************************************************)
EXTENDS Integers, Sequences

CONSTANTS ColumnCounts,  \* of the result sets the target returns; 0 is none
          MaxRows,       \* bound: rows of a result set
          MaxCommands,   \* bound: commands of a client
          Window         \* bound: packets written and not yet read

Byte == 256
Numbers == 0..(Byte - 1)
Following(number) == (number + 1) % Byte

\* What a client may send; "stray" is the rest of a text that did not fit in
\* one packet, whose first byte may be any command.  A statement is only closed
\* after it was prepared, which never succeeds.
Commands == {"quit", "ping", "init_db", "query", "unsupported"}
Sent == Commands \union {"login", "stray"}

VARIABLES
    toProxy,   \* what the client sent, packet by packet
    toClient,  \* packets [number, kind, bytes] under way to the client
    stage,     \* what the proxy is about to do on the connection
    seq,       \* the number of the packet it writes next
    columns, todo, rows,  \* of its result set; columns and rows written
    expired,   \* the deadline has passed: writes fail
    reader,    \* what the client waits for
    expected,  \* the number it expects
    left,      \* columns it still expects
    commands,  \* commands it has sent
    spoiled,   \* history: what no client could follow
    silent     \* history: a command will not be answered

proxyVars == <<stage, seq, columns, todo, rows, expired, silent>>
clientVars == <<reader, expected, left, commands>>
vars == <<toProxy, toClient, proxyVars, clientVars, spoiled>>

Writing == {"greet", "welcome", "refuse", "ok", "error", "count", "columns",
            "columns_end", "rows"}
Kinds == {"greeting", "ok", "error", "count", "column", "eof", "row"}
Readers == {"greeting", "first", "columns", "columns_end", "rows", "idle",
            "closed", "confused"}

TypeOK ==
    /\ toProxy \in Seq(Sent)
    /\ \A i \in DOMAIN toClient : toClient[i].number \in Numbers
                                  /\ toClient[i].kind \in Kinds
    /\ stage \in Writing \union {"login", "reading", "closed"}
    /\ seq \in Numbers
    /\ columns \in ColumnCounts \union {0} /\ todo \in Nat
    /\ rows \in 0..MaxRows
    /\ expired \in BOOLEAN /\ silent \in BOOLEAN
    /\ reader \in Readers
    /\ expected \in Numbers
    /\ left \in Nat
    /\ commands \in 0..MaxCommands
    /\ spoiled \subseteq {"late error", "no columns", "long text"}

Init ==
    /\ toProxy = <<>> /\ toClient = <<>>
    /\ stage = "greet" /\ seq = 0
    /\ columns = 0 /\ todo = 0 /\ rows = 0
    /\ expired = FALSE /\ silent = FALSE
    /\ reader = "greeting" /\ expected = 0 /\ left = 0 /\ commands = 0
    /\ spoiled = {}

-----------------------------------------------------------------------------
(* Packets *)

MutantLenEncInt(n) == IF n <= 251 THEN <<n>> ELSE <<252, n % Byte, n \div Byte>>
LenEncInt(n) == IF n < 251 THEN <<n>> ELSE <<252, n % Byte, n \div Byte>>

\* MySQL allows 4096 columns, so three and eight bytes do not occur here.
readLenEncInt(bytes) == IF bytes[1] = 252 THEN bytes[2] + Byte * bytes[3]
                        ELSE bytes[1]

Packet(number, kind) == [number |-> number, kind |-> kind, bytes |-> <<>>]
Count(number, n) ==
    [number |-> number, kind |-> "count", bytes |-> LenEncInt(n)]

\* The write fits in the connection and the deadline has not passed.
Write(packet) ==
    /\ Len(toClient) < Window /\ ~expired
    /\ toClient' = Append(toClient, packet)
    /\ seq' = Following(packet.number)
    /\ UNCHANGED <<toProxy, expired, silent, clientVars>>

-----------------------------------------------------------------------------
(* mysqlProxy.handleConn *)

\* What the proxy writes once and is done with: kind, and the stage after it.
Single(from, kind, to) ==
    /\ stage = from
    /\ Write(Packet(seq, kind))
    /\ stage' = to
    /\ UNCHANGED <<columns, todo, rows, spoiled>>

Greet == Single("greet", "greeting", "login")
Welcome == Single("welcome", "ok", "reading")
Refuse == Single("refuse", "error", "closed")

\* Without a valid token, a session and a target the client is refused.
LogIn(accepted) ==
    /\ stage = "login" /\ toProxy # <<>>
    /\ toProxy' = Tail(toProxy)
    /\ stage' = IF accepted THEN "welcome" ELSE "refuse"
    /\ seq' = 2
    /\ UNCHANGED <<toClient, columns, todo, rows, expired, silent, clientVars,
                   spoiled>>

\* The deadline set before the login or before the command passes ...
Expire ==
    /\ stage \in Writing \union {"login"} /\ ~expired
    /\ expired' = TRUE
    /\ UNCHANGED <<toProxy, toClient, stage, seq, columns, todo, rows, silent,
                   clientVars, spoiled>>

\* ... and a write or read after it fails: the login ends, and of a command
\* the error fails to be written too, and the next one is read.
WriteFails ==
    /\ stage \in Writing \union {"login"} /\ expired
    /\ stage' = IF stage \in {"greet", "login", "welcome", "refuse"}
                THEN "closed" ELSE "reading"
    /\ silent' = TRUE
    /\ expired' = FALSE
    /\ UNCHANGED <<toProxy, toClient, seq, columns, todo, rows, clientVars,
                   spoiled>>

-----------------------------------------------------------------------------
(* commandLoop *)

\* How the answer to a command begins; the target may fail or succeed.
Answers(command) ==
    CASE command = "ping" -> {"ok"}
      [] command = "unsupported" -> {"error"}
      [] command = "init_db" -> {"ok", "reading"}
      [] command = "query" -> {"ok", "error", "count"}
      [] command = "quit" -> {"closed"}
      [] command \in {"stray", "login"} ->
             {"ok", "error", "count", "reading", "closed"}

ReadCommand ==
    /\ stage = "reading" /\ toProxy # <<>>
    /\ toProxy' = Tail(toProxy)
    /\ \E answer \in Answers(Head(toProxy)) :
          /\ stage' = answer
          /\ \E n \in ColumnCounts : columns' = IF answer = "count" THEN n ELSE 0
          /\ silent' = (silent \/ (answer = "reading"))
    /\ seq' = 1 /\ todo' = 0 /\ rows' = 0
    /\ UNCHANGED <<toClient, expired, clientVars, spoiled>>

\* No command within the idle time.
EndIdle ==
    /\ stage = "reading" /\ toProxy = <<>>
    /\ stage' = "closed"
    /\ UNCHANGED <<toProxy, toClient, seq, columns, todo, rows, expired, silent,
                   clientVars, spoiled>>

SendOK == Single("ok", "ok", "reading")
SendError == Single("error", "error", "reading")

-----------------------------------------------------------------------------
(* writeResultSet *)

SendCount ==
    /\ stage = "count"
    /\ Write(Count(seq, columns))
    /\ stage' = IF columns = 0 THEN "columns_end" ELSE "columns"
    /\ spoiled' = IF columns = 0 THEN spoiled \union {"no columns"} ELSE spoiled
    /\ UNCHANGED <<columns, todo, rows>>

SendColumn ==
    /\ stage = "columns"
    /\ Write(Packet(seq, "column"))
    /\ todo' = todo + 1
    /\ stage' = IF todo' = columns THEN "columns_end" ELSE "columns"
    /\ UNCHANGED <<columns, rows, spoiled>>

SendColumnsEnd == Single("columns_end", "eof", "rows")

SendRow ==
    /\ stage = "rows" /\ rows < MaxRows
    /\ Write(Packet(seq, "row"))
    /\ rows' = rows + 1
    /\ UNCHANGED <<stage, columns, todo, spoiled>>

SendRowsEnd == Single("rows", "eof", "reading")

\* A row cannot be read from the target or is too large for one packet.
RowFails ==
    /\ stage = "rows"
    /\ stage' = "error"
    /\ seq' = 1
    /\ spoiled' = spoiled \union {"late error"}
    /\ UNCHANGED <<toProxy, toClient, columns, todo, rows, expired, silent,
                   clientVars>>

-----------------------------------------------------------------------------
(* The client *)

Respond(pkt) ==
    /\ toProxy' = Append(toProxy, "login")
    /\ reader' = "first" /\ expected' = Following(Following(pkt.number))
    /\ UNCHANGED left

\* What the reader waits for after a packet that is in step.
Understood(pkt) ==
    CASE reader = "first" /\ pkt.kind \in {"ok", "error"} -> "idle"
      [] reader = "first" /\ pkt.kind = "count" ->
             (CASE pkt.bytes[1] = 0 -> "idle"         \* reads as OK
                [] pkt.bytes[1] = 251 -> "confused"   \* asks for a local file
                [] OTHER -> "columns")
      [] reader = "columns" /\ pkt.kind = "column" ->
             IF left = 1 THEN "columns_end" ELSE "columns"
      [] reader = "columns_end" /\ pkt.kind = "eof" -> "rows"
      [] reader = "rows" /\ pkt.kind = "row" -> "rows"
      [] reader = "rows" /\ pkt.kind \in {"eof", "error"} -> "idle"
      [] OTHER -> "confused"

Read(pkt) ==
    /\ reader' = IF pkt.number = expected THEN Understood(pkt) ELSE "confused"
    /\ expected' = Following(expected)
    /\ left' = CASE reader' = "columns" /\ pkt.kind = "count" ->
                        readLenEncInt(pkt.bytes)
                 [] reader' = "columns" /\ pkt.kind = "column" -> left - 1
                 [] OTHER -> 0
    /\ UNCHANGED toProxy

Receive ==
    /\ toClient # <<>> /\ reader \notin {"idle", "closed", "confused"}
    /\ toClient' = Tail(toClient)
    /\ LET pkt == Head(toClient)
       IN IF reader = "greeting" THEN Respond(pkt) ELSE Read(pkt)
    /\ UNCHANGED <<proxyVars, commands, spoiled>>

\* A text of 16 MB and more goes in two packets, and the second one counts.
Command(c, long) ==
    /\ reader = "idle" /\ commands < MaxCommands
    /\ long => c = "query"
    /\ commands' = commands + 1
    /\ toProxy' = toProxy \o (IF long THEN <<c, "stray">> ELSE <<c>>)
    /\ expected' = IF long THEN 2 ELSE 1
    /\ spoiled' = IF long THEN spoiled \union {"long text"} ELSE spoiled
    /\ reader' = IF c = "quit" THEN "closed" ELSE "first"
    /\ UNCHANGED <<toClient, proxyVars, left>>

\* The proxy has closed the connection and everything it wrote is read.
SeeClose ==
    /\ stage = "closed" /\ toClient = <<>>
    /\ reader \notin {"closed", "confused"}
    /\ reader' = "closed"
    /\ UNCHANGED <<toProxy, toClient, proxyVars, expected, left, commands,
                   spoiled>>

Next ==
    \/ Greet \/ Welcome \/ Refuse \/ \E accepted \in BOOLEAN : LogIn(accepted)
    \/ Expire \/ WriteFails \/ ReadCommand \/ EndIdle \/ SendOK \/ SendError
    \/ SendCount \/ SendColumn \/ SendColumnsEnd \/ SendRow \/ SendRowsEnd
    \/ RowFails
    \/ Receive \/ SeeClose
    \/ \E c \in Commands, long \in BOOLEAN : Command(c, long)

Spec == Init /\ [][Next]_vars

-----------------------------------------------------------------------------
(* Properties *)

\* A client that waits has something to wait for.
Awaited == \/ toProxy # <<>> \/ toClient # <<>>
           \/ stage \in Writing \union {"closed"}

\* Whatever is asked and however long the answer, the client understands every
\* packet, takes all of an answer before it asks again, and never waits for
\* one that nobody writes.  What the code gets wrong is named: an error after
\* the answer has begun, and the two packets of a long text, carry a number
\* the client does not expect; a result set without columns reads as OK; and
\* a USE that fails and a write after the deadline leave no answer at all
\* (mysql_protocol.go:350, mysql_server.go:222, 244, 295).
AnswersInStep ==
    \/ spoiled # {}
    \/ /\ reader # "confused"
       /\ reader = "idle" => /\ toClient = <<>> /\ toProxy = <<>>
                             /\ stage \in {"reading", "closed"}
       /\ reader \notin {"idle", "closed"} => silent \/ Awaited
                                                     \/ stage = "login"
=============================================================================
