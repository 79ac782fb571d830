------------------------------ MODULE DBProxy ------------------------------
(***************************************************************************)
(* The MySQL and PostgreSQL proxies and the web database terminal.  A      *)
(* proxy accepts a client, consumes its token, opens a session row, dials  *)
(* the database and serves: MySQL as a loop that runs one command at a     *)
(* time and writes an audit line of it, PostgreSQL as a relay (its audit   *)
(* is PostgresAudit).  A web terminal runs usql in a pseudo-terminal and   *)
(* has it connect to one of the proxies, with the token it has only        *)
(* looked at: the proxy consumes it and keeps the session.                 *)
(*                                                                         *)
(* A request to the API is one step, whose outcome may be a failure.       *)
(***************************************************************************)
EXTENDS Integers, FiniteSets

CONSTANTS MySQL, Postgres,  \* clients, by the listener they come to
          Cancel,           \* connections that only carry a CancelRequest
          Web,              \* web terminals
          UsqlOf,           \* [Web -> client]: the connection its usql makes
          CancelOf,         \* [Cancel -> Postgres]: whose query it is about
          TokenOf,          \* [client -> token]
          Limit,            \* ConnectionLimit(): of each limiter
          MaxFailures       \* bound: failed dials and requests

Clients == MySQL \union Postgres
Conns == Clients \union Cancel
Usql == {UsqlOf[w] : w \in Web}

\* newMySQLProxy, newPostgresProxy and NewWebTerminal make a limiter each.
Limiters == {"mysql", "postgres", "web"}
LimiterOf(c) == IF c \in MySQL THEN "mysql" ELSE "postgres"

ASSUME KindsDisjoint == /\ MySQL \intersect Postgres = {}
                        /\ Clients \intersect Cancel = {}
                        /\ Conns \intersect Web = {}
ASSUME UsqlType == /\ UsqlOf \in [Web -> Clients]
                   /\ \A v, w \in Web : UsqlOf[v] = UsqlOf[w] => v = w
ASSUME CancelType == CancelOf \in [Cancel -> Postgres]
ASSUME BoundsType == /\ Limit \in [Limiters -> Nat \ {0}]
                     /\ MaxFailures \in Nat

VARIABLES
    listening,  \* serve has not been told to stop
    pc,         \* [Conns -> Points]: where handleConn is
    slots,      \* [Limiters -> Nat]: len(limiter.ch)
    gone,       \* clients that have hung up, or stayed idle too long
    hung,       \* connections the proxy has closed
    cut,        \* handlers whose context is cancelled
    watch,      \* clients with a running watchDBSessionFinish
    target,     \* the connection to the database
    cancels,    \* clients in the cancel registry
    row,        \* the session's row: "none", "active" or "finished"
    spent,      \* tokens that have been consumed
    cmd,        \* MySQL: the command in hand
    term,       \* [Web -> ...]: where ServeHTTP is
    usql,       \* its child process: "none", "running" or "dead"
    left,       \* terminals whose browser has gone
    missed,     \* history: <<client, kind>>: one that ran and has no line
    lied,       \* history: clients with a line of success for what had none
    failed,     \* history: clients with a request that failed
    failures

conn == <<pc, slots, gone, hung, cut>>
session == <<watch, row, spent>>
database == <<target, cancels>>
command == <<cmd, missed, lied>>
terminal == <<term, usql, left>>
faults == <<failed, failures>>
vars == <<listening, conn, session, database, command, terminal, faults>>

Points == {"idle", "verify", "create", "open", "use", "ok", "serve", "run", "reply",
           "audit", "unregister", "close", "finish", "lookup", "forward",
           "release", "done"}
TermPoints == {"idle", "slot", "start", "type", "bridge", "leave", "done"}

\* asked: the client waits for an answer; ran: the database did it; err: what
\* the handler believes.
Kinds == {"query", "blank", "use"}
NoCmd == [kind |-> "none", asked |-> FALSE, ran |-> FALSE, err |-> FALSE]
Cmds == [kind : Kinds \union {"none"}, asked : BOOLEAN, ran : BOOLEAN,
         err : BOOLEAN]

TypeOK ==
    /\ listening \in BOOLEAN
    /\ pc \in [Conns -> Points] /\ term \in [Web -> TermPoints]
    /\ slots \in [Limiters -> Nat] /\ \A l \in Limiters : slots[l] <= Limit[l]
    /\ gone \subseteq Conns /\ hung \subseteq Conns /\ cut \subseteq Conns
    /\ watch \subseteq Clients /\ cancels \subseteq Postgres
    /\ target \in [Clients -> {"none", "open", "broken", "closed"}]
    /\ row \in [Clients -> {"none", "active", "finished"}]
    /\ spent \subseteq {TokenOf[c] : c \in Clients}
    /\ cmd \in [MySQL -> Cmds]
    /\ usql \in [Web -> {"none", "running", "dead"}] /\ left \subseteq Web
    /\ missed \subseteq MySQL \X (Kinds \union {"none", "login"}) /\ lied \subseteq MySQL
    /\ failed \subseteq Conns \union Web /\ failures \in 0..MaxFailures

Init ==
    /\ listening = TRUE
    /\ pc = [c \in Conns |-> "idle"] /\ term = [w \in Web |-> "idle"]
    /\ slots = [l \in Limiters |-> 0]
    /\ gone = {} /\ hung = {} /\ cut = {}
    /\ watch = {} /\ cancels = {}
    /\ target = [c \in Clients |-> "none"]
    /\ row = [c \in Clients |-> "none"]
    /\ spent = {}
    /\ cmd = [c \in MySQL |-> NoCmd]
    /\ usql = [w \in Web |-> "none"] /\ left = {}
    /\ missed = {} /\ lied = {} /\ failed = {} /\ failures = 0

Goto(c, point) == pc' = [pc EXCEPT ![c] = point]
GotoTerm(w, point) == term' = [term EXCEPT ![w] = point]

\* Something that x needs from outside fails, for good if its context is cut.
Fails(x) == /\ failures < MaxFailures
            /\ failures' = failures + 1
            /\ failed' = failed \union {x}
FailsUnder(c) == \/ c \in cut /\ UNCHANGED faults
                 \/ Fails(c)

\* What the proxy reads from c ends; what it writes arrives.
Unreachable(c) == c \in gone \/ c \in hung

-----------------------------------------------------------------------------
(* serve and the first steps of handleConn *)

\* usql connects when it has read the \connect line of the terminal.
Comes(c) == \A w \in Web : UsqlOf[w] = c => /\ term[w] = "bridge"
                                            /\ usql[w] = "running"

SlotFree(l) == slots[l] < Limit[l]

\* The slot is taken before anything is read: a CancelRequest needs one too.
Accept(c) ==
    /\ listening /\ pc[c] = "idle" /\ Comes(c)
    /\ LET l == LimiterOf(c)
       IN  \/ /\ SlotFree(l)
              /\ slots' = [slots EXCEPT ![l] = @ + 1]
              /\ Goto(c, IF c \in Cancel THEN "lookup" ELSE "verify")
              /\ UNCHANGED hung
           \/ /\ ~SlotFree(l)
              /\ hung' = hung \union {c}
              /\ Goto(c, "done")
              /\ UNCHANGED slots
    /\ UNCHANGED <<listening, gone, cut, session, database, command, terminal,
                   faults>>

Consume(c) == spent \union {TokenOf[c]}

\* The handshake, the token out of its user name, and the API's answer; a
\* token may have been consumed although the answer is lost.
VerifyConnectionToken(c) ==
    /\ pc[c] = "verify"
    /\ \/ /\ ~Unreachable(c) /\ c \notin cut /\ TokenOf[c] \notin spent
          /\ spent' = Consume(c)
          /\ Goto(c, "create")
          /\ UNCHANGED faults
       \/ /\ Unreachable(c) \/ TokenOf[c] \in spent
          /\ Goto(c, "release")
          /\ UNCHANGED <<spent, faults>>
       \/ /\ ~Unreachable(c) /\ FailsUnder(c)
          /\ spent' \in {spent, Consume(c)}
          /\ Goto(c, "release")
    /\ UNCHANGED <<listening, slots, gone, hung, cut, watch, row, database,
                   command, terminal>>

\* Without an answer there is no session to serve, but there may be a row.
CreateSession(c) ==
    /\ pc[c] = "create"
    /\ \/ /\ c \notin cut
          /\ row' = [row EXCEPT ![c] = "active"]
          /\ watch' = watch \union {c}
          /\ Goto(c, "open")
          /\ UNCHANGED faults
       \/ /\ \/ c \in cut /\ failed' = failed \union {c} /\ UNCHANGED failures
             \/ Fails(c)
          /\ row' \in {row, [row EXCEPT ![c] = "active"]}
          /\ Goto(c, "release")
          /\ UNCHANGED watch
    /\ UNCHANGED <<listening, slots, gone, hung, cut, spent, database, command,
                   terminal>>

\* A MySQL client may have named a database when it logged in.
AfterOpen(c) == IF c \in MySQL THEN {"use", "ok"} ELSE {"ok"}

\* The database's backend key is registered for CancelRequests.
OpenTarget(c) ==
    /\ pc[c] = "open"
    /\ \/ /\ c \notin cut
          /\ target' = [target EXCEPT ![c] = "open"]
          /\ cancels' = cancels \union ({c} \intersect Postgres)
          /\ \E point \in AfterOpen(c) : Goto(c, point)
          /\ UNCHANGED <<watch, faults>>
       \/ /\ FailsUnder(c)
          /\ watch' = watch \ {c}
          /\ Goto(c, "finish")
          /\ UNCHANGED database
    /\ UNCHANGED <<listening, slots, gone, hung, cut, row, spent, command,
                   terminal>>

\* The USE of that database: its error is ignored and no line is written of
\* it, unlike that of a ComInitDB.
UseDatabase(c) ==
    /\ pc[c] = "use"
    /\ \E ran, broken \in BOOLEAN :
          /\ ran \/ broken => target[c] = "open"
          /\ ran /\ ~broken => c \notin cut
          /\ missed' = IF ran THEN missed \union {<<c, "login">>} ELSE missed
          /\ target' = IF broken THEN [target EXCEPT ![c] = "broken"] ELSE target
    /\ Goto(c, "ok")
    /\ UNCHANGED <<listening, slots, gone, hung, cut, cancels, session, cmd,
                   lied, terminal, faults>>

\* The first of the deferred calls.
Ended(c) == IF c \in Postgres THEN "unregister" ELSE "close"

SendOK(c) ==
    /\ pc[c] = "ok"
    /\ Goto(c, IF Unreachable(c) THEN Ended(c) ELSE "serve")
    /\ UNCHANGED <<listening, slots, gone, hung, cut, session, database,
                   command, terminal, faults>>

-----------------------------------------------------------------------------
(* Serving: the command loop of MySQL, the relay of PostgreSQL *)

\* A blank query is answered with an OK, whatever the context, and not run.
IsRun(c, kind) == kind # "blank" /\ c \notin cut
Refused(c, kind) == kind # "blank" /\ c \in cut

\* ComQuery or ComInitDB arrives.  What the loop answers by itself (ping,
\* prepared statements, unknown commands) changes nothing.
Ask(c, kind) ==
    /\ pc[c] = "serve" /\ c \in MySQL /\ ~Unreachable(c)
    /\ cmd' = [cmd EXCEPT ![c] = [NoCmd EXCEPT !.kind = kind, !.asked = TRUE,
                                               !.err = Refused(c, kind)]]
    /\ Goto(c, IF IsRun(c, kind) THEN "run" ELSE "reply")
    /\ UNCHANGED <<listening, slots, gone, hung, cut, session, database, missed,
                   lied, terminal, faults>>

\* The driver runs it.  A context cut meanwhile, or no answer within the
\* connect timeout, which is the driver's read timeout, breaks the connection
\* for good, whether or not the database does what it was asked.
Outcome(c, ran, err, broken) ==
    /\ cmd' = [cmd EXCEPT ![c].ran = ran, ![c].err = err]
    /\ target' = IF broken THEN [target EXCEPT ![c] = "broken"] ELSE target

Run(c) ==
    /\ pc[c] = "run"
    /\ \/ target[c] = "open" /\ c \notin cut /\ Outcome(c, TRUE, FALSE, FALSE)
       \/ target[c] = "open" /\ c \notin cut /\ Outcome(c, FALSE, TRUE, FALSE)
       \/ target[c] = "open" /\ \E ran \in BOOLEAN : Outcome(c, ran, TRUE, TRUE)
       \/ target[c] = "broken" /\ Outcome(c, FALSE, TRUE, FALSE)
    /\ Goto(c, "reply")
    /\ UNCHANGED <<listening, slots, gone, hung, cut, cancels, session, missed,
                   lied, terminal, faults>>

\* handleQuery answers an error with an error packet; ComInitDB does not.
Answers(kind, err) == ~err \/ kind = "query"

\* An answer that cannot be written is an error of the statement.
MutantErr(err, unreachable) == err
Err(err, unreachable) == err \/ unreachable

Reply(c) ==
    /\ pc[c] = "reply"
    /\ LET k == cmd[c]
       IN  cmd' = [cmd EXCEPT
             ![c].asked = @ /\ (Unreachable(c) \/ ~Answers(k.kind, k.err)),
             ![c].err = Err(@, Unreachable(c))]
    /\ Goto(c, "audit")
    /\ UNCHANGED <<listening, slots, gone, hung, cut, session, database, missed,
                   lied, terminal, faults>>

HasLine(c, ok) == ok

\* The line is written with the handler's context, and its failure ignored.
Audit(c) ==
    /\ pc[c] = "audit"
    /\ \E ok \in BOOLEAN :
          /\ \/ ok /\ c \notin cut /\ UNCHANGED faults
             \/ ~ok /\ FailsUnder(c)
          /\ missed' = IF cmd[c].ran /\ ~HasLine(c, ok)
                       THEN missed \union {<<c, cmd[c].kind>>} ELSE missed
          /\ lied' = IF HasLine(c, ok) /\ ~cmd[c].err
                        /\ (cmd[c].asked \/ ~(cmd[c].ran \/ cmd[c].kind = "blank"))
                     THEN lied \union {c} ELSE lied
    /\ cmd' = [cmd EXCEPT ![c] = [NoCmd EXCEPT !.asked = cmd[c].asked,
                        !.kind = IF cmd[c].asked THEN cmd[c].kind ELSE "none"]]
    /\ Goto(c, "serve")
    /\ UNCHANGED <<listening, slots, gone, hung, cut, session, database,
                   terminal>>

\* commandLoop returns when it can read no more.
EndLoop(c) ==
    /\ pc[c] = "serve" /\ c \in MySQL /\ Unreachable(c)
    /\ cmd' = [cmd EXCEPT ![c] = NoCmd]
    /\ Goto(c, Ended(c))
    /\ UNCHANGED <<listening, slots, gone, hung, cut, session, database, missed,
                   lied, terminal, faults>>

\* Relay closes both connections.
CloseRelay(c) ==
    /\ pc[c] = "serve" /\ c \in Postgres
    /\ hung' = hung \union {c}
    /\ target' = [target EXCEPT ![c] = "closed"]
    /\ Goto(c, Ended(c))
    /\ UNCHANGED <<listening, slots, gone, cut, cancels, session, command,
                   terminal, faults>>

\* Either direction has ended.
EndRelay(c) == /\ Unreachable(c) \/ target[c] = "broken"
               /\ CloseRelay(c)

\* The first message after the context was cancelled is the last.
LastMessage(c) == c \in cut /\ CloseRelay(c)

-----------------------------------------------------------------------------
(* The deferred calls, last first *)

MutantUnregistered(c) == cancels
Unregistered(c) == cancels \ {c}

Unregister(c) ==
    /\ pc[c] = "unregister"
    /\ cancels' = Unregistered(c)
    /\ Goto(c, "close")
    /\ UNCHANGED <<listening, slots, gone, hung, cut, target, session, command,
                   terminal, faults>>

CloseTarget(c) ==
    /\ pc[c] = "close"
    /\ target' = [target EXCEPT ![c] = "closed"]
    /\ watch' = watch \ {c}
    /\ Goto(c, "finish")
    /\ UNCHANGED <<listening, slots, gone, hung, cut, cancels, row, spent,
                   command, terminal, faults>>

\* With context.Background(), so that a cut does not stop it.
MutantFinishFails(c) == FailsUnder(c)
FinishFails(c) == Fails(c)

FinishSession(c) ==
    /\ pc[c] = "finish"
    /\ \/ row' = [row EXCEPT ![c] = "finished"] /\ UNCHANGED faults
       \/ UNCHANGED row /\ FinishFails(c)
    /\ Goto(c, "release")
    /\ UNCHANGED <<listening, slots, gone, hung, cut, watch, spent, database,
                   command, terminal>>

Freed(c) == [slots EXCEPT ![LimiterOf(c)] = @ - 1]

Release(c) ==
    /\ pc[c] = "release"
    /\ slots' = Freed(c)
    /\ hung' = hung \union {c}
    /\ Goto(c, "done")
    /\ UNCHANGED <<listening, gone, cut, session, database, command, terminal,
                   faults>>

-----------------------------------------------------------------------------
(* A CancelRequest; what it does to the query is the database's *)

Lookup(c) ==
    /\ pc[c] = "lookup"
    /\ Goto(c, IF CancelOf[c] \in cancels THEN "forward" ELSE "release")
    /\ UNCHANGED <<listening, slots, gone, hung, cut, session, database,
                   command, terminal, faults>>

Forward(c) ==
    /\ pc[c] = "forward"
    /\ Goto(c, "release")
    /\ UNCHANGED <<listening, slots, gone, hung, cut, session, database,
                   command, terminal, faults>>

-----------------------------------------------------------------------------
(* The watcher, the administrator, the clients and the databases *)

MutantNotices(c) == row[c] = "finished" /\ pc[c] = "open"
Notices(c) == row[c] = "finished"

\* A poll that finds the row finished; one that fails or finds it active
\* changes nothing.
Poll(c) ==
    /\ c \in watch /\ Notices(c)
    /\ watch' = watch \ {c}
    /\ cut' = cut \union {c}
    /\ hung' = hung \union {c}
    /\ UNCHANGED <<listening, pc, slots, gone, row, spent, database, command,
                   terminal, faults>>

ForceFinish(c) ==
    /\ row[c] = "active"
    /\ row' = [row EXCEPT ![c] = "finished"]
    /\ UNCHANGED <<listening, conn, watch, spent, database, command, terminal,
                   faults>>

Leave(c) ==
    /\ pc[c] \notin {"idle", "done"} /\ c \notin gone
    /\ c \notin Usql
    /\ gone' = gone \union {c}
    /\ UNCHANGED <<listening, pc, slots, hung, cut, session, database, command,
                   terminal, faults>>

TargetEnds(c) ==
    /\ target[c] = "open"
    /\ target' = [target EXCEPT ![c] = "broken"]
    /\ UNCHANGED <<listening, conn, session, cancels, command, terminal, faults>>

\* Server.Stop: no client is accepted any more and every context is cancelled,
\* the watchers' included; the connections themselves stay open.
Stop ==
    /\ listening
    /\ listening' = FALSE
    /\ cut' = cut \union {c \in Conns : pc[c] \notin {"idle", "done"}}
    /\ watch' = {}
    /\ UNCHANGED <<pc, slots, gone, hung, row, spent, database, command,
                   terminal, faults>>

-----------------------------------------------------------------------------
(* The web terminal: ServeHTTP *)

\* The token is looked at, not consumed.
Preflight(w) ==
    /\ term[w] = "idle"
    /\ \/ /\ TokenOf[UsqlOf[w]] \notin spent
          /\ GotoTerm(w, "slot")
          /\ UNCHANGED faults
       \/ /\ TokenOf[UsqlOf[w]] \in spent
          /\ GotoTerm(w, "done")
          /\ UNCHANGED faults
       \/ Fails(w) /\ GotoTerm(w, "done")
    /\ UNCHANGED <<listening, conn, session, database, command, usql, left>>

AcquireTerm(w) ==
    /\ term[w] = "slot"
    /\ \/ /\ SlotFree("web")
          /\ slots' = [slots EXCEPT !["web"] = @ + 1]
          /\ GotoTerm(w, "start")
       \/ /\ ~SlotFree("web")
          /\ GotoTerm(w, "done")
          /\ UNCHANGED slots
    /\ UNCHANGED <<listening, pc, gone, hung, cut, session, database, command,
                   usql, left, faults>>

StartUSQL(w) ==
    /\ term[w] = "start"
    /\ \/ /\ usql' = [usql EXCEPT ![w] = "running"]
          /\ GotoTerm(w, "type")
          /\ UNCHANGED faults
       \/ /\ Fails(w)
          /\ GotoTerm(w, "leave")
          /\ UNCHANGED usql
    /\ UNCHANGED <<listening, conn, session, database, command, left>>

SendUSQLConnectCommand(w) ==
    /\ term[w] = "type"
    /\ \/ GotoTerm(w, "bridge") /\ UNCHANGED faults
       \/ GotoTerm(w, "leave") /\ Fails(w)
    /\ UNCHANGED <<listening, conn, session, database, command, usql, left>>

\* One direction has ended, and closeTerminal ends the other.
EndBridge(w) ==
    /\ term[w] = "bridge"
    /\ w \in left \/ usql[w] = "dead"
    /\ GotoTerm(w, "leave")
    /\ UNCHANGED <<listening, conn, session, database, command, usql, left,
                   faults>>

Kills(w) == usql[w] = "running"

\* Kill, and the deferred calls.
LeaveTerm(w) ==
    /\ term[w] = "leave"
    /\ \/ /\ Kills(w)
          /\ usql' = [usql EXCEPT ![w] = "dead"]
          /\ gone' = gone \union {UsqlOf[w]}
       \/ ~Kills(w) /\ UNCHANGED <<usql, gone>>
    /\ slots' = [slots EXCEPT !["web"] = @ - 1]
    /\ GotoTerm(w, "done")
    /\ UNCHANGED <<listening, pc, hung, cut, session, database, command, left,
                   faults>>

BrowserLeaves(w) ==
    /\ term[w] \notin {"idle", "done"} /\ w \notin left
    /\ left' = left \union {w}
    /\ UNCHANGED <<listening, conn, session, database, command, term, usql,
                   faults>>

USQLExits(w) ==
    /\ usql[w] = "running"
    /\ usql' = [usql EXCEPT ![w] = "dead"]
    /\ gone' = gone \union {UsqlOf[w]}
    /\ UNCHANGED <<listening, pc, slots, hung, cut, session, database, command,
                   term, left, faults>>

-----------------------------------------------------------------------------

Step(c) == Unregister(c) \/ CloseTarget(c) \/ FinishSession(c) \/ Poll(c)
           \/ OpenTarget(c) \/ CreateSession(c) \/ VerifyConnectionToken(c)
           \/ SendOK(c) \/ EndRelay(c)
MySQLStep(c) == UseDatabase(c) \/ Run(c) \/ Reply(c) \/ Audit(c) \/ EndLoop(c)
CancelStep(c) == Lookup(c) \/ Forward(c)
TermStep(w) == AcquireTerm(w) \/ StartUSQL(w) \/ SendUSQLConnectCommand(w)
               \/ EndBridge(w) \/ LeaveTerm(w)

Next ==
    \/ \E c \in Conns : Accept(c) \/ Release(c) \/ Leave(c)
    \/ \E c \in Clients : Step(c) \/ LastMessage(c) \/ ForceFinish(c) \/ TargetEnds(c)
    \/ \E c \in MySQL : MySQLStep(c) \/ \E kind \in Kinds : Ask(c, kind)
    \/ \E c \in Cancel : CancelStep(c)
    \/ \E w \in Web : Preflight(w) \/ TermStep(w) \/ BrowserLeaves(w)
                      \/ USQLExits(w)
    \/ Stop

Spec == Init /\ [][Next]_vars

\* Every goroutine runs on and every request is answered in the end, with an
\* error at worst; nobody has to come, ask, leave or exit.
Fairness ==
    /\ \A c \in Conns : WF_vars(Release(c))
    /\ \A c \in Clients : WF_vars(Step(c)) /\ WF_vars(Poll(c))
    /\ \A c \in MySQL : WF_vars(MySQLStep(c))
    /\ \A c \in Cancel : WF_vars(CancelStep(c))
    /\ \A w \in Web : WF_vars(TermStep(w))

FairSpec == Spec /\ Fairness

-----------------------------------------------------------------------------
(* Properties *)

Serving(c) == pc[c] \notin {"idle", "done"}
Holds(w) == term[w] \in {"start", "type", "bridge", "leave"}

\* The slots in use are those of the handlers that run, on every path out of
\* handleConn (mysql_server.go:50-57, postgres_server.go:67-75) and of
\* ServeHTTP (web_terminal.go:109-115): none is lost or given back twice.
SlotsBalanced ==
    /\ \A l \in {"mysql", "postgres"} :
          slots[l] = Cardinality({c \in Conns : Serving(c) /\ LimiterOf(c) = l})
    /\ slots["web"] = Cardinality({w \in Web : Holds(w)})

\* A handler that has returned leaves nothing behind: no connection to the
\* database, no watcher, no entry that a CancelRequest would be forwarded by
\* (postgres_server.go:183-189), and no usql process (web_terminal.go:128).
NothingHeld ==
    /\ \A c \in Clients : pc[c] = "done" =>
          /\ target[c] \in {"none", "closed"}
          /\ c \notin watch /\ c \notin cancels
    /\ \A w \in Web : term[w] = "done" => usql[w] # "running"

\* What a connection takes it gives back.
NothingLeft == SlotsBalanced /\ NothingHeld

\* Whatever ends a connection, its session is finished once the handler is
\* gone, unless a request of its own failed (mysql_server.go:136-138).
FinishedUnlessFailed ==
    \A c \in Clients : pc[c] = "done" /\ row[c] = "active" =>
        c \in failed

\* Every statement that the database has executed for a client is in the audit
\* log, whether or not it succeeded for the proxy and the client
\* (mysql_server.go:266, IMPLEMENTATION_PLAN.md:623), except where the session
\* was finished by force or the proxy stopped meanwhile (the line is written
\* with the cancelled context), or the API failed.  Excepted too is the USE of a
\* login, of which no line is ever written (mysql_server.go:151-154).
AuditedUnlessCut == \A m \in missed : m[1] \in cut \union failed \/ m[2] = "login"

\* A line without an error is the line of a statement that the database
\* executed and whose result reached the client's connection, or of a blank
\* query that was answered (mysql_server.go:272-297, 302-310).
LinesAreTrue == lied = {}

\* The log has what was executed, and nothing that was not.
AuditIsHonest == AuditedUnlessCut /\ LinesAreTrue

\* Somebody waits for the end of a session as long as its handler serves it:
\* the watch, or it has noticed the end, or the proxy has stopped, and has cut
\* the handler then (mysql_server.go:139-140, web_terminal.go:198-228).  Who
\* serves a terminal's usql reads a connection whose end the terminal is there
\* to bring about, or that has ended (web_terminal.go:128, 147-167).
EndIsNoticed ==
    /\ \A c \in Clients :
          pc[c] \notin {"idle", "verify", "create", "finish", "release", "done"} =>
             \/ c \in watch
             \/ c \in cut /\ c \in hung /\ row[c] = "finished"
             \/ c \in cut /\ ~listening
    /\ \A w \in Web : Serving(UsqlOf[w]) =>
          (usql[w] = "running" /\ Holds(w)) \/ UsqlOf[w] \in gone

\* A session finished by force is cut off, whatever it is doing
\* (web_terminal.go:198-228), while the proxy runs.
ForcedIsCut ==
    \A c \in Clients :
        (row[c] = "finished" /\ Serving(c)) ~> (pc[c] = "done" \/ ~listening)

\* When the browser has left, its usql ends, and with it the connection that
\* usql made to the proxy and the session (web_terminal.go:147-167).
LeftIsEnded ==
    \A w \in Web : w \in left ~> (term[w] = "done" /\ ~Serving(UsqlOf[w]))

\* Whoever ends a connection, all that was made for it comes down.
EndsReachTarget == []EndIsNoticed /\ ForcedIsCut /\ LeftIsEnded

=============================================================================
