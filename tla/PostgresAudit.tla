---------------------------- MODULE PostgresAudit ----------------------------
(***************************************************************************)
(* The audit of one PostgreSQL connection.  The proxy forwards what the    *)
(* client sends and what the server answers, and watches both streams: a   *)
(* Query or Execute message queues an event with the statement's text, and *)
(* the completion of a statement, its error, or ReadyForQuery takes events *)
(* out of the queue and writes them to the audit log.                      *)
(*                                                                         *)
(* The client is anyone who speaks the protocol, in turns or pipelining.   *)
(* The server is PostgreSQL as far as the proxy's answers depend on it:    *)
(* after an error it skips everything until Sync.  Its messages that the   *)
(* audit ignores (ParseComplete, rows, EmptyQueryResponse,                 *)
(* PortalSuspended, ...) are left out.                                     *)
(***************************************************************************)
EXTENDS Integers, FiniteSets, SequencesExt

CONSTANTS Names,        \* of prepared statements
          Portals,
          Requests,     \* what the client may send
          NoText,       \* what a Go map answers for a missing key
          Pipelining,   \* FALSE: the client waits for each ReadyForQuery
          MaxMessages,  \* bound: messages of the client
          MaxUnderWay,  \* bound: of these, not yet read by the server
          MaxFailures   \* bound: lines the API fails to write

Unnamed == "unnamed"

\* A text is the sequence of its statements; a comment has none.
Query(t) == [type |-> "query", text |-> t]
Parse(n, t) == [type |-> "parse", name |-> n, text |-> t]
Bind(p, n) == [type |-> "bind", portal |-> p, name |-> n]
Execute(p) == [type |-> "execute", portal |-> p]
CloseStatement(n) == [type |-> "close_s", name |-> n]
ClosePortal(p) == [type |-> "close_p", portal |-> p]
Sync == [type |-> "sync"]

Texts == {r.text : r \in {q \in Requests : q.type \in {"query", "parse"}}}

ASSUME NamesType == Unnamed \in Names /\ Unnamed \in Portals
ASSUME RequestsType ==
    \A r \in Requests :
        \/ r = Sync
        \/ r.type = "query" /\ r = Query(r.text)
        \/ r.type = "parse" /\ r = Parse(r.name, r.text) /\ r.name \in Names
        \/ r.type = "bind" /\ r = Bind(r.portal, r.name)
           /\ r.portal \in Portals /\ r.name \in Names
        \/ r.type = "execute" /\ r = Execute(r.portal) /\ r.portal \in Portals
        \/ r.type = "close_s" /\ r = CloseStatement(r.name) /\ r.name \in Names
        \/ r.type = "close_p" /\ r = ClosePortal(r.portal) /\ r.portal \in Portals
ASSUME TextsType == \A t \in Texts : t # NoText /\ t = [i \in 1..Len(t) |-> t[i]]
ASSUME BoundsType ==
    /\ Pipelining \in BOOLEAN
    /\ {MaxMessages, MaxUnderWay, MaxFailures} \subseteq Nat

VARIABLES
    open,       \* the relay is running
    sent,       \* number of the client's messages; each is known by its number
    asked,      \* the last of them that asks for ReadyForQuery
    answered,   \* the last ReadyForQuery the audit has seen, by what it answers
    toServer,   \* forwarded, not yet read by the server
    toProxy,    \* the server's answers
    inHand,     \* the answer the client was given and the audit was not, if any
    prepared, portals, pending,  \* postgresAuditState
    log,        \* the session's lines in the audit log
    statements, opened, skipping,   \* the server's
    outcome,    \* history: what became of each message
    executed,   \* history: the text it made the server execute
    unwritten,  \* history: messages whose line the API failed to write
    regular,    \* history: no answer is out of step with pending
    diverged    \* history: the server refused to change a name it has
frontend == <<sent, asked, prepared, portals>>
audit == <<pending, log, unwritten>>
server == <<statements, opened, skipping, outcome, executed>>
vars == <<open, frontend, audit, server, answered, toServer, toProxy, inHand,
          regular, diverged>>

Ids == 1..MaxMessages
Outcomes == {"none", "ok", "failed", "skipped"}
Results == {"ok", "failed", "neutral"}
Events == [id : Ids, text : Texts]
Answers == [type : {"complete", "error", "ready"}, id : Ids]

TypeOK ==
    /\ open \in BOOLEAN /\ skipping \in BOOLEAN
    /\ regular \in BOOLEAN /\ diverged \in BOOLEAN
    /\ sent \in 0..MaxMessages /\ asked \in 0..sent /\ answered \in 0..asked
    /\ toServer \in Seq([id : Ids, request : Requests])
    /\ toProxy \in Seq(Answers)
    /\ inHand \in Seq(Answers) /\ Len(inHand) <= 1
    /\ prepared \in [Names -> Texts \union {NoText}]
    /\ portals \in [Portals -> Texts \union {NoText}]
    /\ statements \in [Names -> Texts \union {NoText}]
    /\ opened \in [Portals -> Texts \union {NoText}]
    /\ pending \in Seq(Events)
    /\ log \subseteq [event : Events, result : Results, regular : BOOLEAN]
    /\ outcome \in [Ids -> Outcomes]
    /\ executed \in [Ids -> Texts \union {NoText}]
    /\ unwritten \subseteq Ids

NoTexts(names) == [n \in names |-> NoText]

Init ==
    /\ open = TRUE
    /\ sent = 0 /\ asked = 0 /\ answered = 0
    /\ toServer = <<>> /\ toProxy = <<>> /\ inHand = <<>>
    /\ prepared = NoTexts(Names) /\ portals = NoTexts(Portals)
    /\ pending = <<>> /\ log = {} /\ unwritten = {}
    /\ statements = NoTexts(Names) /\ opened = NoTexts(Portals)
    /\ skipping = FALSE
    /\ outcome = [i \in Ids |-> "none"] /\ executed = NoTexts(Ids)
    /\ regular = TRUE /\ diverged = FALSE

-----------------------------------------------------------------------------
(* From the client to the server: observeFrontend, then Send.               *)

Asks(r) == r.type \in {"query", "sync"}

\* The client has what it waits for as soon as it has been forwarded.
MayTalk == Pipelining \/ asked = answered
           \/ \E a \in Range(inHand) : a.type = "ready" /\ a.id = asked

\* The text of a portal or, if the map has none, of the unnamed statement.
Resolved(p) == IF portals[p] # NoText THEN portals[p] ELSE prepared[Unnamed]

\* An Execute whose text is not known is not audited.
ToBegin(p) == IF Resolved(p) = NoText THEN <<>> ELSE <<Resolved(p)>>

\* Forwarding request r, which begins an event for each of texts (none or one).
\* An event that begins before the last ReadyForQuery was seen is out of step.
Forward(r, texts) ==
    /\ open /\ MayTalk
    /\ sent < MaxMessages /\ Len(toServer) < MaxUnderWay
    /\ sent' = sent + 1
    /\ asked' = IF Asks(r) THEN sent' ELSE asked
    /\ toServer' = Append(toServer, [id |-> sent', request |-> r])
    /\ pending' = pending \o [i \in 1..Len(texts) |->
                                  [id |-> sent', text |-> texts[i]]]
    /\ regular' = (regular /\ (texts # <<>> => asked = answered))
    /\ UNCHANGED <<open, log, unwritten, server, answered, toProxy, inHand, diverged>>

ForwardQuery(r) ==
    /\ r.type = "query"
    /\ Forward(r, <<r.text>>)
    /\ UNCHANGED <<prepared, portals>>

ForwardParse(r) ==
    /\ r.type = "parse"
    /\ Forward(r, <<>>)
    /\ prepared' = [prepared EXCEPT ![r.name] = r.text]
    /\ UNCHANGED portals

Bound(r) == IF prepared[r.name] # NoText THEN prepared[r.name] ELSE portals[r.portal]

ForwardBind(r) ==
    /\ r.type = "bind"
    /\ Forward(r, <<>>)
    /\ portals' = [portals EXCEPT ![r.portal] = Bound(r)]
    /\ UNCHANGED prepared

ForwardExecute(r) ==
    /\ r.type = "execute"
    /\ Forward(r, ToBegin(r.portal))
    /\ UNCHANGED <<prepared, portals>>

MutantSwappedKinds(r) ==
    \/ /\ r.type = "close_p"
       /\ Forward(r, <<>>)
       /\ prepared' = [prepared EXCEPT ![r.portal] = NoText]
       /\ UNCHANGED portals
    \/ /\ r.type = "close_s"
       /\ Forward(r, <<>>)
       /\ portals' = [portals EXCEPT ![r.name] = NoText]
       /\ UNCHANGED prepared
ForwardClose(r) ==
    \/ /\ r.type = "close_s"
       /\ Forward(r, <<>>)
       /\ prepared' = [prepared EXCEPT ![r.name] = NoText]
       /\ UNCHANGED portals
    \/ /\ r.type = "close_p"
       /\ Forward(r, <<>>)
       /\ portals' = [portals EXCEPT ![r.portal] = NoText]
       /\ UNCHANGED prepared

ForwardSync(r) ==
    /\ r.type = "sync"
    /\ Forward(r, <<>>)
    /\ UNCHANGED <<prepared, portals>>

-----------------------------------------------------------------------------
(* The server.  It may not have noticed yet that the relay has ended.       *)

Serve(m, answers) ==
    /\ toServer' = Tail(toServer)
    /\ toProxy' = toProxy \o [i \in 1..Len(answers) |->
                                  [type |-> answers[i], id |-> m.id]]
    /\ UNCHANGED <<open, frontend, audit, answered, inHand>>

Becomes(m, result, text) ==
    /\ outcome' = [outcome EXCEPT ![m.id] = result]
    /\ executed' = [executed EXCEPT ![m.id] = text]

\* An error drops the portals and makes the server skip what follows.
Reject(m) ==
    /\ Serve(m, <<"error">>)
    /\ Becomes(m, "failed", NoText)
    /\ opened' = NoTexts(Portals)
    /\ skipping' = TRUE
    /\ UNCHANGED regular

\* Not making this request leaves the server with a statement the proxy takes
\* to be replaced or closed.
LeavesBehind(r) == r.type \in {"parse", "close_s"} /\ statements[r.name] # NoText

Skip(m) ==
    /\ skipping /\ m.request.type # "sync"
    /\ Serve(m, <<>>)
    /\ Becomes(m, "skipped", NoText)
    /\ diverged' = (diverged \/ LeavesBehind(m.request))
    /\ UNCHANGED <<statements, opened, skipping, regular>>

\* The statements of a Query are one transaction (unless they say otherwise),
\* each answered for itself until one fails.
ServeQuery(m) ==
    LET text == m.request.text
    IN /\ m.request.type = "query" /\ ~skipping
       /\ \E done \in 0..Len(text) :
             /\ Serve(m, [i \in 1..done |-> "complete"]
                         \o (IF done < Len(text) THEN <<"error">> ELSE <<>>)
                         \o <<"ready">>)
             /\ \/ /\ done = Len(text)
                   /\ Becomes(m, "ok", text)
                   /\ opened' \in {NoTexts(Portals), [opened EXCEPT ![Unnamed] = NoText]}
                \/ /\ done < Len(text)
                   /\ Becomes(m, "failed", NoText)
                   /\ opened' = NoTexts(Portals)
       /\ statements' = [statements EXCEPT ![Unnamed] = NoText]
       /\ regular' = (regular /\ Len(text) = 1)
       /\ UNCHANGED <<skipping, diverged>>

\* A name must be free, unless it is the unnamed one.
ServeParse(m) ==
    LET r == m.request
    IN /\ r.type = "parse" /\ ~skipping
       /\ \/ /\ r.name = Unnamed \/ statements[r.name] = NoText
             /\ Len(r.text) <= 1
             /\ Serve(m, <<>>)
             /\ Becomes(m, "ok", NoText)
             /\ statements' = [statements EXCEPT ![r.name] = r.text]
             /\ UNCHANGED <<opened, skipping, regular, diverged>>
          \/ /\ Reject(m)
             /\ statements' = [statements EXCEPT ![Unnamed] =
                                  IF r.name = Unnamed THEN NoText ELSE @]
             /\ diverged' = (diverged \/ (r.name # Unnamed /\ LeavesBehind(r)))

ServeBind(m) ==
    LET r == m.request
    IN /\ r.type = "bind" /\ ~skipping
       /\ \/ /\ statements[r.name] # NoText
             /\ r.portal = Unnamed \/ opened[r.portal] = NoText
             /\ Serve(m, <<>>)
             /\ Becomes(m, "ok", NoText)
             /\ opened' = [opened EXCEPT ![r.portal] = statements[r.name]]
             /\ UNCHANGED <<statements, skipping, regular, diverged>>
          \/ Reject(m) /\ UNCHANGED <<statements, diverged>>

Queued(id) == \E i \in DOMAIN pending : pending[i].id = id

\* No answer that the audit knows: an empty text, or a limit on the rows.  The
\* answer to an Execute without an event (its text was not known to ToBegin) takes
\* the next event.
ServeExecute(m) ==
    LET text == opened[m.request.portal]
    IN /\ m.request.type = "execute" /\ ~skipping
       /\ \/ /\ text # NoText
             /\ Becomes(m, "ok", text)
             /\ \/ /\ text # <<>>
                   /\ Serve(m, <<"complete">>)
                   /\ regular' = (regular /\ Queued(m.id))
                \/ Serve(m, <<>>) /\ regular' = FALSE
             /\ UNCHANGED <<statements, opened, skipping, diverged>>
          \/ Reject(m) /\ UNCHANGED <<statements, diverged>>

\* The portals of a closed statement are closed too.
ServeClose(m) ==
    LET r == m.request
    IN /\ r.type \in {"close_s", "close_p"} /\ ~skipping
       /\ Serve(m, <<>>)
       /\ Becomes(m, "ok", NoText)
       /\ IF r.type = "close_s"
          THEN /\ statements' = [statements EXCEPT ![r.name] = NoText]
               /\ \E dropped \in SUBSET Portals :
                     opened' = [p \in Portals |-> IF p \in dropped THEN NoText
                                                  ELSE opened[p]]
          ELSE /\ opened' = [opened EXCEPT ![r.portal] = NoText]
               /\ UNCHANGED statements
       /\ UNCHANGED <<skipping, regular, diverged>>

\* The end of a transaction drops the portals; inside a block it goes on.
ServeSync(m) ==
    /\ m.request.type = "sync"
    /\ Serve(m, <<"ready">>)
    /\ Becomes(m, "ok", NoText)
    /\ opened' \in {opened, NoTexts(Portals)}
    /\ skipping' = FALSE
    /\ UNCHANGED <<statements, regular, diverged>>

-----------------------------------------------------------------------------
(* From the server to the client: Send and Flush, then observeBackend.      *)

Deliver ==
    /\ open /\ inHand = <<>> /\ toProxy # <<>>
    /\ inHand' = <<Head(toProxy)>>
    /\ toProxy' = Tail(toProxy)
    /\ UNCHANGED <<open, frontend, audit, server, answered, toServer, regular, diverged>>

\* Lines of the audit log; errors of the API are ignored.
Write(events, result) ==
    \E bad \in SUBSET {e.id : e \in Range(events)} :
        /\ Cardinality(unwritten \union bad) <= MaxFailures
        /\ unwritten' = unwritten \union bad
        /\ log' = log \union
              {[event |-> e, result |-> result, regular |-> regular] :
                  e \in {x \in Range(events) : x.id \notin bad}}

\* finishNext
MutantLastFirst(result) ==
    IF pending = <<>> THEN UNCHANGED audit
    ELSE Write(<<Last(pending)>>, result) /\ pending' = Front(pending)
FinishNext(result) ==
    IF pending = <<>> THEN UNCHANGED audit
    ELSE Write(<<Head(pending)>>, result) /\ pending' = Tail(pending)

\* flushPending
MutantKeepsQueue == Write(pending, "neutral") /\ pending' = pending
MutantNoFlush == UNCHANGED audit
FlushPending == Write(pending, "neutral") /\ pending' = <<>>

\* With the answer to all that was sent, client, proxy and server are in step.
Observe ==
    /\ inHand # <<>>
    /\ LET a == Head(inHand)
       IN /\ \/ a.type = "complete" /\ FinishNext("ok")
             \/ a.type = "error" /\ FinishNext("failed")
             \/ a.type = "ready" /\ FlushPending
          /\ answered' = IF a.type = "ready" THEN a.id ELSE answered
          /\ regular' = (regular \/ (a.type = "ready" /\ a.id = sent))
    /\ inHand' = <<>>
    /\ UNCHANGED <<open, frontend, server, toServer, toProxy, diverged>>

\* Terminate, an error of either connection, the idle timeout, or a session
\* finished by an administrator: relay returns, the queue is forgotten.
Hangup ==
    /\ open
    /\ open' = FALSE
    /\ UNCHANGED <<frontend, audit, server, answered, toServer, toProxy, inHand,
                   regular, diverged>>

-----------------------------------------------------------------------------

Client == \E r \in Requests : \/ ForwardQuery(r) \/ ForwardParse(r) \/ ForwardBind(r)
                              \/ ForwardExecute(r) \/ ForwardClose(r) \/ ForwardSync(r)
Server == /\ toServer # <<>>
          /\ LET m == Head(toServer)
             IN \/ Skip(m) \/ ServeQuery(m) \/ ServeParse(m) \/ ServeBind(m)
                \/ ServeExecute(m) \/ ServeClose(m) \/ ServeSync(m)
Next == Client \/ Server \/ Deliver \/ Observe \/ Hangup
Spec == Init /\ [][Next]_vars

-----------------------------------------------------------------------------
(* Properties.                                                              *)

\* A request is audited once at most, in the order of the requests, however the
\* completions of finishNext and the flushes of flushPending alternate with new
\* events.
AuditedInOrder ==
    /\ \A i, j \in DOMAIN pending : i < j => pending[i].id < pending[j].id
    /\ \A e \in log, i \in DOMAIN pending : e.event.id < pending[i].id
    /\ \A e, f \in log : e.event.id = f.event.id => e = f

\* Nothing stays in the queue: when the ReadyForQuery that answers the last
\* message has been seen, every event has been written (flushPending).
QuietIsSettled == answered = sent => pending = <<>>

\* While answers and events are in step, an event is completed by its own answer
\* (finishNext takes the head of the queue), and what flushPending finds was not
\* executed.  (A failure may also be logged for what the server is going to skip
\* because of it.)  They are in step again whenever the connection was quiet, whatever
\* happened before.
AuditIsTrue ==
    \A e \in log :
        LET became == outcome[e.event.id]
        IN e.regular =>
              /\ e.result = "ok" => became = "ok"
              /\ e.result = "failed" => \/ became \in {"failed", "skipped"}
                                        \/ became = "none" /\ skipping
              /\ e.result = "neutral" => became = "skipped"

\* What the server executed for a request is what its event says: the maps that
\* observeFrontend keeps agree with the server's names, unless the server refused
\* to replace or to close a statement it has.
ExecutedIsRecorded ==
    \A id \in Ids :
        executed[id] \notin {NoText, <<>>} /\ ~diverged =>
            \/ id \in unwritten
            \/ [id |-> id, text |-> executed[id]] \in
                   Range(pending) \union {e.event : e \in log}

\* "ReadyForQuery says that all operations before it have ended" (flushPending):
\* then what is flushed has ended.  (Violated: README.)
FlushedHasEnded ==
    \A e \in log :
        e.result = "neutral" => outcome[e.event.id] # "none"

=============================================================================
