------------------------- MODULE PostgresAuditProofs -------------------------
(***************************************************************************)
(* Proofs about PostgresAudit, for any client, any names and any number of *)
(* messages; and about the packets of the MySQL proxy, MySQLWire, of which *)
(* DBStreams has an instance, for any result sets.                         *)
(***************************************************************************)
EXTENDS DBStreams, SequenceTheorems, TLAPS

AnswerOK(a, last, lastAsked) == a.id <= last /\ (a.type = "ready" => a.id <= lastAsked)

\* What is under way was sent, and what will be answered by ReadyForQuery asks
\* for it.
WireOK ==
    /\ \A i \in DOMAIN toServer :
          /\ toServer[i].id <= sent
          /\ Asks(toServer[i].request) => toServer[i].id <= asked
    /\ \A i \in DOMAIN toProxy : AnswerOK(toProxy[i], sent, asked)
    /\ \A i \in DOMAIN inHand : AnswerOK(inHand[i], sent, asked)

\* Events belong to messages that were sent.
EventsOK ==
    /\ \A i \in DOMAIN pending : pending[i].id <= sent
    /\ \A e \in log : e.event.id <= sent

IInv == TypeOK /\ WireOK /\ EventsOK /\ AuditedInOrder /\ QuietIsSettled

-----------------------------------------------------------------------------

LEMMA RequestParts ==
    ASSUME NEW r \in Requests
    PROVE  /\ r.type \in {"query", "parse"} => r.text \in Texts
           /\ r.type \in {"parse", "bind", "close_s"} => r.name \in Names
           /\ r.type \in {"bind", "execute", "close_p"} => r.portal \in Portals
  BY RequestsType DEF Texts, Sync, Query, Parse, Bind, Execute, CloseStatement,
     ClosePortal

LEMMA InitIInv == Init => IInv
  <1> SUFFICES ASSUME Init PROVE IInv
      OBVIOUS
  <1>1. TypeOK
    <2>1. sent \in 0..MaxMessages /\ asked \in 0..sent /\ answered \in 0..asked
        BY BoundsType DEF Init
    <2>2. toServer \in Seq([id : Ids, request : Requests]) /\ toProxy \in Seq(Answers)
          /\ inHand \in Seq(Answers) /\ Len(inHand) <= 1 /\ pending \in Seq(Events)
        BY DEF Init
    <2>3. /\ prepared \in [Names -> Texts \union {NoText}]
          /\ portals \in [Portals -> Texts \union {NoText}]
          /\ statements \in [Names -> Texts \union {NoText}]
          /\ opened \in [Portals -> Texts \union {NoText}]
          /\ executed \in [Ids -> Texts \union {NoText}]
          /\ outcome \in [Ids -> Outcomes]
        BY DEF Init, NoTexts, Outcomes
    <2> QED BY <2>1, <2>2, <2>3 DEF Init, TypeOK
  <1> QED BY <1>1 DEF Init, IInv, WireOK, EventsOK, AuditedInOrder, QuietIsSettled

LEMMA Numbers ==
    ASSUME TypeOK
    PROVE  /\ \A e \in log : e.event \in Events /\ e.event.id \in Nat
           /\ \A i \in DOMAIN pending : pending[i] \in Events /\ pending[i].id \in Nat
           /\ \A i \in DOMAIN toServer : toServer[i].id \in Nat
           /\ \A i \in DOMAIN toProxy : toProxy[i].id \in Nat
           /\ \A i \in DOMAIN inHand : inHand[i].id \in Nat
           /\ sent \in Nat /\ asked \in Nat /\ answered \in Nat
           /\ asked <= sent /\ answered <= asked
  <1>1. MaxMessages \in Nat
      BY BoundsType
  <1>2. \A S, s, i : s \in Seq(S) /\ i \in DOMAIN s => s[i] \in S
      OBVIOUS
  <1>3. /\ \A e \in log : e.event \in Events
        /\ \A i \in DOMAIN pending : pending[i] \in Events
        /\ \A i \in DOMAIN toServer : toServer[i] \in [id : Ids, request : Requests]
        /\ \A i \in DOMAIN toProxy : toProxy[i] \in Answers
        /\ \A i \in DOMAIN inHand : inHand[i] \in Answers
      BY <1>2 DEF TypeOK
  <1>4. /\ \A e \in Events : e.id \in Nat
        /\ \A a \in Answers : a.id \in Nat
        /\ \A m \in [id : Ids, request : Requests] : m.id \in Nat
      BY <1>1 DEF Events, Answers, Ids
  <1>5. sent \in Nat /\ asked \in Nat /\ answered \in Nat /\ asked <= sent /\ answered <= asked
      BY <1>1 DEF TypeOK
  <1> QED BY <1>3, <1>4, <1>5

\* Whatever is forwarded.
LEMMA Forwarding ==
    ASSUME IInv, NEW r \in Requests, NEW texts \in Seq(Texts), Len(texts) <= 1,
           Forward(r, texts), prepared' \in [Names -> Texts \union {NoText}],
           portals' \in [Portals -> Texts \union {NoText}]
    PROVE  IInv'
  <1> DEFINE m == [id |-> sent + 1, request |-> r]
             new == [i \in 1..Len(texts) |-> [id |-> sent + 1, text |-> texts[i]]]
  <1>0. /\ sent \in Nat /\ sent + 1 \in Ids /\ asked \in 0..sent /\ answered \in 0..asked
        /\ sent' = sent + 1 /\ asked' \in {asked, sent + 1} /\ answered' = answered
        /\ Asks(r) => asked' = sent + 1
      BY BoundsType DEF IInv, TypeOK, Forward, Ids
  <1>a. /\ \A e \in log : e.event.id \in Nat
        /\ \A i \in DOMAIN pending : pending[i].id \in Nat
        /\ \A i \in DOMAIN toServer : toServer[i].id \in Nat
        /\ \A i \in DOMAIN toProxy : toProxy[i].id \in Nat
        /\ \A i \in DOMAIN inHand : inHand[i].id \in Nat
        /\ asked \in Nat /\ asked <= sent
      BY Numbers DEF IInv
  <1>b. WireOK /\ EventsOK /\ AuditedInOrder
      BY DEF IInv
  <1>c. /\ asked' \in Nat /\ asked <= asked'
        /\ sent \in Nat /\ sent' = sent + 1 /\ (Asks(r) => asked' = sent + 1)
      BY <1>0, <1>a
  <1>d. \A n \in Nat : (n <= sent => n <= sent') /\ (n <= asked => n <= asked')
      BY <1>a, <1>c
  <1>1. /\ toServer' = Append(toServer, m) /\ pending' = pending \o new
        /\ UNCHANGED <<toProxy, inHand, log>>
      BY DEF Forward
  <1>2. new \in Seq(Events) /\ Len(new) = Len(texts)
        /\ \A i \in 1..Len(texts) : new[i].id = sent + 1
      BY <1>0 DEF Events
  <1>3. pending \in Seq(Events) /\ toServer \in Seq([id : Ids, request : Requests])
      BY DEF IInv, TypeOK
  <1> HIDE DEF m, new
  <1>4. /\ pending' \in Seq(Events) /\ Len(pending') = Len(pending) + Len(texts)
        /\ \A i \in 1..Len(pending) : pending'[i] = pending[i]
        /\ \A i \in 1..Len(pending') : i > Len(pending) => pending'[i].id = sent + 1
        /\ DOMAIN pending = 1..Len(pending) /\ DOMAIN pending' = 1..Len(pending')
        /\ Len(pending) \in Nat /\ Len(pending') \in Nat /\ Len(texts) \in {0, 1}
      BY <1>1, <1>2, <1>3
  <1>5. m \in [id : Ids, request : Requests] /\ m.id = sent + 1 /\ m.request = r
      BY <1>0 DEF m
  <1>6. TypeOK'
    <2>1. toServer' \in Seq([id : Ids, request : Requests])
        BY <1>1, <1>3, <1>5
    <2>2. sent' \in 0..MaxMessages /\ asked' \in 0..sent' /\ answered' \in 0..asked'
        BY <1>0, BoundsType DEF Ids
    <2>3. regular' \in BOOLEAN
        BY DEF IInv, TypeOK, Forward
    <2> QED BY <1>4, <2>1, <2>2, <2>3 DEF IInv, TypeOK, Forward, server
  <1>7. WireOK'
    <2>1. \A i \in DOMAIN toServer' : toServer'[i] = m \/
             (i \in DOMAIN toServer /\ toServer'[i] = toServer[i])
        BY <1>1, <1>3, <1>5
    <2>2. \A a : AnswerOK(a, sent, asked) /\ a.id \in Nat => AnswerOK(a, sent', asked')
        BY <1>d DEF AnswerOK
    <2>3. /\ \A i \in DOMAIN toProxy' : AnswerOK(toProxy'[i], sent', asked')
          /\ \A i \in DOMAIN inHand' : AnswerOK(inHand'[i], sent', asked')
        BY <1>1, <1>a, <1>b, <2>2 DEF WireOK
    <2>4. \A i \in DOMAIN toServer' :
             /\ toServer'[i].id <= sent'
             /\ Asks(toServer'[i].request) => toServer'[i].id <= asked'
        BY <1>5, <1>a, <1>b, <1>c, <1>d, <2>1 DEF WireOK
    <2> QED BY <2>3, <2>4 DEF WireOK
  <1>e. log' = log
      BY <1>1
  <1>f. \A i \in DOMAIN pending' :
           \/ i \in DOMAIN pending /\ pending'[i] = pending[i]
           \/ i \notin DOMAIN pending /\ i = Len(pending) + 1 /\ pending'[i].id = sent + 1
      BY <1>4
  <1>8. EventsOK'
    <2>1. \A i \in DOMAIN pending' : pending'[i].id <= sent'
        BY <1>a, <1>b, <1>c, <1>f DEF EventsOK
    <2>2. \A e \in log' : e.event.id <= sent'
        BY <1>a, <1>b, <1>d, <1>e DEF EventsOK
    <2> QED BY <2>1, <2>2 DEF EventsOK
  <1>9. AuditedInOrder'
    <2>1. \A i, j \in DOMAIN pending' : i < j => pending'[i].id < pending'[j].id
        BY <1>4, <1>a, <1>b, <1>c, <1>f DEF EventsOK, AuditedInOrder
    <2>2. \A e \in log', i \in DOMAIN pending' : e.event.id < pending'[i].id
        BY <1>a, <1>b, <1>c, <1>e, <1>f DEF EventsOK, AuditedInOrder
    <2>3. \A e, f \in log' : e.event.id = f.event.id => e = f
        BY <1>b, <1>e DEF AuditedInOrder
    <2> QED BY <2>1, <2>2, <2>3 DEF AuditedInOrder
  <1>10. QuietIsSettled'
      BY <1>0 DEF QuietIsSettled
  <1> QED BY <1>6, <1>7, <1>8, <1>9, <1>10 DEF IInv

LEMMA ClientStep == IInv /\ Client => IInv'
  <1> SUFFICES ASSUME IInv, NEW r \in Requests,
                      \/ ForwardQuery(r) \/ ForwardParse(r) \/ ForwardBind(r)
                      \/ ForwardExecute(r) \/ ForwardClose(r) \/ ForwardSync(r)
               PROVE  IInv'
      BY DEF Client
  <1> USE RequestParts
  <1>0. /\ prepared \in [Names -> Texts \union {NoText}]
        /\ portals \in [Portals -> Texts \union {NoText}]
        /\ <<>> \in Seq(Texts) /\ Len(<<>>) <= 1
      BY DEF IInv, TypeOK
  <1>1. CASE ForwardQuery(r)
    <2>1. <<r.text>> \in Seq(Texts) /\ Len(<<r.text>>) <= 1
        BY <1>1 DEF ForwardQuery
    <2> QED BY <1>0, <1>1, <2>1, Forwarding DEF ForwardQuery
  <1>2. CASE ForwardParse(r)
    <2>1. prepared' \in [Names -> Texts \union {NoText}]
        BY <1>0, <1>2 DEF ForwardParse
    <2> QED BY <1>0, <1>2, <2>1, Forwarding DEF ForwardParse
  <1>3. CASE ForwardBind(r)
    <2>1. portals' \in [Portals -> Texts \union {NoText}]
        BY <1>0, <1>3 DEF ForwardBind, Bound
    <2> QED BY <1>0, <1>3, <2>1, Forwarding DEF ForwardBind
  <1>4. CASE ForwardExecute(r)
    <2>1. ToBegin(r.portal) \in Seq(Texts) /\ Len(ToBegin(r.portal)) <= 1
        BY <1>0, <1>4, NamesType DEF ForwardExecute, ToBegin, Resolved
    <2> QED BY <1>0, <1>4, <2>1, Forwarding DEF ForwardExecute
  <1>5. CASE ForwardClose(r)
    <2>1. /\ prepared' \in [Names -> Texts \union {NoText}]
          /\ portals' \in [Portals -> Texts \union {NoText}]
          /\ Forward(r, <<>>)
        BY <1>0, <1>5 DEF ForwardClose
    <2> QED BY <1>0, <2>1, Forwarding
  <1>6. CASE ForwardSync(r)
      BY <1>0, <1>6, Forwarding DEF ForwardSync
  <1> QED BY <1>1, <1>2, <1>3, <1>4, <1>5, <1>6

ServerTyped ==
    /\ statements \in [Names -> Texts \union {NoText}]
    /\ opened \in [Portals -> Texts \union {NoText}]
    /\ skipping \in BOOLEAN /\ regular \in BOOLEAN /\ diverged \in BOOLEAN
    /\ outcome \in [Ids -> Outcomes]
    /\ executed \in [Ids -> Texts \union {NoText}]

\* Whatever the server answers.
LEMMA Serving ==
    ASSUME IInv, toServer # <<>>, NEW m, m = Head(toServer),
           NEW answers \in Seq({"complete", "error", "ready"}), Serve(m, answers),
           \A i \in DOMAIN answers : answers[i] = "ready" => Asks(m.request),
           ServerTyped'
    PROVE  IInv'
  <1> DEFINE new == [i \in 1..Len(answers) |-> [type |-> answers[i], id |-> m.id]]
  <1>1. /\ toServer \in Seq([id : Ids, request : Requests])
        /\ toProxy \in Seq(Answers)
      BY DEF IInv, TypeOK
  <1>2. /\ toServer' = Tail(toServer) /\ toProxy' = toProxy \o new
        /\ UNCHANGED <<open, sent, asked, answered, prepared, portals, inHand>>
        /\ UNCHANGED <<pending, log, unwritten>>
      BY DEF Serve, frontend, audit
  <1>3. m \in [id : Ids, request : Requests] /\ 1 \in DOMAIN toServer /\ m = toServer[1]
    <2>1. Len(toServer) \in Nat /\ Len(toServer) > 0
        BY <1>1
    <2>2. 1 \in DOMAIN toServer /\ m = toServer[1]
        BY <1>1, <2>1
    <2>3. m \in [id : Ids, request : Requests]
        BY <1>1, HeadTailProperties
    <2> QED BY <2>2, <2>3
  <1>4. m.id <= sent /\ (Asks(m.request) => m.id <= asked)
      BY <1>3 DEF IInv, WireOK
  <1>5. /\ new \in Seq(Answers) /\ Len(new) = Len(answers)
        /\ \A i \in DOMAIN new : AnswerOK(new[i], sent, asked)
      BY <1>3, <1>4 DEF Answers, AnswerOK
  <1> HIDE DEF new
  <1>6. /\ toServer' \in Seq([id : Ids, request : Requests])
        /\ \A i \in DOMAIN toServer' : i + 1 \in DOMAIN toServer /\ toServer'[i] = toServer[i + 1]
      BY <1>1, <1>2
  <1>7. /\ toProxy' \in Seq(Answers)
        /\ \A i \in DOMAIN toProxy' :
              \/ i \in DOMAIN toProxy /\ toProxy'[i] = toProxy[i]
              \/ \E j \in DOMAIN new : toProxy'[i] = new[j]
    <2>1. toProxy' \in Seq(Answers) /\ Len(toProxy') = Len(toProxy) + Len(new)
        BY <1>1, <1>2, <1>5
    <2>2. ASSUME NEW i \in DOMAIN toProxy'
          PROVE  \/ i \in DOMAIN toProxy /\ toProxy'[i] = toProxy[i]
                 \/ \E j \in DOMAIN new : toProxy'[i] = new[j]
      <3>1. CASE i \in 1..Len(toProxy)
          BY <1>1, <1>2, <1>5, <3>1
      <3>2. CASE i \notin 1..Len(toProxy)
        <4>1. i - Len(toProxy) \in DOMAIN new /\ toProxy'[i] = new[i - Len(toProxy)]
            BY <1>1, <1>2, <1>5, <2>1, <3>2
        <4> QED BY <4>1
      <3> QED BY <3>1, <3>2
    <2> QED BY <2>1, <2>2
  <1>8. TypeOK'
      BY <1>2, <1>6, <1>7 DEF IInv, TypeOK, ServerTyped
  <1>9. WireOK'
    <2>1. WireOK
        BY DEF IInv
    <2>2. ASSUME NEW i \in DOMAIN toServer'
          PROVE  /\ toServer'[i].id <= sent'
                 /\ Asks(toServer'[i].request) => toServer'[i].id <= asked'
      <3>1. PICK j \in DOMAIN toServer : toServer'[i] = toServer[j]
          BY <1>6
      <3> QED BY <1>2, <2>1, <3>1 DEF WireOK
    <2>3. \A i \in DOMAIN toProxy' : AnswerOK(toProxy'[i], sent', asked')
        BY <1>2, <1>5, <1>7, <2>1 DEF WireOK
    <2> QED BY <1>2, <2>1, <2>2, <2>3 DEF WireOK
  <1> QED BY <1>2, <1>8, <1>9 DEF IInv, EventsOK, AuditedInOrder, QuietIsSettled

LEMMA ServerStep == IInv /\ Server => IInv'
  <1> SUFFICES ASSUME IInv, toServer # <<>>, NEW m, m = Head(toServer),
                      \/ Skip(m) \/ ServeQuery(m) \/ ServeParse(m) \/ ServeBind(m)
                      \/ ServeExecute(m) \/ ServeClose(m) \/ ServeSync(m)
               PROVE  IInv'
      BY DEF Server
  <1> DEFINE A == {"complete", "error", "ready"}
  <1>1. m.id \in Ids /\ m.request \in Requests
    <2>1. toServer \in Seq([id : Ids, request : Requests])
        BY DEF IInv, TypeOK
    <2>2. m \in [id : Ids, request : Requests]
        BY <2>1, HeadTailProperties
    <2> QED BY <2>2
  <1>2. ServerTyped
      BY DEF IInv, TypeOK, ServerTyped
  <1>3. /\ <<>> \in Seq(A) /\ <<"error">> \in Seq(A)
        /\ <<"complete">> \in Seq(A) /\ <<"ready">> \in Seq(A)
      OBVIOUS
  <1>4. /\ \A i \in DOMAIN <<"error">> : <<"error">>[i] # "ready"
        /\ \A i \in DOMAIN <<>> : <<>>[i] # "ready"
      OBVIOUS
  <1>5. NoTexts(Portals) \in [Portals -> Texts \union {NoText}]
      BY DEF NoTexts
  <1>6. CASE Skip(m)
    <2>1. ServerTyped'
        BY <1>1, <1>2, <1>6 DEF Skip, Becomes, ServerTyped, Outcomes
    <2>2. Serve(m, <<>>)
        BY <1>6 DEF Skip
    <2> QED BY <1>3, <1>4, <2>1, <2>2, Serving
  <1>7. ASSUME Reject(m), statements' \in [Names -> Texts \union {NoText}],
               diverged' \in BOOLEAN
        PROVE  IInv'
    <2>1. ServerTyped'
        BY <1>1, <1>2, <1>5, <1>7 DEF Reject, Becomes, ServerTyped, Outcomes
    <2>2. Serve(m, <<"error">>)
        BY <1>7 DEF Reject
    <2> QED BY <1>3, <1>4, <2>1, <2>2, Serving
  <1>8. CASE ServeQuery(m)
    <2> DEFINE text == m.request.text
               answers(done) == [i \in 1..done |-> "complete"]
                                \o (IF done < Len(text) THEN <<"error">> ELSE <<>>)
                                \o <<"ready">>
    <2>1. m.request.type = "query" /\ text \in Texts
        BY <1>1, <1>8, RequestParts DEF ServeQuery
    <2>2. PICK done \in 0..Len(text) : Serve(m, answers(done))
        BY <1>8 DEF ServeQuery
    <2>3. answers(done) \in Seq(A)
      <3>1. [i \in 1..done |-> "complete"] \in Seq(A)
        <4>1. done \in Nat
            OBVIOUS
        <4> QED BY <4>1
      <3>2. (IF done < Len(text) THEN <<"error">> ELSE <<>>) \in Seq(A)
          BY <1>3
      <3> QED BY <1>3, <3>1, <3>2
    <2>4. ServerTyped'
        BY <1>1, <1>2, <1>5, <1>8, <2>1, NamesType
           DEF ServeQuery, Becomes, ServerTyped, Outcomes
    <2>5. Asks(m.request)
        BY <2>1 DEF Asks
    <2> HIDE DEF answers
    <2> QED BY <2>2, <2>3, <2>4, <2>5, Serving
  <1>9. CASE ServeParse(m)
    <2>1. m.request.text \in Texts /\ m.request.name \in Names
        BY <1>1, <1>9, RequestParts DEF ServeParse
    <2>2. CASE Reject(m) /\ statements' = [statements EXCEPT ![Unnamed] =
                                IF m.request.name = Unnamed THEN NoText ELSE @]
               /\ diverged' = (diverged \/ (m.request.name # Unnamed /\ LeavesBehind(m.request)))
      <3>1. statements' \in [Names -> Texts \union {NoText}] /\ diverged' \in BOOLEAN
          BY <1>2, <2>2, NamesType DEF ServerTyped
      <3> QED BY <1>7, <2>2, <3>1
    <2>3. CASE Serve(m, <<>>) /\ Becomes(m, "ok", NoText)
               /\ statements' = [statements EXCEPT ![m.request.name] = m.request.text]
               /\ UNCHANGED <<opened, skipping, regular, diverged>>
      <3>1. ServerTyped'
          BY <1>1, <1>2, <2>1, <2>3 DEF Becomes, ServerTyped, Outcomes
      <3> QED BY <1>3, <1>4, <2>3, <3>1, Serving
    <2> QED BY <1>9, <2>2, <2>3 DEF ServeParse
  <1>10. CASE ServeBind(m)
    <2>1. m.request.portal \in Portals /\ m.request.name \in Names
        BY <1>1, <1>10, RequestParts DEF ServeBind
    <2>2. CASE Reject(m) /\ UNCHANGED <<statements, diverged>>
        BY <1>2, <1>7, <2>2 DEF ServerTyped
    <2>3. CASE Serve(m, <<>>) /\ Becomes(m, "ok", NoText)
               /\ opened' = [opened EXCEPT ![m.request.portal] = statements[m.request.name]]
               /\ UNCHANGED <<statements, skipping, regular, diverged>>
      <3>1. ServerTyped'
          BY <1>1, <1>2, <2>1, <2>3 DEF Becomes, ServerTyped, Outcomes
      <3> QED BY <1>3, <1>4, <2>3, <3>1, Serving
    <2> QED BY <1>10, <2>2, <2>3 DEF ServeBind
  <1>11. CASE ServeExecute(m)
    <2> DEFINE text == opened[m.request.portal]
    <2>1. text \in Texts \union {NoText}
        BY <1>1, <1>2, <1>11, RequestParts DEF ServeExecute, ServerTyped
    <2>2. CASE Reject(m) /\ UNCHANGED <<statements, diverged>>
        BY <1>2, <1>7, <2>2 DEF ServerTyped
    <2>3. ASSUME Becomes(m, "ok", text), regular' \in BOOLEAN,
                 Serve(m, <<"complete">>) \/ Serve(m, <<>>),
                 UNCHANGED <<statements, opened, skipping, diverged>>
          PROVE  IInv'
      <3>1. ServerTyped'
          BY <1>1, <1>2, <2>1, <2>3 DEF Becomes, ServerTyped, Outcomes
      <3>2. \A i \in DOMAIN <<"complete">> : <<"complete">>[i] # "ready"
          OBVIOUS
      <3> QED BY <1>3, <1>4, <2>3, <3>1, <3>2, Serving
    <2>4. (regular /\ Queued(m.id)) \in BOOLEAN /\ regular \in BOOLEAN /\ FALSE \in BOOLEAN
        BY <1>2 DEF ServerTyped
    <2> QED BY <1>11, <2>2, <2>3, <2>4 DEF ServeExecute
  <1>12. CASE ServeClose(m)
    <2>1. /\ m.request.type = "close_s" => m.request.name \in Names
          /\ m.request.type = "close_p" => m.request.portal \in Portals
        BY <1>1, RequestParts
    <2>2. ServerTyped'
        BY <1>1, <1>2, <1>12, <2>1 DEF ServeClose, Becomes, ServerTyped, Outcomes
    <2>3. Serve(m, <<>>)
        BY <1>12 DEF ServeClose
    <2> QED BY <1>3, <1>4, <2>2, <2>3, Serving
  <1>13. CASE ServeSync(m)
    <2>1. ServerTyped'
        BY <1>1, <1>2, <1>5, <1>13 DEF ServeSync, Becomes, ServerTyped, Outcomes
    <2>2. Serve(m, <<"ready">>) /\ Asks(m.request)
        BY <1>13 DEF ServeSync, Asks
    <2> QED BY <1>3, <1>4, <2>1, <2>2, Serving
  <1> QED BY <1>6, <1>8, <1>9, <1>10, <1>11, <1>12, <1>13

-----------------------------------------------------------------------------

\* Writing the first k events of the queue and forgetting them.
LEMMA Writing ==
    ASSUME TypeOK, EventsOK, AuditedInOrder, NEW k \in 0..Len(pending), NEW events,
           Range(events) = {pending[i] : i \in 1..k},
           NEW result \in Results, Write(events, result),
           pending' \in Seq(Events), Len(pending') = Len(pending) - k,
           \A i \in 1..Len(pending') : pending'[i] = pending[i + k],
           sent' = sent
    PROVE  /\ log' \subseteq [event : Events, result : Results, regular : BOOLEAN]
           /\ unwritten' \subseteq Ids
           /\ EventsOK' /\ AuditedInOrder'
  <1>1. /\ pending \in Seq(Events) /\ Len(pending) \in Nat
        /\ DOMAIN pending = 1..Len(pending) /\ DOMAIN pending' = 1..Len(pending')
        /\ log \subseteq [event : Events, result : Results, regular : BOOLEAN]
        /\ regular \in BOOLEAN /\ unwritten \subseteq Ids
      BY DEF TypeOK
  <1>2. /\ \A e \in log : e.event.id \in Nat
        /\ \A i \in DOMAIN pending : pending[i] \in Events /\ pending[i].id \in Nat
      BY Numbers
  <1>3. PICK bad \in SUBSET {e.id : e \in Range(events)} :
           /\ unwritten' = unwritten \union bad
           /\ log' = log \union
                 {[event |-> e, result |-> result, regular |-> regular] :
                     e \in {x \in Range(events) : x.id \notin bad}}
      BY DEF Write
  <1>4. ASSUME NEW e \in log'
        PROVE  \/ e \in log
               \/ \E i \in 1..k : e = [event |-> pending[i], result |-> result,
                                       regular |-> regular]
      BY <1>3
  <1>5. \A i \in 1..k : i \in DOMAIN pending
      BY <1>1
  <1>6. \A i \in DOMAIN pending' : i + k \in DOMAIN pending /\ pending'[i] = pending[i + k]
      BY <1>1
  <1>7. log' \subseteq [event : Events, result : Results, regular : BOOLEAN]
      BY <1>1, <1>2, <1>4, <1>5
  <1>8. unwritten' \subseteq Ids
    <2>1. \A e \in Range(events) : e.id \in Ids
        BY <1>2, <1>5 DEF Events
    <2> QED BY <1>1, <1>3, <2>1
  <1>9. EventsOK'
    <2>1. \A e \in log' : e.event.id <= sent'
        BY <1>4, <1>5 DEF EventsOK
    <2>2. \A i \in DOMAIN pending' : pending'[i].id <= sent'
        BY <1>6 DEF EventsOK
    <2> QED BY <2>1, <2>2 DEF EventsOK
  <1>10. \A i, j \in DOMAIN pending' : i < j => pending'[i].id < pending'[j].id
      BY <1>1, <1>6 DEF AuditedInOrder
  <1>11. ASSUME NEW e \in log', NEW i \in DOMAIN pending'
         PROVE  e.event.id < pending'[i].id
    <2>1. CASE e \in log
        BY <1>6, <2>1 DEF AuditedInOrder
    <2>2. CASE \E j \in 1..k : e = [event |-> pending[j], result |-> result,
                                    regular |-> regular]
      <3>1. PICK j \in 1..k : e.event = pending[j]
          BY <2>2
      <3>2. j < i + k /\ j \in DOMAIN pending
          BY <1>1, <1>5
      <3> QED BY <1>6, <3>1, <3>2 DEF AuditedInOrder
    <2> QED BY <1>4, <2>1, <2>2
  <1>12. ASSUME NEW e \in log', NEW f \in log', e.event.id = f.event.id
         PROVE  e = f
    <2>1. ASSUME NEW g \in log, NEW i \in 1..k
          PROVE  g.event.id # pending[i].id
        BY <1>2, <1>5 DEF AuditedInOrder
    <2>2. ASSUME NEW i \in 1..k, NEW j \in 1..k, pending[i].id = pending[j].id
          PROVE  i = j
      <3>1. ~ (i < j) /\ ~ (j < i)
          BY <1>2, <1>5, <2>2 DEF AuditedInOrder
      <3> QED BY <3>1
    <2>3. CASE e \in log /\ f \in log
        BY <1>12, <2>3 DEF AuditedInOrder
    <2>4. CASE e \notin log /\ f \notin log
      <3>1. PICK i \in 1..k : e = [event |-> pending[i], result |-> result,
                                   regular |-> regular]
          BY <1>4, <2>4
      <3>2. PICK j \in 1..k : f = [event |-> pending[j], result |-> result,
                                   regular |-> regular]
          BY <1>4, <2>4
      <3>3. i = j
          BY <1>12, <2>2, <3>1, <3>2
      <3> QED BY <3>1, <3>2, <3>3
    <2>5. CASE e \in log /\ f \notin log
        BY <1>4, <1>12, <2>1, <2>5
    <2>6. CASE e \notin log /\ f \in log
        BY <1>4, <1>12, <2>1, <2>6
    <2> QED BY <2>3, <2>4, <2>5, <2>6
  <1> QED BY <1>7, <1>8, <1>9, <1>10, <1>11, <1>12 DEF AuditedInOrder

LEMMA DeliverStep == IInv /\ Deliver => IInv'
  <1> SUFFICES ASSUME IInv, Deliver PROVE IInv'
      OBVIOUS
  <1>1. /\ toProxy \in Seq(Answers) /\ toProxy # <<>>
        /\ inHand' = <<Head(toProxy)>> /\ toProxy' = Tail(toProxy)
        /\ UNCHANGED <<sent, asked, toServer, pending, log, answered>>
      BY DEF IInv, TypeOK, Deliver, frontend, audit
  <1>2. /\ Head(toProxy) \in Answers /\ toProxy' \in Seq(Answers)
        /\ \E i \in DOMAIN toProxy : Head(toProxy) = toProxy[i]
        /\ \A i \in DOMAIN toProxy' : \E j \in DOMAIN toProxy : toProxy'[i] = toProxy[j]
    <2>1. Len(toProxy) \in Nat \ {0}
        BY <1>1, EmptySeq
    <2>2. 1 \in DOMAIN toProxy /\ Head(toProxy) = toProxy[1]
        BY <1>1, <2>1
    <2>3. /\ toProxy' \in Seq(Answers) /\ Len(toProxy') = Len(toProxy) - 1
          /\ \A i \in 1..Len(toProxy') : toProxy'[i] = toProxy[i + 1]
        BY <1>1, HeadTailProperties
    <2>4. \A i \in DOMAIN toProxy' : i + 1 \in DOMAIN toProxy /\ toProxy'[i] = toProxy[i + 1]
        BY <1>1, <2>1, <2>3
    <2> QED BY <1>1, <2>2, <2>3, <2>4, HeadTailProperties
  <1>3. inHand' \in Seq(Answers) /\ Len(inHand') <= 1
        /\ \A i \in DOMAIN inHand' : inHand'[i] = Head(toProxy)
      BY <1>1, <1>2
  <1>4. TypeOK'
      BY <1>2, <1>3 DEF IInv, TypeOK, Deliver, frontend, audit, server
  <1>5. WireOK'
    <2>1. WireOK
        BY DEF IInv
    <2> QED BY <1>1, <1>2, <1>3, <2>1 DEF WireOK
  <1> QED BY <1>1, <1>4, <1>5 DEF IInv, EventsOK, AuditedInOrder, QuietIsSettled

\* After finishNext or flushPending the audit is in order; flushPending leaves
\* nothing.
LEMMA AuditStep ==
    ASSUME IInv, NEW result \in Results, FinishNext(result) \/ FlushPending, sent' = sent
    PROVE  /\ pending' \in Seq(Events)
           /\ log' \subseteq [event : Events, result : Results, regular : BOOLEAN]
           /\ unwritten' \subseteq Ids
           /\ EventsOK' /\ AuditedInOrder'
           /\ pending = <<>> => pending' = <<>>
  <1>1. /\ TypeOK /\ EventsOK /\ AuditedInOrder
        /\ pending \in Seq(Events) /\ Len(pending) \in Nat /\ DOMAIN pending = 1..Len(pending)
      BY DEF IInv, TypeOK
  <1>2. CASE pending = <<>> /\ FinishNext(result)
      BY <1>1, <1>2 DEF FinishNext, audit, TypeOK, EventsOK, AuditedInOrder
  <1>3. CASE pending # <<>> /\ FinishNext(result)
    <2>1. Write(<<Head(pending)>>, result) /\ pending' = Tail(pending)
        BY <1>3 DEF FinishNext
    <2>2. Len(pending) \in Nat \ {0} /\ Head(pending) = pending[1]
        BY <1>1, <1>3, EmptySeq
    <2>3. /\ pending' \in Seq(Events) /\ Len(pending') = Len(pending) - 1
          /\ \A i \in 1..Len(pending') : pending'[i] = pending[i + 1]
        BY <1>1, <1>3, <2>1, HeadTailProperties
    <2>4. Range(<<Head(pending)>>) = {pending[i] : i \in 1..1}
        BY <2>2 DEF Range
    <2>5. 1 \in 0..Len(pending)
        BY <2>2
    <2> QED BY <1>1, <1>3, <2>1, <2>3, <2>4, <2>5, Writing
  <1>4. CASE FlushPending
    <2>1. Write(pending, "neutral") /\ pending' = <<>>
        BY <1>4 DEF FlushPending
    <2>2. Range(pending) = {pending[i] : i \in 1..Len(pending)}
        BY <1>1 DEF Range
    <2>3. /\ pending' \in Seq(Events) /\ Len(pending') = Len(pending) - Len(pending)
          /\ \A i \in 1..Len(pending') : pending'[i] = pending[i + Len(pending)]
        BY <1>1, <2>1
    <2>4. "neutral" \in Results /\ Len(pending) \in 0..Len(pending)
        BY <1>1 DEF Results
    <2> QED BY <1>1, <2>1, <2>2, <2>3, <2>4, Writing
  <1> QED BY <1>2, <1>3, <1>4

LEMMA ObserveStep == IInv /\ Observe => IInv'
  <1> SUFFICES ASSUME IInv, Observe PROVE IInv'
      OBVIOUS
  <1> DEFINE a == Head(inHand)
  <1>1. /\ inHand' = <<>> /\ UNCHANGED <<open, sent, asked, toServer, toProxy>>
        /\ answered' = IF a.type = "ready" THEN a.id ELSE answered
        /\ regular' = (regular \/ (a.type = "ready" /\ a.id = sent))
        /\ UNCHANGED <<prepared, portals, statements, opened, skipping, outcome,
                       executed, diverged>>
      BY DEF Observe, frontend, server
  <1>2. \/ a.type = "ready" /\ FlushPending
        \/ a.type # "ready" /\ \E result \in Results : FinishNext(result)
      BY DEF Observe, Results
  <1>3. inHand \in Seq(Answers) /\ inHand # <<>>
      BY DEF IInv, TypeOK, Observe
  <1>4. a \in Answers /\ AnswerOK(a, sent, asked)
    <2>1. Len(inHand) \in Nat \ {0}
        BY <1>3, EmptySeq
    <2>2. 1 \in DOMAIN inHand /\ a = inHand[1]
        BY <1>3, <2>1
    <2>3. a \in Answers
        BY <1>3, HeadTailProperties
    <2> QED BY <2>2, <2>3 DEF IInv, WireOK
  <1> HIDE DEF a
  <1>5. /\ pending' \in Seq(Events)
        /\ log' \subseteq [event : Events, result : Results, regular : BOOLEAN]
        /\ unwritten' \subseteq Ids
        /\ EventsOK' /\ AuditedInOrder'
        /\ pending = <<>> => pending' = <<>>
    <2>1. "ok" \in Results
        BY DEF Results
    <2> QED BY <1>1, <1>2, <2>1, AuditStep
  <1>6. answered' \in 0..asked'
    <2>1. a.id \in Nat
        BY <1>4, BoundsType DEF Answers, Ids
    <2>2. asked \in Nat /\ answered \in 0..asked
        BY BoundsType DEF IInv, TypeOK
    <2> QED BY <1>1, <1>4, <2>1, <2>2 DEF AnswerOK
  <1>7. TypeOK'
      BY <1>1, <1>5, <1>6 DEF IInv, TypeOK
  <1>8. WireOK'
      BY <1>1 DEF IInv, WireOK
  <1>9. QuietIsSettled'
      BY <1>1, <1>2, <1>5 DEF IInv, QuietIsSettled, FlushPending
  <1> QED BY <1>5, <1>7, <1>8, <1>9 DEF IInv

LEMMA OtherSteps == IInv /\ (Hangup \/ UNCHANGED vars) => IInv'
  <1> SUFFICES ASSUME IInv, Hangup \/ UNCHANGED vars PROVE IInv'
      OBVIOUS
  <1>1. /\ open' \in BOOLEAN
        /\ UNCHANGED <<sent, asked, prepared, portals, pending, log, unwritten>>
        /\ UNCHANGED <<statements, opened, skipping, outcome, executed, answered>>
        /\ UNCHANGED <<toServer, toProxy, inHand, regular, diverged>>
      BY DEF IInv, TypeOK, Hangup, vars, frontend, audit, server
  <1>2. TypeOK'
      BY <1>1 DEF IInv, TypeOK
  <1> QED BY <1>1, <1>2 DEF IInv, WireOK, EventsOK, AuditedInOrder, QuietIsSettled

\* The inductive invariant.
THEOREM Invariance == Spec => []IInv
  <1>1. IInv /\ [Next]_vars => IInv'
      BY ClientStep, ServerStep, DeliverStep, ObserveStep, OtherSteps DEF Next
  <1> QED BY InitIInv, <1>1, PTL DEF Spec

\* Every variable keeps its type: no event without a text is queued.
THEOREM TypeCorrect == Spec => []TypeOK
  <1>1. IInv => TypeOK
      BY DEF IInv
  <1> QED BY Invariance, <1>1, PTL

\* However the client pipelines and whatever the server answers, no request is
\* audited twice, and none before an earlier one that is still queued
\* (finishNext, flushPending).
THEOREM AuditedOnceInOrder == Spec => []AuditedInOrder
  <1>1. IInv => AuditedInOrder
      BY DEF IInv
  <1> QED BY Invariance, <1>1, PTL

\* The queue is empty when the answer to the last message has been seen
\* (flushPending): a mismatch does not outlive the batch it began in.
THEOREM Settled == Spec => []QuietIsSettled
  <1>1. IInv => QuietIsSettled
      BY DEF IInv
  <1> QED BY Invariance, <1>1, PTL

-----------------------------------------------------------------------------
(* AuditIsTrue.  What the proxy's queue, the answers under way and the      *)
(* requests the server has not read have to do with each other.             *)

Coming == inHand \o toProxy
Served == sent - Len(toServer)

\* Messages are read in the order of their numbers, and known by them.
ReadInOrder ==
    /\ \A k \in DOMAIN toServer : toServer[k].id = Served + k
    /\ \A id \in Ids : outcome[id] = "none" <=> id > Served
    /\ \A i \in DOMAIN pending, k \in DOMAIN toServer :
          pending[i].id = toServer[k].id => toServer[k].request.type \in {"query", "execute"}

\* Answers come in the order of the messages, ReadyForQuery last of its message's,
\* and after an error.
AnsweredInOrder ==
    /\ \A j \in DOMAIN Coming : Coming[j].id <= Served
    /\ \A j, k \in DOMAIN Coming :
          j < k /\ Coming[j].type = "ready" => Coming[j].id < Coming[k].id
    /\ \A j \in DOMAIN Coming :
          Coming[j].type = "error" =>
             skipping \/ \E k \in DOMAIN Coming : j < k /\ Coming[k].type = "ready"

\* What asks for a ReadyForQuery that was not seen yet is not answered yet.
NotAnswered ==
    /\ \A k \in DOMAIN toServer : Asks(toServer[k].request) => answered < toServer[k].id
    /\ \A j \in DOMAIN Coming : Coming[j].type = "ready" => answered < Coming[j].id

\* In step: what is queued was sent before the next ReadyForQuery was asked for.
BeforeReady ==
    /\ \A i \in DOMAIN pending, k \in DOMAIN toServer :
          Asks(toServer[k].request) =>
             \/ pending[i].id < toServer[k].id
             \/ pending[i].id = toServer[k].id /\ toServer[k].request.type = "query"
    /\ \A i \in DOMAIN pending, j \in DOMAIN Coming :
          Coming[j].type = "ready" => pending[i].id <= Coming[j].id

CompletedUpTo(i) == i \in DOMAIN Coming /\ \A k \in 1..i : Coming[k].type = "complete"

\* In step: each completion finds its event at the head of the queue, after an
\* error the server skips what is left of it.
Matched ==
    /\ \A j \in DOMAIN Coming :
          Coming[j].type = "complete" =>
             /\ j \in DOMAIN pending /\ pending[j].id = Coming[j].id
             /\ outcome[pending[j].id] = "ok"
    /\ \A i \in DOMAIN pending :
          /\ outcome[pending[i].id] = "ok" => CompletedUpTo(i)
          /\ outcome[pending[i].id] = "failed" =>
                /\ i \in DOMAIN Coming /\ Coming[i].type = "error"
                /\ \A k \in 1..(i-1) : Coming[k].type = "complete"
          /\ outcome[pending[i].id] \in {"failed", "skipped"} =>
                skipping \/ \E j \in DOMAIN Coming : Coming[j].type = "ready"

\* In step: a Query has its event, unless the server is going to skip it.
QueriesQueued ==
    \A k \in DOMAIN toServer :
        toServer[k].request.type = "query" =>
           \/ Queued(toServer[k].id)
           \/ skipping /\ \A l \in 1..(k-1) : toServer[l].request.type # "sync"

InStep == regular => BeforeReady /\ Matched /\ QueriesQueued

\* What was written in step stays true.
Skipped(id) ==
    /\ outcome[id] = "none" /\ skipping
    /\ \A k \in DOMAIN toServer : toServer[k].request.type = "sync" => id < toServer[k].id
WrittenTrue ==
    \A e \in log :
        LET became == outcome[e.event.id]
        IN e.regular =>
              /\ e.result = "ok" => became = "ok"
              /\ e.result = "failed" => became \in {"failed", "skipped"} \/ Skipped(e.event.id)
              /\ e.result = "neutral" => became = "skipped"

AuditInv ==
    IInv /\ ReadInOrder /\ AnsweredInOrder /\ NotAnswered /\ InStep /\ WrittenTrue

LEMMA ComingIs ==
    ASSUME TypeOK
    PROVE  /\ Coming \in Seq(Answers) /\ Len(Coming) \in Nat /\ DOMAIN Coming = 1..Len(Coming)
           /\ \A j \in DOMAIN Coming : Coming[j].id \in Nat
           /\ toServer \in Seq([id : Ids, request : Requests])
           /\ Len(toServer) \in Nat /\ DOMAIN toServer = 1..Len(toServer)
           /\ pending \in Seq(Events) /\ Len(pending) \in Nat
           /\ DOMAIN pending = 1..Len(pending)
           /\ \A i \in DOMAIN pending : pending[i].id \in Ids
           /\ Served \in Int
           /\ \A k \in DOMAIN toServer : toServer[k].id \in Ids /\ toServer[k].request \in Requests
           /\ \A id \in Ids : id \in Nat
  <1>1. Coming \in Seq(Answers)
      BY DEF TypeOK, Coming
  <1>2. \A a \in Answers : a.id \in Nat
      BY BoundsType DEF Answers, Ids
  <1>3. \A S, s, i : s \in Seq(S) /\ i \in DOMAIN s => s[i] \in S
      OBVIOUS
  <1>4. \A j \in DOMAIN Coming : Coming[j].id \in Nat
      BY <1>1, <1>2, <1>3
  <1>5. toServer \in Seq([id : Ids, request : Requests]) /\ pending \in Seq(Events)
      BY DEF TypeOK
  <1>6. /\ \A k \in DOMAIN toServer : toServer[k] \in [id : Ids, request : Requests]
        /\ \A i \in DOMAIN pending : pending[i] \in Events
      BY <1>3, <1>5
  <1>7. Served \in Int
      BY <1>5, BoundsType DEF Served, TypeOK
  <1>8. \A id \in Ids : id \in Nat
      BY BoundsType DEF Ids
  <1> QED BY <1>1, <1>4, <1>5, <1>6, <1>7, <1>8 DEF Events

LEMMA Concatenated ==
    ASSUME NEW S, NEW a \in Seq(S), NEW b \in Seq(S)
    PROVE  /\ Len(a \o b) = Len(a) + Len(b) /\ Len(a) \in Nat /\ Len(b) \in Nat
           /\ DOMAIN a = 1..Len(a) /\ DOMAIN b = 1..Len(b) /\ DOMAIN (a \o b) = 1..Len(a \o b)
           /\ \A j \in DOMAIN a : j \in DOMAIN (a \o b) /\ (a \o b)[j] = a[j]
           /\ \A j \in DOMAIN (a \o b) :
                 \/ j \in DOMAIN a /\ (a \o b)[j] = a[j]
                 \/ j - Len(a) \in DOMAIN b /\ (a \o b)[j] = b[j - Len(a)]
           /\ \A i \in DOMAIN b :
                 Len(a) + i \in DOMAIN (a \o b) /\ (a \o b)[Len(a) + i] = b[i]
  <1> DEFINE c == a \o b
  <1>1. /\ Len(c) = Len(a) + Len(b) /\ Len(a) \in Nat /\ Len(b) \in Nat
        /\ DOMAIN a = 1..Len(a) /\ DOMAIN b = 1..Len(b) /\ DOMAIN c = 1..Len(c)
      OBVIOUS
  <1>2. \A j \in 1..(Len(a) + Len(b)) : c[j] = IF j <= Len(a) THEN a[j] ELSE b[j - Len(a)]
      BY ConcatProperties
  <1> HIDE DEF c
  <1>3. /\ \A j \in DOMAIN a : j \in DOMAIN c /\ c[j] = a[j]
        /\ \A j \in DOMAIN c : \/ j \in DOMAIN a /\ c[j] = a[j]
                               \/ j - Len(a) \in DOMAIN b /\ c[j] = b[j - Len(a)]
        /\ \A i \in DOMAIN b : Len(a) + i \in DOMAIN c /\ c[Len(a) + i] = b[i]
      BY <1>1, <1>2
  <1> QED BY <1>1, <1>3 DEF c

LEMMA Regrouped ==
    ASSUME NEW S, NEW a \in Seq(S), NEW b \in Seq(S), NEW c \in Seq(S)
    PROVE  a \o (b \o c) = (a \o b) \o c
  <1>1. /\ a \o (b \o c) \in Seq(S) /\ (a \o b) \o c \in Seq(S)
        /\ Len(a \o (b \o c)) = Len((a \o b) \o c)
      OBVIOUS
  <1>2. \A i \in 1..Len(a \o (b \o c)) : (a \o (b \o c))[i] = ((a \o b) \o c)[i]
      OBVIOUS
  <1> QED BY <1>1, <1>2, SeqEqual

LEMMA ComingAfterServe ==
    ASSUME TypeOK, TypeOK', ReadInOrder, toServer # <<>>, NEW m, m = Head(toServer),
           NEW answers \in Seq({"complete", "error", "ready"}), Serve(m, answers)
    PROVE  /\ 1 \in DOMAIN toServer /\ m = toServer[1] /\ m.id = Served + 1 /\ m.id \in Ids
           /\ Served' = Served + 1
           /\ \A k \in DOMAIN toServer' :
                 k + 1 \in DOMAIN toServer /\ toServer'[k] = toServer[k + 1]
           /\ \A k \in DOMAIN toServer :
                 k = 1 \/ (k - 1 \in DOMAIN toServer' /\ toServer'[k - 1] = toServer[k])
           /\ Len(Coming') = Len(Coming) + Len(answers)
           /\ \A j \in DOMAIN Coming : j \in DOMAIN Coming' /\ Coming'[j] = Coming[j]
           /\ \A j \in DOMAIN Coming' :
                 \/ j \in DOMAIN Coming /\ Coming'[j] = Coming[j]
                 \/ /\ j - Len(Coming) \in DOMAIN answers
                    /\ Coming'[j] = [type |-> answers[j - Len(Coming)], id |-> m.id]
           /\ \A i \in DOMAIN answers :
                 /\ Len(Coming) + i \in DOMAIN Coming'
                 /\ Coming'[Len(Coming) + i] = [type |-> answers[i], id |-> m.id]
  <1> DEFINE new == [i \in 1..Len(answers) |-> [type |-> answers[i], id |-> m.id]]
  <1>0. /\ toServer' = Tail(toServer) /\ toProxy' = toProxy \o new
        /\ inHand' = inHand /\ sent' = sent
      BY DEF Serve, frontend
  <1>1. /\ toServer \in Seq([id : Ids, request : Requests]) /\ toServer' \in Seq([id : Ids, request : Requests])
        /\ toProxy \in Seq(Answers) /\ toProxy' \in Seq(Answers) /\ inHand \in Seq(Answers)
        /\ sent \in Nat
      BY BoundsType DEF TypeOK
  <1>2. /\ Len(toServer) \in Nat \ {0} /\ Len(toServer') = Len(toServer) - 1
        /\ \A k \in 1..Len(toServer') : toServer'[k] = toServer[k + 1]
        /\ Head(toServer) = toServer[1]
      BY <1>0, <1>1, EmptySeq, HeadTailProperties
  <1>3. 1 \in DOMAIN toServer /\ m = toServer[1] /\ m.id = Served + 1 /\ m.id \in Ids
    <2>1. 1 \in DOMAIN toServer /\ m = toServer[1]
        BY <1>2
    <2> QED BY <2>1, ComingIs DEF ReadInOrder
  <1>4. Served' = Served + 1
      BY <1>0, <1>1, <1>2 DEF Served
  <1>5. new \in Seq(Answers) /\ Len(new) = Len(answers)
        /\ \A i \in DOMAIN answers : i \in DOMAIN new /\ new[i] = [type |-> answers[i], id |-> m.id]
      BY <1>3 DEF Answers
  <1> HIDE DEF new
  <1>6. Coming \in Seq(Answers)
      BY ComingIs
  <1>7. Coming' = Coming \o new
    <2>1. Coming' = inHand \o (toProxy \o new)
        BY <1>0 DEF Coming
    <2>2. inHand \o (toProxy \o new) = (inHand \o toProxy) \o new
        BY <1>1, <1>5, Regrouped, SMTT(30)
    <2> QED BY <2>1, <2>2 DEF Coming
  <1>8. DOMAIN new = DOMAIN answers
      BY <1>5
  <1>10. \A k \in DOMAIN toServer' :
                 k + 1 \in DOMAIN toServer /\ toServer'[k] = toServer[k + 1]
      BY <1>1, <1>2, SMTT(30)
  <1>11. \A k \in DOMAIN toServer :
                 k = 1 \/ (k - 1 \in DOMAIN toServer' /\ toServer'[k - 1] = toServer[k])
      BY <1>1, <1>2
  <1>12. /\ Len(Coming') = Len(Coming) + Len(new)
         /\ \A j \in DOMAIN Coming : j \in DOMAIN Coming' /\ Coming'[j] = Coming[j]
         /\ \A j \in DOMAIN Coming' :
              \/ j \in DOMAIN Coming /\ Coming'[j] = Coming[j]
              \/ j - Len(Coming) \in DOMAIN new /\ Coming'[j] = new[j - Len(Coming)]
         /\ \A i \in DOMAIN new :
              Len(Coming) + i \in DOMAIN Coming' /\ Coming'[Len(Coming) + i] = new[i]
    <2>1. /\ Len(Coming \o new) = Len(Coming) + Len(new)
          /\ \A j \in DOMAIN Coming :
                j \in DOMAIN (Coming \o new) /\ (Coming \o new)[j] = Coming[j]
          /\ \A j \in DOMAIN (Coming \o new) :
              \/ j \in DOMAIN Coming /\ (Coming \o new)[j] = Coming[j]
              \/ j - Len(Coming) \in DOMAIN new /\ (Coming \o new)[j] = new[j - Len(Coming)]
          /\ \A i \in DOMAIN new :
              /\ Len(Coming) + i \in DOMAIN (Coming \o new)
              /\ (Coming \o new)[Len(Coming) + i] = new[i]
      <3>1. new \in Seq(Answers)
          BY <1>5
      <3> QED BY <1>6, <3>1, Concatenated
    <2> QED BY <1>7, <2>1, Zenon
  <1>13. \A i \in DOMAIN answers : new[i] = [type |-> answers[i], id |-> m.id]
      BY <1>5
  <1>14. \A j \in DOMAIN Coming' :
                 \/ j \in DOMAIN Coming /\ Coming'[j] = Coming[j]
                 \/ /\ j - Len(Coming) \in DOMAIN answers
                    /\ Coming'[j] = [type |-> answers[j - Len(Coming)], id |-> m.id]
      BY <1>8, <1>12, <1>13
  <1>15. \A i \in DOMAIN answers :
                 /\ Len(Coming) + i \in DOMAIN Coming'
                 /\ Coming'[Len(Coming) + i] = [type |-> answers[i], id |-> m.id]
      BY <1>8, <1>12, <1>13
  <1> QED BY <1>3, <1>4, <1>5, <1>10, <1>11, <1>12, <1>14, <1>15

LEMMA ComingAfterDeliver ==
    ASSUME TypeOK, Deliver
    PROVE  Coming' = Coming
  <1>1. toProxy \in Seq(Answers) /\ toProxy # <<>> /\ inHand = <<>>
        /\ inHand' = <<Head(toProxy)>> /\ toProxy' = Tail(toProxy)
      BY DEF TypeOK, Deliver
  <1>2. Coming = toProxy
      BY <1>1, ConcatEmptySeq DEF Coming
  <1>3. <<Head(toProxy)>> \o Tail(toProxy) = toProxy
      BY <1>1
  <1> QED BY <1>1, <1>2, <1>3 DEF Coming

LEMMA ComingAfterObserve ==
    ASSUME TypeOK, TypeOK', Observe
    PROVE  /\ 1 \in DOMAIN Coming /\ Head(inHand) = Coming[1]
           /\ Len(Coming') = Len(Coming) - 1
           /\ \A j \in DOMAIN Coming' : j + 1 \in DOMAIN Coming /\ Coming'[j] = Coming[j + 1]
           /\ \A j \in DOMAIN Coming :
                 j = 1 \/ (j - 1 \in DOMAIN Coming' /\ Coming'[j - 1] = Coming[j])
  <1>1. toProxy \in Seq(Answers) /\ inHand \in Seq(Answers) /\ Len(inHand) = 1
        /\ inHand' = <<>> /\ toProxy' = toProxy
    <2>1. inHand \in Seq(Answers) /\ inHand # <<>> /\ Len(inHand) <= 1
        BY DEF TypeOK, Observe
    <2>2. Len(inHand) \in Nat
        BY <2>1
    <2>3. Len(inHand) # 0
        BY <2>1
    <2>4. \A n \in Nat : n <= 1 /\ n # 0 => n = 1
        OBVIOUS
    <2>5. Len(inHand) = 1
        BY <2>1, <2>2, <2>3, <2>4, Zenon
    <2> QED BY <2>1, <2>5 DEF TypeOK, Observe
  <1>2. Coming' = toProxy
      BY <1>1, ConcatEmptySeq DEF Coming
  <1>3. Head(inHand) = inHand[1]
      BY <1>1
  <1>4. /\ Len(Coming) = 1 + Len(toProxy)
        /\ \A j \in DOMAIN Coming : \/ j \in DOMAIN inHand /\ Coming[j] = inHand[j]
                                    \/ j - 1 \in DOMAIN toProxy /\ Coming[j] = toProxy[j - 1]
        /\ \A j \in DOMAIN inHand : j \in DOMAIN Coming /\ Coming[j] = inHand[j]
        /\ \A j \in DOMAIN toProxy : 1 + j \in DOMAIN Coming /\ Coming[1 + j] = toProxy[j]
        /\ DOMAIN inHand = 1..1 /\ DOMAIN toProxy = 1..Len(toProxy) /\ Len(toProxy) \in Nat
        /\ DOMAIN Coming = 1..Len(Coming)
      BY <1>1, Concatenated DEF Coming
  <1> QED BY <1>2, <1>3, <1>4

\* The answer to a queued request is the next one its event waits for.
LEMMA ItsTurn ==
    ASSUME AuditInv, regular, ~skipping, toServer # <<>>, NEW i \in DOMAIN pending,
           pending[i].id = toServer[1].id
    PROVE  /\ Len(Coming) = i - 1
           /\ \A j \in DOMAIN Coming : Coming[j].type = "complete"
  <1>1. TypeOK /\ ReadInOrder /\ AnsweredInOrder /\ BeforeReady /\ Matched /\ AuditedInOrder
      BY DEF AuditInv, IInv, InStep
  <1>2. 1 \in DOMAIN toServer /\ toServer[1].id = Served + 1
      BY <1>1, ComingIs, EmptySeq DEF ReadInOrder
  <1>3. \A j \in DOMAIN Coming : Coming[j].type # "ready"
    <2> SUFFICES ASSUME NEW j \in DOMAIN Coming, Coming[j].type = "ready" PROVE FALSE
        OBVIOUS
    <2>1. pending[i].id <= Coming[j].id /\ Coming[j].id <= Served
        BY <1>1 DEF BeforeReady, AnsweredInOrder
    <2>2. Coming[j].id \in Nat /\ Served \in Int
        BY <1>1, ComingIs
    <2> QED BY <1>2, <2>1, <2>2
  <1>4. \A j \in DOMAIN Coming : Coming[j].type = "complete"
    <2>1. \A j \in DOMAIN Coming : Coming[j].type # "error"
        BY <1>1, <1>3 DEF AnsweredInOrder
    <2>2. \A j \in DOMAIN Coming : Coming[j] \in Answers
        BY <1>1, ComingIs, ElementOfSeq
    <2> QED BY <1>3, <2>1, <2>2 DEF Answers
  <1>5. i \notin DOMAIN Coming
    <2> SUFFICES ASSUME i \in DOMAIN Coming PROVE FALSE
        OBVIOUS
    <2>1. pending[i].id = Coming[i].id /\ Coming[i].id <= Served
        BY <1>1, <1>4 DEF Matched, AnsweredInOrder
    <2>2. Coming[i].id \in Nat /\ Served \in Int
        BY <1>1, ComingIs
    <2> QED BY <1>2, <2>1, <2>2
  <1>6. ASSUME NEW j \in DOMAIN pending, j < i PROVE j \in DOMAIN Coming
    <2>1. pending[j].id < pending[i].id
        BY <1>1, <1>6 DEF AuditedInOrder
    <2>2. outcome[pending[j].id] # "none"
        BY <1>1, <1>2, <2>1, ComingIs DEF ReadInOrder
    <2>3. outcome[pending[j].id] \notin {"failed", "skipped"}
        BY <1>1, <1>3 DEF Matched
    <2>4. outcome[pending[j].id] \in Outcomes
        BY <1>1, ComingIs DEF TypeOK
    <2> QED BY <1>1, <2>2, <2>3, <2>4 DEF Matched, CompletedUpTo, Outcomes
  <1>7. Len(Coming) = i - 1
    <2>1. /\ Len(Coming) \in Nat /\ DOMAIN Coming = 1..Len(Coming)
          /\ Len(pending) \in Nat /\ DOMAIN pending = 1..Len(pending)
        BY <1>1, ComingIs
    <2>2. Len(Coming) < i
        BY <1>5, <2>1
    <2>3. i = 1 \/ i - 1 \in DOMAIN Coming
      <3>1. i = 1 \/ (i - 1 \in DOMAIN pending /\ i - 1 < i)
          BY <2>1
      <3> QED BY <1>6, <3>1
    <2> QED BY <2>1, <2>2, <2>3
  <1> QED BY <1>4, <1>7

\* What the server does with a message but for the matching of its answers.
LEMMA Answering ==
    ASSUME AuditInv, IInv', toServer # <<>>, NEW m, m = Head(toServer),
           NEW answers \in Seq({"complete", "error", "ready"}), Serve(m, answers),
           NEW result \in Outcomes \ {"none"}, NEW text, Becomes(m, result, text),
           \A i \in DOMAIN answers :
              answers[i] = "ready" => Asks(m.request) /\ i = Len(answers),
           \A i \in DOMAIN answers :
              answers[i] = "error" =>
                 \/ skipping'
                 \/ \E j \in DOMAIN answers : i < j /\ answers[j] = "ready",
           skipping => \/ skipping' /\ result = "skipped" /\ m.request.type # "sync"
                       \/ /\ m.request.type = "sync"
                          /\ \E j \in DOMAIN answers : answers[j] = "ready",
           regular' => regular /\ Matched'
    PROVE  AuditInv'
  <1>1. /\ TypeOK /\ TypeOK' /\ ReadInOrder /\ AnsweredInOrder /\ NotAnswered /\ WrittenTrue
        /\ EventsOK
      BY DEF AuditInv, IInv
  <1>2. /\ 1 \in DOMAIN toServer /\ m = toServer[1] /\ m.id = Served + 1 /\ m.id \in Ids
        /\ Served' = Served + 1
        /\ \A k \in DOMAIN toServer' : k + 1 \in DOMAIN toServer /\ toServer'[k] = toServer[k + 1]
        /\ \A j \in DOMAIN Coming : j \in DOMAIN Coming' /\ Coming'[j] = Coming[j]
        /\ \A j \in DOMAIN Coming' :
              \/ j \in DOMAIN Coming /\ Coming'[j] = Coming[j]
              \/ /\ j - Len(Coming) \in DOMAIN answers
                 /\ Coming'[j] = [type |-> answers[j - Len(Coming)], id |-> m.id]
        /\ \A i \in DOMAIN answers :
              /\ Len(Coming) + i \in DOMAIN Coming'
              /\ Coming'[Len(Coming) + i] = [type |-> answers[i], id |-> m.id]
      BY <1>1, ComingAfterServe
  <1>3. /\ UNCHANGED <<pending, log, sent, answered>>
        /\ \A id \in Ids : id # m.id => outcome'[id] = outcome[id]
        /\ outcome'[m.id] = result /\ result # "none" /\ result \in Outcomes
      BY <1>1, <1>2 DEF Serve, frontend, audit, Becomes, TypeOK
  <1>4. /\ Len(Coming) \in Nat /\ DOMAIN Coming = 1..Len(Coming) /\ Served \in Int
        /\ DOMAIN Coming' = 1..Len(Coming') /\ Len(Coming') \in Nat
        /\ Len(answers) \in Nat /\ DOMAIN answers = 1..Len(answers)
        /\ \A j \in DOMAIN Coming : Coming[j].id \in Nat
        /\ DOMAIN pending = 1..Len(pending)
        /\ \A i \in DOMAIN pending : pending[i].id \in Ids
        /\ DOMAIN toServer = 1..Len(toServer) /\ Len(toServer) \in Nat
        /\ DOMAIN toServer' = 1..Len(toServer') /\ Len(toServer') \in Nat
        /\ \A k \in DOMAIN toServer : toServer[k].id \in Ids
        /\ \A id \in Ids : id \in Nat
      BY <1>1, ComingIs
  <1>a. \A i \in DOMAIN answers :
           Len(Coming) + i \in DOMAIN Coming' /\ Coming'[Len(Coming) + i].type = answers[i]
    <2> TAKE i \in DOMAIN answers
    <2>1. Coming'[Len(Coming) + i] = [type |-> answers[i], id |-> m.id]
        BY <1>2
    <2> QED BY <1>2, <2>1
  <1>5. ReadInOrder'
    <2>1. \A k \in DOMAIN toServer' : toServer'[k].id = Served' + k
        BY <1>1, <1>2, <1>4 DEF ReadInOrder
    <2>2. \A id \in Ids : outcome'[id] = "none" <=> id > Served'
      <3>1. \A id \in Ids : id > Served' <=> id # m.id /\ id > Served
          BY <1>2, <1>4
      <3>2. \A id \in Ids : outcome[id] = "none" <=> id > Served
          BY <1>1 DEF ReadInOrder
      <3> QED BY <1>3, <3>1, <3>2
    <2>3. \A i \in DOMAIN pending', k \in DOMAIN toServer' :
             pending'[i].id = toServer'[k].id => toServer'[k].request.type \in {"query", "execute"}
        BY <1>1, <1>2, <1>3 DEF ReadInOrder
    <2> QED BY <2>1, <2>2, <2>3 DEF ReadInOrder
  <1>6. AnsweredInOrder'
    <2>1. \A j \in DOMAIN Coming' : Coming'[j].id <= Served'
        BY <1>1, <1>2, <1>4 DEF AnsweredInOrder
    <2>2. ASSUME NEW j \in DOMAIN Coming', NEW k \in DOMAIN Coming', j < k,
                 Coming'[j].type = "ready"
          PROVE  Coming'[j].id < Coming'[k].id
      <3>1. CASE j \in DOMAIN Coming /\ k \in DOMAIN Coming
          BY <1>1, <1>2, <2>2, <3>1 DEF AnsweredInOrder
      <3>2. CASE j \in DOMAIN Coming /\ k \notin DOMAIN Coming
        <4>1. Coming'[j] = Coming[j] /\ Coming[j].id <= Served /\ Coming'[k].id = m.id
            BY <1>1, <1>2, <3>2 DEF AnsweredInOrder
        <4> QED BY <1>2, <1>4, <3>2, <4>1
      <3>3. CASE j \notin DOMAIN Coming
        <4>1. j - Len(Coming) \in DOMAIN answers /\ answers[j - Len(Coming)] = "ready"
            BY <1>2, <2>2, <3>3
        <4>2. j - Len(Coming) = Len(answers)
            BY <4>1
        <4>3. k \notin DOMAIN Coming /\ k - Len(Coming) \in DOMAIN answers
            BY <1>2, <1>4, <2>2, <3>3
        <4> QED BY <1>4, <2>2, <4>2, <4>3
      <3> QED BY <3>1, <3>2, <3>3
    <2>3. ASSUME NEW j \in DOMAIN Coming', Coming'[j].type = "error"
          PROVE  skipping' \/ \E k \in DOMAIN Coming' : j < k /\ Coming'[k].type = "ready"
      <3>1. CASE j \in DOMAIN Coming
        <4>1. skipping \/ \E k \in DOMAIN Coming : j < k /\ Coming[k].type = "ready"
            BY <1>1, <1>2, <2>3, <3>1 DEF AnsweredInOrder
        <4>2. CASE \E k \in DOMAIN Coming : j < k /\ Coming[k].type = "ready"
            BY <1>2, <4>2
        <4>3. CASE skipping /\ ~skipping'
          <5>1. PICK i \in DOMAIN answers : answers[i] = "ready"
              BY <4>3
          <5>2. Len(Coming) + i \in DOMAIN Coming' /\ Coming'[Len(Coming) + i].type = "ready"
              BY <1>a, <5>1
          <5>3. j < Len(Coming) + i
              BY <1>4, <3>1
          <5> QED BY <5>2, <5>3
        <4> QED BY <4>1, <4>2, <4>3
      <3>2. CASE j \notin DOMAIN Coming /\ ~skipping'
        <4>1. j - Len(Coming) \in DOMAIN answers /\ answers[j - Len(Coming)] = "error"
            BY <1>2, <2>3, <3>2
        <4>2. PICK i \in DOMAIN answers : j - Len(Coming) < i /\ answers[i] = "ready"
            BY <3>2, <4>1
        <4>3. Len(Coming) + i \in DOMAIN Coming' /\ Coming'[Len(Coming) + i].type = "ready"
            BY <1>a, <4>2
        <4>4. j < Len(Coming) + i
            BY <1>4, <4>2
        <4> QED BY <4>3, <4>4
      <3> QED BY <3>1, <3>2
    <2> QED BY <2>1, <2>2, <2>3 DEF AnsweredInOrder
  <1>7. NotAnswered'
    <2>1. Asks(m.request) => answered < m.id
        BY <1>1, <1>2 DEF NotAnswered
    <2>2. \A k \in DOMAIN toServer' :
             Asks(toServer'[k].request) => answered' < toServer'[k].id
        BY <1>1, <1>2, <1>3 DEF NotAnswered
    <2>3. \A j \in DOMAIN Coming' : Coming'[j].type = "ready" => answered' < Coming'[j].id
        BY <1>1, <1>2, <1>3, <2>1 DEF NotAnswered
    <2> QED BY <2>2, <2>3 DEF NotAnswered
  <1>8. InStep'
    <2> SUFFICES ASSUME regular' PROVE BeforeReady' /\ Matched' /\ QueriesQueued'
        BY DEF InStep
    <2>1. BeforeReady /\ QueriesQueued
        BY DEF AuditInv, InStep
    <2>2. BeforeReady'
      <3>1. \A i \in DOMAIN pending : Asks(m.request) => pending[i].id <= m.id
          BY <1>2, <1>4, <2>1, SMTT(30) DEF BeforeReady
      <3>2. \A i \in DOMAIN pending', j \in DOMAIN Coming' :
               Coming'[j].type = "ready" => pending'[i].id <= Coming'[j].id
          BY <1>2, <1>3, <2>1, <3>1 DEF BeforeReady
      <3>3. \A i \in DOMAIN pending', k \in DOMAIN toServer' :
               Asks(toServer'[k].request) =>
                  \/ pending'[i].id < toServer'[k].id
                  \/ pending'[i].id = toServer'[k].id /\ toServer'[k].request.type = "query"
          BY <1>2, <1>3, <2>1 DEF BeforeReady
      <3> QED BY <3>2, <3>3 DEF BeforeReady
    <2>3. ASSUME NEW k \in DOMAIN toServer', toServer'[k].request.type = "query"
          PROVE  \/ \E i \in DOMAIN pending' : pending'[i].id = toServer'[k].id
                 \/ skipping' /\ \A l \in 1..(k - 1) : toServer'[l].request.type # "sync"
      <3>1. k + 1 \in DOMAIN toServer /\ toServer'[k] = toServer[k + 1]
          BY <1>2
      <3>3. CASE Queued(toServer[k + 1].id)
          BY <1>3, <3>1, <3>3 DEF Queued
      <3>4. CASE skipping /\ \A l \in 1..k : toServer[l].request.type # "sync"
        <4>1. m.request.type # "sync"
            BY <1>2, <1>4, <3>4
        <4>2. \A l \in 1..(k - 1) : l \in DOMAIN toServer' /\ l + 1 \in 1..k
            BY <1>4
        <4> QED BY <1>2, <3>4, <4>1, <4>2
      <3>5. (k + 1) - 1 = k
          BY <1>4
      <3> QED BY <2>1, <2>3, <3>1, <3>3, <3>4, <3>5 DEF QueriesQueued
    <2>4. QueriesQueued'
        BY <2>3 DEF QueriesQueued, Queued
    <2>5. Matched'
        OBVIOUS
    <2> QED BY <2>2, <2>4, <2>5
  <1>9. WrittenTrue'
    <2> SUFFICES ASSUME NEW e \in log, e.regular
                 PROVE  LET became == outcome'[e.event.id]
                        IN /\ e.result = "ok" => became = "ok"
                           /\ e.result = "failed" =>
                                 became \in {"failed", "skipped"} \/ Skipped(e.event.id)'
                           /\ e.result = "neutral" => became = "skipped"
        BY <1>3 DEF WrittenTrue
    <2>1. e.event.id \in Ids
        BY <1>1 DEF TypeOK, Events
    <2>2. CASE outcome[e.event.id] # "none"
      <3>1. m.id > Served
          BY <1>2, <1>4
      <3>2. e.event.id # m.id
          BY <1>1, <1>2, <2>2, <3>1 DEF ReadInOrder
      <3>3. outcome'[e.event.id] = outcome[e.event.id]
          BY <1>3, <2>1, <3>2
      <3> QED BY <1>1, <2>2, <3>3 DEF WrittenTrue, Skipped
    <2>3. CASE outcome[e.event.id] = "none"
      <3>1. e.result \notin {"ok", "neutral"}
          BY <1>1, <2>3 DEF WrittenTrue
      <3>2. CASE e.result = "failed"
        <4>1. /\ skipping
              /\ \A k \in DOMAIN toServer :
                    toServer[k].request.type = "sync" => e.event.id < toServer[k].id
            BY <1>1, <2>3, <3>2 DEF WrittenTrue, Skipped
        <4>2. e.event.id > Served
            BY <1>1, <2>1, <2>3 DEF ReadInOrder
        <4>3. m.request.type # "sync"
            BY <1>2, <1>4, <2>1, <4>1, <4>2
        <4>4. skipping' /\ result = "skipped"
            BY <4>1, <4>3
        <4>5. CASE e.event.id = m.id
            BY <1>3, <2>1, <3>1, <4>4, <4>5
        <4>6. CASE e.event.id # m.id
          <5>1. outcome'[e.event.id] = "none"
              BY <1>3, <2>1, <2>3, <4>6
          <5>2. Skipped(e.event.id)'
              BY <1>2, <1>3, <4>1, <4>4, <5>1 DEF Skipped
          <5> QED BY <3>1, <5>2
        <4> QED BY <4>5, <4>6
      <3> QED BY <3>1, <3>2
    <2> QED BY <2>2, <2>3
  <1> QED BY <1>5, <1>6, <1>7, <1>8, <1>9 DEF AuditInv

\* An answer that no event waits for.
LEMMA MatchedAside ==
    ASSUME AuditInv, IInv', regular, toServer # <<>>, NEW m, m = Head(toServer),
           NEW answers \in Seq({"complete", "error", "ready"}), Serve(m, answers),
           NEW result \in Outcomes \ {"none"}, NEW text, Becomes(m, result, text),
           \A i \in DOMAIN answers : answers[i] # "complete",
           result \in {"failed", "skipped"} => skipping',
           skipping => skipping' \/ \E i \in DOMAIN answers : answers[i] = "ready",
           Queued(m.id) => result = "skipped"
    PROVE  Matched'
  <1>1. TypeOK /\ TypeOK' /\ ReadInOrder /\ Matched
      BY DEF AuditInv, IInv, InStep
  <1>2. /\ m.id \in Ids /\ m.id = Served + 1
        /\ \A j \in DOMAIN Coming : j \in DOMAIN Coming' /\ Coming'[j] = Coming[j]
        /\ \A j \in DOMAIN Coming' :
              \/ j \in DOMAIN Coming /\ Coming'[j] = Coming[j]
              \/ /\ j - Len(Coming) \in DOMAIN answers
                 /\ Coming'[j] = [type |-> answers[j - Len(Coming)], id |-> m.id]
        /\ \A i \in DOMAIN answers :
              /\ Len(Coming) + i \in DOMAIN Coming'
              /\ Coming'[Len(Coming) + i] = [type |-> answers[i], id |-> m.id]
      BY <1>1, ComingAfterServe
  <1>3. /\ pending' = pending
        /\ \A id \in Ids : id # m.id => outcome'[id] = outcome[id]
        /\ outcome'[m.id] = result
        /\ \A i \in DOMAIN pending : pending[i].id \in Ids
        /\ DOMAIN Coming = 1..Len(Coming) /\ Len(Coming) \in Nat
        /\ DOMAIN Coming' = 1..Len(Coming') /\ Len(Coming') \in Nat
      BY <1>1, <1>2, ComingIs, SMTT(30) DEF Serve, audit, Becomes, TypeOK
  <1>4. ASSUME NEW i \in DOMAIN answers
        PROVE  Len(Coming) + i \in DOMAIN Coming' /\ Coming'[Len(Coming) + i].type = answers[i]
    <2>1. Coming'[Len(Coming) + i] = [type |-> answers[i], id |-> m.id]
        BY <1>2
    <2> QED BY <1>2, <2>1
  <1>5. \A j \in DOMAIN Coming' :
           Coming'[j].type = "complete" => j \in DOMAIN Coming /\ Coming'[j] = Coming[j]
    <2> TAKE j \in DOMAIN Coming'
    <2>1. CASE j \notin DOMAIN Coming
      <3>1. /\ j - Len(Coming) \in DOMAIN answers
            /\ Coming'[j] = [type |-> answers[j - Len(Coming)], id |-> m.id]
          BY <1>2, <2>1
      <3> QED BY <3>1
    <2> QED BY <1>2, <2>1
  <1>6. m.id > Served /\ outcome[m.id] = "none"
      BY <1>1, <1>2, ComingIs DEF ReadInOrder
  <1>7. ASSUME NEW j \in DOMAIN Coming', Coming'[j].type = "complete"
        PROVE  /\ j \in DOMAIN pending' /\ pending'[j].id = Coming'[j].id
               /\ outcome'[pending'[j].id] = "ok"
    <2>1. /\ j \in DOMAIN pending /\ pending[j].id = Coming[j].id
          /\ outcome[pending[j].id] = "ok" /\ Coming'[j] = Coming[j]
        BY <1>1, <1>5, <1>7 DEF Matched
    <2> QED BY <1>3, <1>6, <2>1
  <1>8. ASSUME NEW i \in DOMAIN pending'
        PROVE  /\ outcome'[pending'[i].id] = "ok" => CompletedUpTo(i)'
               /\ outcome'[pending'[i].id] = "failed" =>
                     /\ i \in DOMAIN Coming' /\ Coming'[i].type = "error"
                     /\ \A k \in 1..(i-1) : Coming'[k].type = "complete"
               /\ outcome'[pending'[i].id] \in {"failed", "skipped"} =>
                     skipping' \/ \E j \in DOMAIN Coming' : Coming'[j].type = "ready"
    <2>1. CASE pending[i].id = m.id
      <3>1. outcome'[pending'[i].id] = "skipped"
          BY <1>3, <1>8, <2>1 DEF Queued
      <3> QED BY <1>3, <2>1, <3>1
    <2>2. CASE pending[i].id # m.id
      <3>1. outcome'[pending'[i].id] = outcome[pending[i].id] /\ i \in DOMAIN pending
          BY <1>3, <1>8, <2>2
      <3>2. outcome[pending[i].id] = "ok" => CompletedUpTo(i)'
        <4>1. ASSUME CompletedUpTo(i) PROVE CompletedUpTo(i)'
          <5>1. \A k \in 1..i : k \in DOMAIN Coming
              BY <1>3, <4>1 DEF CompletedUpTo
          <5> QED BY <1>2, <4>1, <5>1 DEF CompletedUpTo
        <4> QED BY <1>1, <3>1, <4>1 DEF Matched
      <3>3. outcome[pending[i].id] = "failed" =>
                     /\ i \in DOMAIN Coming' /\ Coming'[i].type = "error"
                     /\ \A k \in 1..(i-1) : Coming'[k].type = "complete"
        <4> SUFFICES ASSUME outcome[pending[i].id] = "failed"
                     PROVE  /\ i \in DOMAIN Coming' /\ Coming'[i].type = "error"
                            /\ \A k \in 1..(i-1) : Coming'[k].type = "complete"
            OBVIOUS
        <4>1. /\ i \in DOMAIN Coming /\ Coming[i].type = "error"
              /\ \A k \in 1..(i-1) : Coming[k].type = "complete"
            BY <1>1, <3>1 DEF Matched
        <4>2. \A k \in 1..(i-1) : k \in DOMAIN Coming
            BY <1>3, <4>1
        <4> QED BY <1>2, <4>1, <4>2
      <3>4. outcome[pending[i].id] \in {"failed", "skipped"} =>
               skipping' \/ \E j \in DOMAIN Coming' : Coming'[j].type = "ready"
        <4> SUFFICES ASSUME outcome[pending[i].id] \in {"failed", "skipped"}
                     PROVE  skipping' \/ \E j \in DOMAIN Coming' : Coming'[j].type = "ready"
            OBVIOUS
        <4>1. skipping \/ \E j \in DOMAIN Coming : Coming[j].type = "ready"
            BY <1>1, <3>1 DEF Matched
        <4>2. (\E j \in DOMAIN answers : answers[j] = "ready") =>
                  \E j \in DOMAIN Coming' : Coming'[j].type = "ready"
            BY <1>4
        <4> QED BY <1>2, <4>1, <4>2
      <3> QED BY <3>1, <3>2, <3>3, <3>4
    <2> QED BY <2>1, <2>2
  <1> QED BY <1>7, <1>8 DEF Matched

\* The answer its event waits for: a completion or an error.
LEMMA MatchedInTurn ==
    ASSUME AuditInv, IInv', regular, ~skipping, toServer # <<>>, NEW m, m = Head(toServer),
           NEW answers \in Seq({"complete", "error", "ready"}), Serve(m, answers),
           NEW result \in {"ok", "failed"}, NEW text, Becomes(m, result, text),
           Queued(m.id), answers # <<>>,
           answers[1] = (IF result = "ok" THEN "complete" ELSE "error"),
           \A i \in DOMAIN answers : i = 1 \/ answers[i] = "ready",
           result = "failed" => skipping' \/ \E i \in DOMAIN answers : answers[i] = "ready"
    PROVE  Matched'
  <1>1. TypeOK /\ TypeOK' /\ ReadInOrder /\ Matched /\ AuditedInOrder
      BY DEF AuditInv, IInv, InStep
  <1>2. /\ m.id \in Ids /\ m.id = Served + 1 /\ m = toServer[1]
        /\ \A j \in DOMAIN Coming : j \in DOMAIN Coming' /\ Coming'[j] = Coming[j]
        /\ \A j \in DOMAIN Coming' :
              \/ j \in DOMAIN Coming /\ Coming'[j] = Coming[j]
              \/ /\ j - Len(Coming) \in DOMAIN answers
                 /\ Coming'[j] = [type |-> answers[j - Len(Coming)], id |-> m.id]
        /\ \A i \in DOMAIN answers :
              /\ Len(Coming) + i \in DOMAIN Coming'
              /\ Coming'[Len(Coming) + i] = [type |-> answers[i], id |-> m.id]
      BY <1>1, ComingAfterServe
  <1>3. /\ pending' = pending
        /\ \A id \in Ids : id # m.id => outcome'[id] = outcome[id]
        /\ outcome'[m.id] = result
        /\ \A i \in DOMAIN pending : pending[i].id \in Ids
        /\ DOMAIN Coming = 1..Len(Coming) /\ Len(Coming) \in Nat
        /\ DOMAIN Coming' = 1..Len(Coming') /\ Len(Coming') \in Nat
        /\ DOMAIN pending = 1..Len(pending) /\ Len(pending) \in Nat
        /\ DOMAIN answers = 1..Len(answers) /\ Len(answers) \in Nat
      BY <1>1, <1>2, ComingIs, SMTT(30) DEF Serve, audit, Becomes, TypeOK
  <1>4. m.id > Served /\ outcome[m.id] = "none"
      BY <1>1, <1>2, ComingIs DEF ReadInOrder
  <1>5. PICK p \in DOMAIN pending : pending[p].id = m.id
      BY DEF Queued
  <1>6. Len(Coming) = p - 1 /\ \A j \in DOMAIN Coming : Coming[j].type = "complete"
      BY <1>2, <1>5, ItsTurn
  <1>7. 1 \in DOMAIN answers
      BY <1>3, EmptySeq
  <1>8. /\ p \in DOMAIN Coming' /\ Coming'[p].id = m.id
        /\ Coming'[p].type = (IF result = "ok" THEN "complete" ELSE "error")
    <2>1. Len(Coming) + 1 = p
        BY <1>3, <1>6
    <2>2. p \in DOMAIN Coming' /\ Coming'[p] = [type |-> answers[1], id |-> m.id]
        BY <1>2, <1>7, <2>1
    <2> QED BY <2>2
  <1>9. \A k \in 1..(p - 1) : k \in DOMAIN Coming' /\ Coming'[k].type = "complete"
      BY <1>2, <1>3, <1>6
  <1>10. \A j \in DOMAIN Coming' : j < p \/ j = p \/ Coming'[j].type = "ready"
    <2> SUFFICES ASSUME NEW j \in DOMAIN Coming', j > p PROVE Coming'[j].type = "ready"
        BY <1>3
    <2>1. j \notin DOMAIN Coming /\ j - Len(Coming) # 1
        BY <1>3, <1>6
    <2>2. /\ j - Len(Coming) \in DOMAIN answers
          /\ Coming'[j] = [type |-> answers[j - Len(Coming)], id |-> m.id]
        BY <1>2, <2>1
    <2> QED BY <2>1, <2>2
  <1>11. \A i \in DOMAIN pending : i # p => pending[i].id # m.id
    <2> TAKE i \in DOMAIN pending
    <2>1. i < p \/ p < i \/ i = p
        BY <1>3
    <2>2. i < p => pending[i].id < pending[p].id
        BY <1>1 DEF AuditedInOrder
    <2>3. p < i => pending[p].id < pending[i].id
        BY <1>1 DEF AuditedInOrder
    <2>4. pending[i].id \in Nat /\ pending[p].id \in Nat
        BY <1>1, ComingIs
    <2> QED BY <1>5, <2>1, <2>2, <2>3, <2>4
  <1>12. ASSUME NEW j \in DOMAIN Coming', Coming'[j].type = "complete"
        PROVE  /\ j \in DOMAIN pending' /\ pending'[j].id = Coming'[j].id
               /\ outcome'[pending'[j].id] = "ok"
    <2>1. CASE j = p
      <3>1. result = "ok"
          BY <1>8, <1>12, <2>1
      <3> QED BY <1>3, <1>5, <1>8, <2>1, <3>1
    <2>2. CASE j # p
      <3>1. j < p /\ j \in DOMAIN Coming
          BY <1>3, <1>6, <1>10, <1>12, <2>2
      <3>2. /\ j \in DOMAIN pending /\ pending[j].id = Coming[j].id
            /\ outcome[pending[j].id] = "ok" /\ Coming'[j] = Coming[j]
          BY <1>1, <1>2, <1>6, <3>1 DEF Matched
      <3> QED BY <1>3, <1>4, <3>2
    <2> QED BY <2>1, <2>2
  <1>13. ASSUME NEW i \in DOMAIN pending'
        PROVE  /\ outcome'[pending'[i].id] = "ok" => CompletedUpTo(i)'
               /\ outcome'[pending'[i].id] = "failed" =>
                     /\ i \in DOMAIN Coming' /\ Coming'[i].type = "error"
                     /\ \A k \in 1..(i-1) : Coming'[k].type = "complete"
               /\ outcome'[pending'[i].id] \in {"failed", "skipped"} =>
                     skipping' \/ \E j \in DOMAIN Coming' : Coming'[j].type = "ready"
    <2>1. CASE i = p
      <3>1. outcome'[pending'[i].id] = result
          BY <1>3, <1>5, <2>1
      <3>2. CASE result = "ok"
        <4>1. \A k \in 1..p : k = p \/ k \in 1..(p - 1)
            BY <1>3
        <4>2. CompletedUpTo(i)'
            BY <1>8, <1>9, <2>1, <3>2, <4>1 DEF CompletedUpTo
        <4> QED BY <3>1, <3>2, <4>2
      <3>3. CASE result = "failed"
        <4>1. skipping' \/ \E j \in DOMAIN Coming' : Coming'[j].type = "ready"
          <5>1. ASSUME NEW k \in DOMAIN answers, answers[k] = "ready"
                PROVE  \E j \in DOMAIN Coming' : Coming'[j].type = "ready"
            <6>1. /\ Len(Coming) + k \in DOMAIN Coming'
                  /\ Coming'[Len(Coming) + k] = [type |-> answers[k], id |-> m.id]
                BY <1>2
            <6>2. Coming'[Len(Coming) + k].type = "ready"
                BY <5>1, <6>1
            <6> QED BY <6>1, <6>2
          <5> QED BY <3>3, <5>1
        <4> QED BY <1>8, <1>9, <2>1, <3>1, <3>3, <4>1
      <3> QED BY <3>2, <3>3
    <2>2. CASE i # p
      <3>1. outcome'[pending'[i].id] = outcome[pending[i].id] /\ i \in DOMAIN pending
          BY <1>3, <1>11, <1>13, <2>2
      <3>2. outcome[pending[i].id] = "ok" => CompletedUpTo(i)'
        <4>1. ASSUME CompletedUpTo(i) PROVE CompletedUpTo(i)'
          <5>1. \A k \in 1..i : k \in DOMAIN Coming
              BY <1>3, <4>1 DEF CompletedUpTo
          <5> QED BY <1>2, <4>1, <5>1 DEF CompletedUpTo
        <4> QED BY <1>1, <3>1, <4>1 DEF Matched
      <3>3. outcome[pending[i].id] # "failed"
          BY <1>1, <1>6, <3>1 DEF Matched
      <3>4. outcome[pending[i].id] # "skipped"
          BY <1>1, <1>6, <3>1 DEF Matched
      <3> QED BY <3>1, <3>2, <3>3, <3>4
    <2> QED BY <2>1, <2>2
  <1> QED BY <1>12, <1>13 DEF Matched

LEMMA Two ==
    ASSUME NEW S, NEW a \in S, NEW b \in S
    PROVE  <<a>> \o <<b>> = <<a, b>>
  <1>1. <<a>> \in Seq(S) /\ <<b>> \in Seq(S) /\ Len(<<a>>) = 1 /\ Len(<<b>>) = 1
        /\ <<a, b>> \in Seq(S) /\ Len(<<a, b>>) = 2
      OBVIOUS
  <1> DEFINE s == <<a>> \o <<b>>
             t == <<a, b>>
  <1>2. s \in Seq(S) /\ Len(s) = 2
        /\ \A i \in 1..2 : s[i] = IF i <= 1 THEN <<a>>[i] ELSE <<b>>[i - 1]
      BY <1>1, ConcatProperties
  <1>3. s[1] = a /\ s[2] = b /\ t[1] = a /\ t[2] = b
      BY <1>2
  <1>4. t \in Seq(S) /\ Len(t) = 2
      BY <1>1
  <1> HIDE DEF s, t
  <1>5. \A i \in 1..Len(s) : s[i] = t[i]
      BY <1>2, <1>3
  <1>6. s = t
      BY <1>2, <1>4, <1>5, SeqEqual
  <1> QED BY <1>6 DEF s, t

LEMMA ServerAudit == AuditInv /\ IInv' /\ Server => AuditInv'
  <1> SUFFICES ASSUME AuditInv, IInv', toServer # <<>>, NEW m, m = Head(toServer),
                      \/ Skip(m) \/ ServeQuery(m) \/ ServeParse(m) \/ ServeBind(m)
                      \/ ServeExecute(m) \/ ServeClose(m) \/ ServeSync(m)
               PROVE  AuditInv'
      BY DEF Server
  <1> DEFINE A == {"complete", "error", "ready"}
  <1>1. /\ m = toServer[1] /\ 1 \in DOMAIN toServer /\ m.request \in Requests
        /\ \A i \in DOMAIN pending :
              pending[i].id = m.id => m.request.type \in {"query", "execute"}
    <2>1. TypeOK /\ ReadInOrder
        BY DEF AuditInv, IInv
    <2>2. m = toServer[1] /\ 1 \in DOMAIN toServer
        BY <2>1, ComingIs, EmptySeq
    <2> QED BY <2>1, <2>2, ComingIs DEF ReadInOrder
  <1>2. /\ <<>> \in Seq(A) /\ <<"error">> \in Seq(A) /\ <<"complete">> \in Seq(A)
        /\ <<"ready">> \in Seq(A)
        /\ <<"complete", "ready">> \in Seq(A) /\ <<"error", "ready">> \in Seq(A)
      OBVIOUS
  <1>3. {"ok", "failed", "skipped"} = Outcomes \ {"none"}
      BY DEF Outcomes
  <1>4. ~Queued(m.id) \/ m.request.type \in {"query", "execute"}
      BY <1>1 DEF Queued
  <1>5. regular \in BOOLEAN /\ regular' \in BOOLEAN
      BY DEF AuditInv, IInv, TypeOK
  \* No answer to what is not a Query nor an audited Execute.
  <1>6. ASSUME Serve(m, <<>>), NEW text, NEW result \in {"ok", "skipped"},
               Becomes(m, result, text), regular' => regular, skipping' = skipping,
               skipping => result = "skipped" /\ m.request.type # "sync",
               result = "skipped" => skipping,
               regular' => (Queued(m.id) => result = "skipped")
        PROVE  AuditInv'
    <2>1. DOMAIN <<>> = {}
        OBVIOUS
    <2>2. result \in Outcomes \ {"none"} /\ <<>> \in Seq(A)
        BY <1>2, <1>3
    <2>3. ASSUME regular' PROVE Matched'
      <3>1. /\ regular /\ (Queued(m.id) => result = "skipped")
            /\ (result = "skipped" => skipping')
          BY <1>6, <2>3
      <3> QED BY <1>6, <2>1, <2>2, <3>1, MatchedAside
    <2> QED BY <1>6, <2>1, <2>2, <2>3, Answering
  <1>7. CASE Skip(m)
      BY <1>6, <1>7 DEF Skip
  <1>8. ASSUME Reject(m), ~skipping PROVE AuditInv'
    <2>1. /\ Serve(m, <<"error">>) /\ Becomes(m, "failed", NoText)
          /\ skipping' = TRUE /\ regular' = regular
        BY <1>8 DEF Reject
    <2>2. /\ DOMAIN <<"error">> = {1} /\ <<"error">>[1] = "error" /\ <<"error">> # <<>>
        OBVIOUS
    <2>3. CASE regular /\ Queued(m.id)
      <3>1. Matched'
          BY <1>2, <1>8, <2>1, <2>2, <2>3, MatchedInTurn
      <3> QED BY <1>2, <1>3, <1>8, <2>1, <2>2, <3>1, Answering
    <2>4. CASE regular /\ ~Queued(m.id)
      <3>1. Matched'
          BY <1>2, <1>3, <1>8, <2>1, <2>2, <2>4, MatchedAside
      <3> QED BY <1>2, <1>3, <1>8, <2>1, <2>2, <3>1, Answering
    <2>5. CASE ~regular
        BY <1>2, <1>3, <1>8, <2>1, <2>2, <2>5, Answering
    <2> QED BY <2>3, <2>4, <2>5
  <1>9. CASE ServeQuery(m)
    <2> DEFINE text == m.request.text
               answers(done) == [i \in 1..done |-> "complete"]
                                \o (IF done < Len(text) THEN <<"error">> ELSE <<>>)
                                \o <<"ready">>
    <2>1. m.request.type = "query" /\ ~skipping /\ text \in Texts /\ Len(text) \in Nat
      <3>1. text \in Texts
          BY <1>1, <1>9, RequestParts DEF ServeQuery
      <3>2. text = [i \in 1..Len(text) |-> text[i]]
          BY <3>1, TextsType
      <3> QED BY <1>9, <3>1, <3>2 DEF ServeQuery
    <2>2. PICK done \in 0..Len(text) :
             /\ Serve(m, answers(done))
             /\ \/ done = Len(text) /\ Becomes(m, "ok", text)
                \/ done < Len(text) /\ Becomes(m, "failed", NoText)
        BY <1>9 DEF ServeQuery
    <2>a. done \in Nat /\ done <= Len(text)
        BY <2>1
    <2>3. skipping' = skipping /\ (regular' <=> (regular /\ Len(text) = 1))
        BY <1>5, <1>9 DEF ServeQuery
    <2>4. /\ answers(done) \in Seq(A) /\ Len(answers(done)) \in DOMAIN answers(done)
          /\ answers(done)[Len(answers(done))] = "ready"
          /\ \A i \in DOMAIN answers(done) : answers(done)[i] = "ready" => i = Len(answers(done))
      <3> DEFINE first == [i \in 1..done |-> "complete"]
                 second == IF done < Len(text) THEN <<"error">> ELSE <<>>
      <3>1. first \in Seq(A) /\ \A i \in DOMAIN first : first[i] = "complete"
        <4>1. done \in Nat
            BY <2>1
        <4> QED BY <4>1
      <3>2. second \in Seq(A) /\ \A i \in DOMAIN second : second[i] = "error"
        <4>1. CASE done < Len(text)
            BY <1>2, <4>1
        <4>2. CASE ~(done < Len(text))
            BY <1>2, <4>2
        <4> QED BY <4>1, <4>2
      <3>3. answers(done) = (first \o second) \o <<"ready">>
          OBVIOUS
      <3> HIDE DEF first, second, answers
      <3>4. /\ first \o second \in Seq(A)
            /\ \A i \in DOMAIN (first \o second) : (first \o second)[i] # "ready"
        <4>1. \A j \in DOMAIN (first \o second) :
                 \/ j \in DOMAIN first /\ (first \o second)[j] = first[j]
                 \/ /\ j - Len(first) \in DOMAIN second
                    /\ (first \o second)[j] = second[j - Len(first)]
            BY <3>1, <3>2, Concatenated
        <4> QED BY <3>1, <3>2, <4>1
      <3>5. \A s : s \in Seq(A) =>
               /\ s \o <<"ready">> \in Seq(A)
               /\ Len(s \o <<"ready">>) = Len(s) + 1 /\ Len(s) \in Nat
               /\ (s \o <<"ready">>)[Len(s) + 1] = "ready"
               /\ DOMAIN (s \o <<"ready">>) = 1..(Len(s) + 1)
               /\ \A i \in DOMAIN (s \o <<"ready">>) :
                     i = Len(s) + 1 \/ (i \in DOMAIN s /\ (s \o <<"ready">>)[i] = s[i])
          BY <1>2
      <3> DEFINE s == first \o second
      <3>6. answers(done) = s \o <<"ready">> /\ s \in Seq(A)
            /\ \A i \in DOMAIN s : s[i] # "ready"
          BY <3>3, <3>4
      <3> HIDE DEF s
      <3> QED BY <3>5, <3>6
    <2>5. Asks(m.request)
        BY <2>1 DEF Asks
    <2>6. ASSUME NEW i \in DOMAIN answers(done), answers(done)[i] = "error"
          PROVE  \E j \in DOMAIN answers(done) : i < j /\ answers(done)[j] = "ready"
      <3> DEFINE s == answers(done)
      <3>1. s \in Seq(A) /\ Len(s) \in DOMAIN s /\ s[Len(s)] = "ready" /\ i \in DOMAIN s
            /\ s[i] = "error"
          BY <2>4, <2>6
      <3> HIDE DEF s
      <3>2. i < Len(s)
          BY <3>1
      <3>3. \E j \in DOMAIN s : i < j /\ s[j] = "ready"
          BY <3>1, <3>2
      <3> QED BY <3>3 DEF s
    <2>7. CASE ~regular'
      <3> HIDE DEF answers
      <3> QED BY <1>3, <2>1, <2>2, <2>3, <2>4, <2>5, <2>6, <2>7, Answering
    <2>8. CASE regular'
      <3>1. regular /\ Len(text) = 1
          BY <2>3, <2>8
      <3>a. Len(text) = 1 /\ ~(1 < Len(text)) /\ 0 < Len(text)
        <4> HIDE DEF text
        <4>1. \A n : n = 1 => ~(1 < n) /\ 0 < n
            OBVIOUS
        <4> QED BY <3>1, <4>1
      <3>2. Queued(m.id)
        <4>1. QueriesQueued
            BY <3>1 DEF AuditInv, InStep
        <4> QED BY <1>1, <2>1, <4>1 DEF QueriesQueued
      <3>3. CASE done = 1
        <4>1. answers(done) = <<"complete", "ready">>
          <5>1. answers(1) = [i \in 1..1 |-> "complete"] \o <<>> \o <<"ready">>
              BY <3>a
          <5>2. [i \in 1..1 |-> "complete"] = <<"complete">>
              OBVIOUS
          <5>3. <<"complete">> \o <<>> = <<"complete">>
              BY <1>2, ConcatEmptySeq
          <5>4. <<"complete">> \o <<"ready">> = <<"complete", "ready">>
            <6>1. "complete" \in A /\ "ready" \in A
                OBVIOUS
            <6> QED BY <6>1, Two
          <5> QED BY <3>3, <5>1, <5>2, <5>3, <5>4
        <4> HIDE DEF text
        <4>2. Becomes(m, "ok", text)
            BY <2>2, <3>a, <3>3
        <4>3. /\ DOMAIN <<"complete", "ready">> = {1, 2}
              /\ <<"complete", "ready">>[1] = "complete" /\ <<"complete", "ready">>[2] = "ready"
              /\ <<"complete", "ready">> # <<>> /\ Len(<<"complete", "ready">>) = 2
            OBVIOUS
        <4>4. Serve(m, <<"complete", "ready">>)
            BY <2>2, <4>1
        <4>5. Matched'
            BY <1>2, <2>1, <3>1, <3>2, <4>2, <4>3, <4>4, MatchedInTurn
        <4>6. \E both : both = <<"complete", "ready">>
            OBVIOUS
        <4>7. PICK both : both = <<"complete", "ready">>
            BY <4>6
        <4>8. /\ both \in Seq({"complete", "error", "ready"}) /\ Serve(m, both)
              /\ DOMAIN both = {1, 2} /\ Len(both) = 2
              /\ both[1] = "complete" /\ both[2] = "ready"
            BY <1>2, <4>3, <4>4, <4>7
        <4>9. /\ \A i \in DOMAIN both : both[i] = "ready" => Asks(m.request) /\ i = Len(both)
              /\ \A i \in DOMAIN both :
                    both[i] = "error" => \E j \in DOMAIN both : i < j /\ both[j] = "ready"
            BY <2>5, <4>8
        <4>10. "ok" \in Outcomes \ {"none"}
            BY <1>3
        <4> QED BY <2>1, <3>1, <4>2, <4>5, <4>8, <4>9, <4>10, Answering
      <3>4. CASE done = 0
        <4>1. answers(done) = <<"error", "ready">>
          <5>1. answers(0) = [i \in 1..0 |-> "complete"] \o <<"error">> \o <<"ready">>
              BY <3>a
          <5>2. [i \in 1..0 |-> "complete"] = <<>>
              OBVIOUS
          <5>3. <<>> \o <<"error">> = <<"error">>
              BY <1>2, ConcatEmptySeq
          <5>4. <<"error">> \o <<"ready">> = <<"error", "ready">>
            <6>1. "error" \in A /\ "ready" \in A
                OBVIOUS
            <6> QED BY <6>1, Two
          <5> QED BY <3>4, <5>1, <5>2, <5>3, <5>4
        <4> HIDE DEF text
        <4>2. Becomes(m, "failed", NoText)
            BY <2>2, <3>a, <3>4
        <4>3. /\ DOMAIN <<"error", "ready">> = {1, 2}
              /\ <<"error", "ready">>[1] = "error" /\ <<"error", "ready">>[2] = "ready"
              /\ <<"error", "ready">> # <<>> /\ Len(<<"error", "ready">>) = 2
            OBVIOUS
        <4>4. Serve(m, <<"error", "ready">>)
            BY <2>2, <4>1
        <4>5. Matched'
            BY <1>2, <2>1, <3>1, <3>2, <4>2, <4>3, <4>4, MatchedInTurn
        <4>6. \E both : both = <<"error", "ready">>
            OBVIOUS
        <4>7. PICK both : both = <<"error", "ready">>
            BY <4>6
        <4>8. /\ both \in Seq({"complete", "error", "ready"}) /\ Serve(m, both)
              /\ DOMAIN both = {1, 2} /\ Len(both) = 2
              /\ both[1] = "error" /\ both[2] = "ready"
            BY <1>2, <4>3, <4>4, <4>7
        <4>9. /\ \A i \in DOMAIN both : both[i] = "ready" => Asks(m.request) /\ i = Len(both)
              /\ \A i \in DOMAIN both :
                    both[i] = "error" => \E j \in DOMAIN both : i < j /\ both[j] = "ready"
            BY <2>5, <4>8
        <4>10. "failed" \in Outcomes \ {"none"}
            BY <1>3
        <4> QED BY <2>1, <3>1, <4>2, <4>5, <4>8, <4>9, <4>10, Answering
      <3> HIDE DEF text
      <3>5. done = 0 \/ done = 1
          BY <2>a, <3>1
      <3> QED BY <3>3, <3>4, <3>5
    <2> QED BY <2>7, <2>8
  <1>10. CASE ServeParse(m)
    <2>1. ~Queued(m.id) /\ ~skipping
        BY <1>4, <1>10 DEF ServeParse
    <2>2. CASE Serve(m, <<>>) /\ Becomes(m, "ok", NoText) /\ UNCHANGED <<opened, skipping, regular, diverged>>
        BY <1>6, <2>1, <2>2
    <2> QED BY <1>8, <1>10, <2>1, <2>2 DEF ServeParse
  <1>11. CASE ServeBind(m)
    <2>1. ~Queued(m.id) /\ ~skipping
        BY <1>4, <1>11 DEF ServeBind
    <2>2. CASE Serve(m, <<>>) /\ Becomes(m, "ok", NoText) /\ UNCHANGED <<statements, skipping, regular, diverged>>
        BY <1>6, <2>1, <2>2
    <2> QED BY <1>8, <1>11, <2>1, <2>2 DEF ServeBind
  <1>12. CASE ServeExecute(m)
    <2> DEFINE text == opened[m.request.portal]
    <2>1. ~skipping
        BY <1>12 DEF ServeExecute
    <2>2. CASE Becomes(m, "ok", text) /\ Serve(m, <<"complete">>)
               /\ (regular' = (regular /\ Queued(m.id))) /\ skipping' = skipping
      <3>1. /\ DOMAIN <<"complete">> = {1} /\ <<"complete">>[1] = "complete"
            /\ <<"complete">> # <<>>
          OBVIOUS
      <3>2. regular' => regular /\ Queued(m.id)
          BY <2>2
      <3> HIDE DEF text
      <3>3. regular' => Matched'
          BY <1>2, <2>1, <2>2, <3>1, <3>2, MatchedInTurn
      <3> QED BY <1>2, <1>3, <2>1, <2>2, <3>1, <3>2, <3>3, Answering
    <2>3. CASE Becomes(m, "ok", text) /\ Serve(m, <<>>) /\ regular' = FALSE /\ skipping' = skipping
      <3> HIDE DEF text
      <3> QED BY <1>6, <2>1, <2>3
    <2> QED BY <1>8, <1>12, <2>1, <2>2, <2>3 DEF ServeExecute
  <1>13. CASE ServeClose(m)
    <2>1. ~Queued(m.id) /\ ~skipping
        BY <1>4, <1>13 DEF ServeClose
    <2>2. /\ Serve(m, <<>>) /\ Becomes(m, "ok", NoText)
          /\ UNCHANGED <<skipping, regular, diverged>>
        BY <1>13 DEF ServeClose
    <2> QED BY <1>6, <2>1, <2>2
  <1>14. CASE ServeSync(m)
    <2>1. ~Queued(m.id) /\ Asks(m.request) /\ m.request.type = "sync"
        BY <1>4, <1>14 DEF ServeSync, Asks
    <2>2. /\ Serve(m, <<"ready">>) /\ Becomes(m, "ok", NoText)
          /\ skipping' = FALSE /\ regular' = regular
        BY <1>14 DEF ServeSync
    <2>3. DOMAIN <<"ready">> = {1} /\ <<"ready">>[1] = "ready" /\ Len(<<"ready">>) = 1
        OBVIOUS
    <2>4. \E j \in DOMAIN <<"ready">> : <<"ready">>[j] = "ready"
        BY <2>3
    <2>5. regular' => Matched'
        BY <1>2, <1>3, <2>1, <2>2, <2>3, <2>4, MatchedAside
    <2> QED BY <1>2, <1>3, <2>1, <2>2, <2>3, <2>4, <2>5, Answering
  <1> QED BY <1>7, <1>9, <1>10, <1>11, <1>12, <1>13, <1>14

LEMMA InitAudit == Init => AuditInv
  <1> SUFFICES ASSUME Init PROVE AuditInv
      OBVIOUS
  <1>1. IInv
      BY InitIInv
  <1>2. Coming = <<>> /\ Served = 0
    <2>1. toProxy = <<>> /\ inHand = <<>> /\ toServer = <<>> /\ sent = 0
        BY DEF Init
    <2>2. <<>> \o <<>> = <<>> /\ Len(<<>>) = 0
        OBVIOUS
    <2>3. 0 - 0 = 0
        OBVIOUS
    <2> QED BY <2>1, <2>2, <2>3, Zenon DEF Coming, Served
  <1>3. /\ toServer = <<>> /\ pending = <<>> /\ log = {}
        /\ \A id \in Ids : outcome[id] = "none" /\ id > 0
      BY BoundsType DEF Init, Ids
  <1> QED BY <1>1, <1>2, <1>3 DEF AuditInv, ReadInOrder, AnsweredInOrder, NotAnswered,
     InStep, BeforeReady, Matched, QueriesQueued, WrittenTrue

\* Whatever is forwarded: an event begins behind what was answered.
LEMMA ForwardAudit ==
    ASSUME AuditInv, IInv', NEW r \in Requests, NEW texts \in Seq(Texts), Len(texts) <= 1,
           Forward(r, texts), r.type = "query" => texts # <<>>,
           r.type \notin {"query", "execute"} => texts = <<>>
    PROVE  AuditInv'
  <1> DEFINE m == [id |-> sent + 1, request |-> r]
             new == [i \in 1..Len(texts) |-> [id |-> sent + 1, text |-> texts[i]]]
  <1>1. /\ TypeOK /\ TypeOK' /\ ReadInOrder /\ AnsweredInOrder /\ NotAnswered /\ WrittenTrue
        /\ EventsOK /\ WireOK
      BY DEF AuditInv, IInv
  <1>2. /\ toServer' = Append(toServer, m) /\ pending' = pending \o new /\ sent' = sent + 1
        /\ UNCHANGED <<toProxy, inHand, log, outcome, skipping, answered>>
        /\ regular' = (regular /\ (texts # <<>> => asked = answered))
      BY DEF Forward, server
  <1>3. /\ sent \in Nat /\ asked \in Nat /\ answered \in Nat /\ sent + 1 \in Ids
        /\ asked <= sent /\ answered <= asked
      BY <1>1, <1>2, Numbers, BoundsType DEF TypeOK, Ids
  <1>4. /\ DOMAIN toServer = 1..Len(toServer) /\ Len(toServer) \in Nat
        /\ DOMAIN toServer' = 1..(Len(toServer) + 1)
        /\ \A k \in DOMAIN toServer : toServer'[k] = toServer[k] /\ k \in DOMAIN toServer'
        /\ toServer'[Len(toServer) + 1] = m
        /\ Len(toServer') = Len(toServer) + 1
        /\ \A k \in DOMAIN toServer : toServer[k].id \in Nat
    <2>1. toServer \in Seq([id : Ids, request : Requests]) /\ m \in [id : Ids, request : Requests]
        BY <1>1, <1>3, ComingIs
    <2> HIDE DEF m
    <2> QED BY <1>1, <1>2, <2>1, ComingIs
  <1>5. /\ new \in Seq(Events) /\ Len(new) = Len(texts) /\ Len(texts) \in {0, 1}
        /\ DOMAIN new = 1..Len(new)
        /\ \A i \in DOMAIN new : new[i].id = sent + 1
    <2>1. Len(texts) \in {0, 1}
        OBVIOUS
    <2> QED BY <1>3, <2>1 DEF Events
  <1>6. /\ DOMAIN pending = 1..Len(pending) /\ Len(pending) \in Nat /\ pending \in Seq(Events)
        /\ \A i \in DOMAIN pending : pending[i].id \in Ids /\ pending[i].id \in Nat
        /\ \A id \in Ids : id \in Nat
      BY <1>1, ComingIs
  <1>a. m.id = sent + 1 /\ m.request = r
      OBVIOUS
  <1> HIDE DEF m, new
  <1>7. /\ \A i \in DOMAIN pending : i \in DOMAIN pending' /\ pending'[i] = pending[i]
        /\ \A i \in DOMAIN pending' :
              \/ i \in DOMAIN pending /\ pending'[i] = pending[i]
              \/ i - Len(pending) \in DOMAIN new /\ pending'[i] = new[i - Len(pending)]
        /\ \A i \in DOMAIN new :
              Len(pending) + i \in DOMAIN pending' /\ pending'[Len(pending) + i] = new[i]
    <2>1. new \in Seq(Events)
        BY <1>5
    <2>2. /\ \A i \in DOMAIN pending : i \in DOMAIN (pending \o new) /\ (pending \o new)[i] = pending[i]
          /\ \A i \in DOMAIN (pending \o new) :
              \/ i \in DOMAIN pending /\ (pending \o new)[i] = pending[i]
              \/ i - Len(pending) \in DOMAIN new /\ (pending \o new)[i] = new[i - Len(pending)]
          /\ \A i \in DOMAIN new :
              Len(pending) + i \in DOMAIN (pending \o new) /\ (pending \o new)[Len(pending) + i] = new[i]
        BY SMTT(30), <1>6, <2>1, Concatenated
    <2> QED BY <1>2, <2>2, Zenon
  <1>8. \A i \in DOMAIN pending' :
           \/ i \in DOMAIN pending /\ pending'[i] = pending[i]
           \/ pending'[i].id = sent + 1 /\ texts # <<>>
    <2> TAKE i \in DOMAIN pending'
    <2>1. CASE i - Len(pending) \in DOMAIN new /\ pending'[i] = new[i - Len(pending)]
      <3>1. pending'[i].id = sent + 1
          BY <1>5, <2>1
      <3>2. Len(texts) # 0
          BY <1>5, <2>1
      <3> QED BY <3>1, <3>2
    <2> QED BY <1>7, <2>1
  <1>9. \A k \in DOMAIN toServer' : k \in DOMAIN toServer \/ k = Len(toServer) + 1
      BY <1>4
  <1>10. Coming' = Coming /\ Served' = Served
      BY <1>2, <1>3, <1>4 DEF Coming, Served
  <1>11. ReadInOrder'
    <2>1. \A k \in DOMAIN toServer' : toServer'[k].id = Served' + k
      <3>1. Served + (Len(toServer) + 1) = sent + 1
          BY <1>3, <1>4 DEF Served
      <3> QED BY <1>1, <1>4, <1>9, <1>10, <1>a, <3>1 DEF ReadInOrder
    <2>2. ASSUME NEW i \in DOMAIN pending', NEW k \in DOMAIN toServer',
                 pending'[i].id = toServer'[k].id
          PROVE  toServer'[k].request.type \in {"query", "execute"}
      <3>1. CASE k \in DOMAIN toServer
        <4>1. toServer'[k] = toServer[k] /\ toServer[k].id <= sent
            BY <1>1, <1>4, <3>1 DEF WireOK
        <4>2. i \in DOMAIN pending /\ pending'[i] = pending[i]
            BY <1>3, <1>4, <1>8, <2>2, <3>1, <4>1
        <4> QED BY <1>1, <2>2, <3>1, <4>1, <4>2 DEF ReadInOrder
      <3>2. CASE k = Len(toServer) + 1
        <4>1. toServer'[k].id = sent + 1 /\ toServer'[k].request = r
            BY <1>4, <1>a, <3>2
        <4>2. ~(i \in DOMAIN pending /\ pending'[i] = pending[i])
          <5>1. i \in DOMAIN pending => pending[i].id <= sent
              BY <1>1 DEF EventsOK
          <5> QED BY <1>3, <1>6, <2>2, <4>1, <5>1
        <4>3. texts # <<>>
            BY <1>8, <4>2
        <4> QED BY <4>1, <4>3
      <3> QED BY <1>9, <3>1, <3>2
    <2> QED BY <1>1, <1>2, <1>10, <2>1, <2>2 DEF ReadInOrder
  <1>12. AnsweredInOrder'
      BY <1>1, <1>2, <1>10 DEF AnsweredInOrder
  <1>13. NotAnswered'
    <2>1. \A k \in DOMAIN toServer' :
             Asks(toServer'[k].request) => answered' < toServer'[k].id
      <3>1. answered < m.id
          BY <1>3, <1>a
      <3> QED BY <1>1, <1>2, <1>4, <1>9, <3>1 DEF NotAnswered
    <2> QED BY <1>1, <1>2, <1>10, <2>1 DEF NotAnswered
  <1>14. ASSUME regular' PROVE BeforeReady' /\ Matched' /\ QueriesQueued'
    <2>1. /\ regular /\ (texts # <<>> => asked = answered)
          /\ BeforeReady /\ Matched /\ QueriesQueued
      <3>1. regular /\ (texts # <<>> => asked = answered)
          BY <1>2, <1>14
      <3> QED BY <3>1 DEF AuditInv, InStep
    <2>2. texts # <<>> => \A k \in DOMAIN toServer : ~Asks(toServer[k].request)
      <3> SUFFICES ASSUME texts # <<>>, NEW k \in DOMAIN toServer, Asks(toServer[k].request)
                   PROVE  FALSE
          OBVIOUS
      <3>1. answered < toServer[k].id /\ toServer[k].id <= asked
          BY <1>1 DEF NotAnswered, WireOK
      <3> QED BY <1>3, <1>4, <2>1, <3>1
    <2>3. texts # <<>> => \A j \in DOMAIN Coming : Coming[j].type # "ready"
      <3> SUFFICES ASSUME texts # <<>>, NEW j \in DOMAIN Coming, Coming[j].type = "ready"
                   PROVE  FALSE
          OBVIOUS
      <3>1. answered < Coming[j].id /\ Coming[j].id \in Nat
          BY <1>1, ComingIs DEF NotAnswered
      <3>2. Coming[j].id <= asked
        <4>1. \/ \E i \in DOMAIN inHand : Coming[j] = inHand[i]
              \/ \E i \in DOMAIN toProxy : Coming[j] = toProxy[i]
          <5>1. inHand \in Seq(Answers) /\ toProxy \in Seq(Answers)
              BY <1>1 DEF TypeOK
          <5>2. \A i \in DOMAIN (inHand \o toProxy) :
                   \/ i \in DOMAIN inHand /\ (inHand \o toProxy)[i] = inHand[i]
                   \/ /\ i - Len(inHand) \in DOMAIN toProxy
                      /\ (inHand \o toProxy)[i] = toProxy[i - Len(inHand)]
              BY <5>1, Concatenated
          <5> QED BY <5>2 DEF Coming
        <4> QED BY <1>1, <4>1 DEF WireOK, AnswerOK
      <3> QED BY <1>3, <2>1, <3>1, <3>2
    <2>4. BeforeReady'
      <3>1. ASSUME NEW i \in DOMAIN pending', NEW k \in DOMAIN toServer',
                   Asks(toServer'[k].request)
            PROVE  \/ pending'[i].id < toServer'[k].id
                   \/ pending'[i].id = toServer'[k].id /\ toServer'[k].request.type = "query"
        <4>1. CASE k \in DOMAIN toServer
          <5>1. toServer'[k] = toServer[k]
              BY <1>4, <4>1
          <5>2. i \in DOMAIN pending /\ pending'[i] = pending[i]
              BY <1>8, <2>2, <3>1, <4>1, <5>1
          <5> QED BY <2>1, <3>1, <4>1, <5>1, <5>2 DEF BeforeReady
        <4>2. CASE k = Len(toServer) + 1
          <5>1. toServer'[k].id = sent + 1 /\ toServer'[k].request = r
              BY <1>4, <1>a, <4>2
          <5>2. CASE i \in DOMAIN pending /\ pending'[i] = pending[i]
            <6>1. pending[i].id <= sent
                BY <1>1, <5>2 DEF EventsOK
            <6> QED BY <1>3, <1>6, <5>1, <5>2, <6>1
          <5>3. CASE pending'[i].id = sent + 1 /\ texts # <<>>
            <6>1. r.type \in {"query", "execute"}
                BY <5>3
            <6>2. r.type # "execute"
                BY <3>1, <5>1 DEF Asks
            <6> QED BY <5>1, <5>3, <6>1, <6>2
          <5> QED BY <1>8, <5>2, <5>3
        <4> QED BY <1>9, <4>1, <4>2
      <3>2. \A i \in DOMAIN pending', j \in DOMAIN Coming' :
               Coming'[j].type = "ready" => pending'[i].id <= Coming'[j].id
          BY <1>8, <1>10, <2>1, <2>3 DEF BeforeReady
      <3> QED BY <3>1, <3>2 DEF BeforeReady
    <2>5. Matched'
      <3>1. outcome[sent + 1] = "none"
        <4>1. sent + 1 > Served
            BY <1>3, <1>4 DEF Served
        <4> QED BY <1>1, <1>3, <4>1 DEF ReadInOrder
      <3>2. \A j \in DOMAIN Coming' :
               Coming'[j].type = "complete" =>
                  /\ j \in DOMAIN pending' /\ pending'[j].id = Coming'[j].id
                  /\ outcome'[pending'[j].id] = "ok"
          BY <1>2, <1>7, <1>10, <2>1 DEF Matched
      <3>3. ASSUME NEW i \in DOMAIN pending'
            PROVE  /\ outcome'[pending'[i].id] = "ok" => CompletedUpTo(i)'
                   /\ outcome'[pending'[i].id] = "failed" =>
                         /\ i \in DOMAIN Coming' /\ Coming'[i].type = "error"
                         /\ \A k \in 1..(i-1) : Coming'[k].type = "complete"
                   /\ outcome'[pending'[i].id] \in {"failed", "skipped"} =>
                         skipping' \/ \E j \in DOMAIN Coming' : Coming'[j].type = "ready"
        <4>1. CASE i \in DOMAIN pending /\ pending'[i] = pending[i]
            BY <1>2, <1>10, <2>1, <4>1 DEF Matched, CompletedUpTo
        <4>2. CASE pending'[i].id = sent + 1
            BY <1>2, <3>1, <4>2
        <4> QED BY <1>8, <4>1, <4>2
      <3> QED BY <3>2, <3>3 DEF Matched
    <2>6. ASSUME NEW k \in DOMAIN toServer', toServer'[k].request.type = "query"
          PROVE  \/ \E i \in DOMAIN pending' : pending'[i].id = toServer'[k].id
                 \/ skipping' /\ \A l \in 1..(k - 1) : toServer'[l].request.type # "sync"
      <3>1. CASE k \in DOMAIN toServer
        <4>1. toServer'[k] = toServer[k]
            BY <1>4, <3>1
        <4>2. CASE Queued(toServer[k].id)
            BY <1>7, <4>1, <4>2 DEF Queued
        <4>3. CASE skipping /\ \A l \in 1..(k - 1) : toServer[l].request.type # "sync"
          <5>1. \A l \in 1..(k - 1) : l \in DOMAIN toServer
              BY <1>4, <3>1
          <5> QED BY <1>2, <1>4, <4>3, <5>1
        <4> QED BY <2>1, <2>6, <3>1, <4>1, <4>2, <4>3 DEF QueriesQueued
      <3>2. CASE k = Len(toServer) + 1
        <4>1. toServer'[k].id = sent + 1 /\ toServer'[k].request = r
            BY <1>4, <1>a, <3>2
        <4>2. texts # <<>>
            BY <2>6, <4>1
        <4>3. 1 \in DOMAIN new
          <5>1. Len(texts) # 0
              BY <4>2
          <5> QED BY <1>5, <5>1
        <4> QED BY <1>5, <1>7, <4>1, <4>3
      <3> QED BY <1>9, <3>1, <3>2
    <2>7. QueriesQueued'
        BY <2>6 DEF QueriesQueued, Queued
    <2> QED BY <2>4, <2>5, <2>7
  <1>15. WrittenTrue'
    <2>1. ASSUME NEW e \in log, Skipped(e.event.id) PROVE Skipped(e.event.id)'
      <3>1. e.event.id <= sent /\ e.event.id \in Nat
          BY <1>1, Numbers DEF EventsOK
      <3>2. e.event.id < sent + 1
          BY <1>3, <3>1
      <3>3. \A k \in DOMAIN toServer' :
               toServer'[k].request.type = "sync" => e.event.id < toServer'[k].id
          BY <1>4, <1>9, <1>a, <2>1, <3>2 DEF Skipped
      <3> QED BY <1>2, <2>1, <3>3 DEF Skipped
    <2> QED BY <1>1, <1>2, <2>1 DEF WrittenTrue
  <1>16. InStep'
      BY <1>14 DEF InStep
  <1> QED BY <1>11, <1>12, <1>13, <1>15, <1>16 DEF AuditInv

LEMMA ClientAudit == AuditInv /\ IInv' /\ Client => AuditInv'
  <1> SUFFICES ASSUME AuditInv, IInv', NEW r \in Requests,
                      \/ ForwardQuery(r) \/ ForwardParse(r) \/ ForwardBind(r)
                      \/ ForwardExecute(r) \/ ForwardClose(r) \/ ForwardSync(r)
               PROVE  AuditInv'
      BY DEF Client
  <1> USE RequestParts
  <1>0. /\ <<>> \in Seq(Texts) /\ Len(<<>>) <= 1
        /\ prepared \in [Names -> Texts \union {NoText}]
        /\ portals \in [Portals -> Texts \union {NoText}]
      BY DEF AuditInv, IInv, TypeOK
  <1>1. CASE ForwardQuery(r)
    <2>1. <<r.text>> \in Seq(Texts) /\ Len(<<r.text>>) <= 1 /\ <<r.text>> # <<>>
        BY <1>1 DEF ForwardQuery
    <2> QED BY <1>1, <2>1, ForwardAudit DEF ForwardQuery
  <1>2. CASE ForwardExecute(r)
    <2>1. ToBegin(r.portal) \in Seq(Texts) /\ Len(ToBegin(r.portal)) <= 1
        BY <1>0, <1>2, NamesType DEF ForwardExecute, ToBegin, Resolved
    <2> QED BY <1>2, <2>1, ForwardAudit DEF ForwardExecute
  <1>3. CASE ForwardParse(r) \/ ForwardBind(r) \/ ForwardClose(r) \/ ForwardSync(r)
    <2>1. Forward(r, <<>>) /\ r.type \notin {"query", "execute"}
        BY <1>3 DEF ForwardParse, ForwardBind, ForwardClose, ForwardSync
    <2> QED BY <1>0, <2>1, ForwardAudit
  <1> QED BY <1>1, <1>2, <1>3

LEMMA OtherAudit ==
    AuditInv /\ IInv' /\ (Deliver \/ Hangup \/ UNCHANGED vars) => AuditInv'
  <1> SUFFICES ASSUME AuditInv, IInv', Deliver \/ Hangup \/ UNCHANGED vars PROVE AuditInv'
      OBVIOUS
  <1>1. /\ UNCHANGED <<sent, asked, pending, log, toServer, answered>>
        /\ UNCHANGED <<skipping, outcome, regular>>
      BY DEF Deliver, Hangup, vars, frontend, audit, server
  <1>2. Coming' = Coming
    <2>1. CASE Deliver
        BY <2>1, ComingAfterDeliver DEF AuditInv, IInv
    <2>2. CASE Hangup \/ UNCHANGED vars
        BY <2>2 DEF Hangup, vars, Coming
    <2> QED BY <2>1, <2>2
  <1>3. Served' = Served /\ \A id : (Queued(id)' <=> Queued(id)) /\ (Skipped(id)' <=> Skipped(id))
      BY <1>1 DEF Served, Queued, Skipped
  <1>4. ReadInOrder' /\ AnsweredInOrder' /\ NotAnswered'
      BY <1>1, <1>2, <1>3 DEF AuditInv, ReadInOrder, AnsweredInOrder, NotAnswered
  <1>5. WrittenTrue'
      BY <1>1 DEF AuditInv, WrittenTrue, Skipped
  <1>6. InStep'
      BY <1>1, <1>2 DEF AuditInv, InStep, BeforeReady, Matched, CompletedUpTo,
         QueriesQueued, Queued
  <1> QED BY <1>4, <1>5, <1>6 DEF AuditInv

\* What a step of the audit adds to the log: the head of the queue, or all of it.
LEMMA Wrote ==
    ASSUME TypeOK, NEW result
    PROVE  /\ FinishNext(result) =>
                 \A e \in log' :
                    \/ e \in log
                    \/ /\ pending # <<>>
                       /\ e = [event |-> pending[1], result |-> result, regular |-> regular]
           /\ FlushPending =>
                 \A e \in log' :
                    \/ e \in log
                    \/ \E i \in DOMAIN pending :
                          e = [event |-> pending[i], result |-> "neutral", regular |-> regular]
  <1>1. pending \in Seq(Events)
      BY DEF TypeOK
  <1>2. ASSUME FinishNext(result), NEW e \in log', e \notin log
        PROVE  /\ pending # <<>>
               /\ e = [event |-> pending[1], result |-> result, regular |-> regular]
    <2>1. pending # <<>> /\ Write(<<Head(pending)>>, result)
        BY <1>2 DEF FinishNext, audit
    <2>2. PICK x \in Range(<<Head(pending)>>) :
             e = [event |-> x, result |-> result, regular |-> regular]
        BY <1>2, <2>1 DEF Write
    <2>3. x = Head(pending) /\ Head(pending) = pending[1]
        BY <1>1, <2>1, <2>2 DEF Range
    <2> QED BY <2>1, <2>2, <2>3
  <1>3. ASSUME FlushPending, NEW e \in log', e \notin log
        PROVE  \E i \in DOMAIN pending :
                  e = [event |-> pending[i], result |-> "neutral", regular |-> regular]
    <2>1. PICK x \in Range(pending) :
             e = [event |-> x, result |-> "neutral", regular |-> regular]
        BY <1>3 DEF FlushPending, Write
    <2> QED BY <2>1 DEF Range
  <1> QED BY <1>2, <1>3

LEMMA ObserveAudit == AuditInv /\ IInv' /\ Observe => AuditInv'
  <1> SUFFICES ASSUME AuditInv, IInv', Observe PROVE AuditInv'
      OBVIOUS
  <1> DEFINE a == Coming[1]
  <1>1. /\ TypeOK /\ TypeOK' /\ ReadInOrder /\ AnsweredInOrder /\ NotAnswered /\ WrittenTrue
        /\ AuditedInOrder /\ EventsOK /\ WireOK
      BY DEF AuditInv, IInv
  <1>2. /\ 1 \in DOMAIN Coming /\ Head(inHand) = a
        /\ Len(Coming') = Len(Coming) - 1
        /\ \A j \in DOMAIN Coming' : j + 1 \in DOMAIN Coming /\ Coming'[j] = Coming[j + 1]
        /\ \A j \in DOMAIN Coming :
              j = 1 \/ (j - 1 \in DOMAIN Coming' /\ Coming'[j - 1] = Coming[j])
      BY <1>1, ComingAfterObserve
  <1>3. /\ UNCHANGED <<sent, asked, toServer, skipping, outcome>>
        /\ answered' = (IF a.type = "ready" THEN a.id ELSE answered)
        /\ regular' = (regular \/ (a.type = "ready" /\ a.id = sent))
        /\ \/ a.type = "complete" /\ FinishNext("ok")
           \/ a.type = "error" /\ FinishNext("failed")
           \/ a.type = "ready" /\ FlushPending
      BY <1>2 DEF Observe, frontend, server
  <1>4. /\ Len(Coming) \in Nat /\ DOMAIN Coming = 1..Len(Coming) /\ Served \in Int
        /\ DOMAIN Coming' = 1..Len(Coming') /\ Len(Coming') \in Nat
        /\ \A j \in DOMAIN Coming : Coming[j].id \in Nat
        /\ DOMAIN pending = 1..Len(pending) /\ Len(pending) \in Nat /\ pending \in Seq(Events)
        /\ DOMAIN pending' = 1..Len(pending') /\ Len(pending') \in Nat
        /\ \A i \in DOMAIN pending : pending[i].id \in Ids
        /\ DOMAIN toServer = 1..Len(toServer) /\ Len(toServer) \in Nat
        /\ \A k \in DOMAIN toServer : toServer[k].id \in Ids
        /\ \A id \in Ids : id \in Nat
        /\ sent \in Nat
      BY <1>1, ComingIs, Numbers
  <1> HIDE DEF a
  <1>5. Served' = Served /\ \A id : Skipped(id)' <=> Skipped(id)
      BY <1>3 DEF Served, Skipped
  \* What is left of the queue.
  <1>6. /\ a.type = "ready" => pending' = <<>>
        /\ a.type # "ready" =>
              \/ pending = <<>> /\ pending' = <<>>
              \/ pending # <<>> /\ pending' = Tail(pending)
        /\ \A i \in DOMAIN pending' : i + 1 \in DOMAIN pending /\ pending'[i] = pending[i + 1]
        /\ a.type # "ready" =>
              \A i \in DOMAIN pending :
                 i = 1 \/ (i - 1 \in DOMAIN pending' /\ pending'[i - 1] = pending[i])
    <2>1. /\ a.type = "ready" => pending' = <<>>
          /\ a.type # "ready" =>
              \/ pending = <<>> /\ pending' = <<>>
              \/ pending # <<>> /\ pending' = Tail(pending)
        BY <1>3 DEF FinishNext, FlushPending, audit
    <2>2. CASE pending' = <<>> /\ (pending = <<>> \/ a.type = "ready")
        BY <2>1, <2>2
    <2>3. CASE pending # <<>> /\ pending' = Tail(pending)
      <3>1. /\ Len(pending') = Len(pending) - 1
            /\ \A i \in 1..Len(pending') : pending'[i] = pending[i + 1]
          BY <1>4, <2>3, HeadTailProperties
      <3> QED BY <1>4, <2>1, <3>1
    <2> QED BY <2>1, <2>2, <2>3
  <1>7. ReadInOrder'
      BY <1>1, <1>3, <1>5, <1>6 DEF ReadInOrder
  <1>8. AnsweredInOrder'
    <2>1. /\ \A j \in DOMAIN Coming' : Coming'[j].id <= Served'
          /\ \A j, k \in DOMAIN Coming' :
                j < k /\ Coming'[j].type = "ready" => Coming'[j].id < Coming'[k].id
      <3>1. \A j, k \in DOMAIN Coming' : j < k => j + 1 < k + 1
          BY <1>4
      <3> QED BY <1>1, <1>2, <1>5, <3>1 DEF AnsweredInOrder
    <2>2. ASSUME NEW j \in DOMAIN Coming', Coming'[j].type = "error"
          PROVE  skipping' \/ \E k \in DOMAIN Coming' : j < k /\ Coming'[k].type = "ready"
      <3>1. j + 1 \in DOMAIN Coming /\ Coming[j + 1].type = "error"
          BY <1>2, <2>2
      <3>2. skipping \/ \E k \in DOMAIN Coming : j + 1 < k /\ Coming[k].type = "ready"
          BY <1>1, <3>1 DEF AnsweredInOrder
      <3>3. ASSUME NEW k \in DOMAIN Coming, j + 1 < k, Coming[k].type = "ready"
            PROVE  \E l \in DOMAIN Coming' : j < l /\ Coming'[l].type = "ready"
        <4>1. k # 1 /\ j < k - 1
            BY <1>4, <3>3
        <4>2. k - 1 \in DOMAIN Coming' /\ Coming'[k - 1] = Coming[k]
            BY <1>2, <4>1
        <4> QED BY <3>3, <4>1, <4>2
      <3> QED BY <1>3, <3>2, <3>3
    <2> QED BY <2>1, <2>2 DEF AnsweredInOrder
  <1>9. NotAnswered'
    <2>1. CASE a.type = "ready"
      <3>1. answered' = a.id /\ a.id <= Served /\ a.id \in Nat
          BY <1>1, <1>2, <1>3, <1>4, <2>1 DEF AnsweredInOrder, a
      <3>2. \A k \in DOMAIN toServer : a.id < toServer[k].id
          BY <1>1, <1>4, <3>1 DEF ReadInOrder
      <3>3. \A j \in DOMAIN Coming' : a.id < Coming'[j].id
        <4>1. \A j \in DOMAIN Coming' : 1 < j + 1
            BY <1>4
        <4> QED BY <1>1, <1>2, <2>1, <4>1 DEF AnsweredInOrder, a
      <3> QED BY <1>3, <3>1, <3>2, <3>3 DEF NotAnswered
    <2>2. CASE a.type # "ready"
        BY <1>1, <1>2, <1>3, <2>2 DEF NotAnswered
    <2> QED BY <2>1, <2>2
  \* In step again: what was sent has been answered.
  <1>10. ASSUME a.type = "ready", a.id = sent
         PROVE  BeforeReady' /\ Matched' /\ QueriesQueued'
    <2>1. a.id <= Served
        BY <1>1, <1>2 DEF AnsweredInOrder, a
    <2>2. toServer = <<>>
      <3>1. Len(toServer) = 0
          BY <1>4, <1>10, <2>1 DEF Served
      <3>2. toServer \in Seq([id : Ids, request : Requests])
          BY <1>1, ComingIs
      <3> QED BY <3>1, <3>2, EmptySeq
    <2>3. DOMAIN Coming' = {}
      <3> SUFFICES ASSUME NEW j \in DOMAIN Coming' PROVE FALSE
          OBVIOUS
      <3>1. j + 1 \in DOMAIN Coming /\ 1 < j + 1
          BY <1>2, <1>4
      <3>2. a.id < Coming[j + 1].id /\ Coming[j + 1].id <= Served
          BY <1>1, <1>2, <1>10, <3>1 DEF AnsweredInOrder, a
      <3>3. Served <= sent
          BY <1>4 DEF Served
      <3> QED BY <1>4, <1>10, <3>1, <3>2, <3>3
    <2>4. DOMAIN pending' = {} /\ DOMAIN toServer' = {}
        BY <1>3, <1>6, <1>10, <2>2
    <2> QED BY <2>3, <2>4 DEF BeforeReady, Matched, QueriesQueued
  <1>11. ASSUME regular
         PROVE  /\ BeforeReady' /\ Matched' /\ QueriesQueued'
                /\ a.type = "complete" =>
                      pending # <<>> /\ outcome[pending[1].id] = "ok"
                /\ a.type = "error" /\ pending # <<>> =>
                      outcome[pending[1].id] \in {"failed", "skipped"} \/ Skipped(pending[1].id)
                /\ a.type = "ready" =>
                      \A i \in DOMAIN pending : outcome[pending[i].id] = "skipped"
    <2>1. BeforeReady /\ Matched /\ QueriesQueued
        BY <1>11 DEF AuditInv, InStep
    <2>a. \A i \in DOMAIN pending : outcome[pending[i].id] \in Outcomes
        BY <1>1, <1>4 DEF TypeOK
    <2>2. BeforeReady'
        BY <1>2, <1>3, <1>6, <2>1 DEF BeforeReady
    <2>3. ASSUME a.type = "ready", NEW i \in DOMAIN pending
          PROVE  outcome[pending[i].id] = "skipped"
      <3>1. pending[i].id <= a.id /\ a.id <= Served
          BY <1>1, <1>2, <2>1, <2>3 DEF BeforeReady, AnsweredInOrder, a
      <3>2. outcome[pending[i].id] # "none"
          BY <1>1, <1>2, <1>4, <3>1 DEF ReadInOrder, a
      <3>3. 1 \in 1..i
          BY <1>4
      <3>4. outcome[pending[i].id] # "ok"
          BY <2>1, <2>3, <3>3 DEF Matched, CompletedUpTo, a
      <3>5. outcome[pending[i].id] # "failed"
        <4>1. i = 1 \/ 1 \in 1..(i - 1)
            BY <1>4
        <4> QED BY <2>1, <2>3, <4>1 DEF Matched, a
      <3> QED BY <2>a, <3>2, <3>4, <3>5 DEF Outcomes
    <2>4. ASSUME a.type = "error", pending # <<>>
          PROVE  /\ outcome[pending[1].id] \in {"failed", "skipped"} \/ Skipped(pending[1].id)
                 /\ Skipped(pending[1].id) =>
                      \A l \in DOMAIN toServer :
                         toServer[l].request.type = "sync" => pending[1].id < toServer[l].id
      <3>1. 1 \in DOMAIN pending
          BY <1>4, <2>4, EmptySeq
      <3>2. outcome[pending[1].id] # "ok"
        <4>1. 1 \in 1..1
            OBVIOUS
        <4> QED BY <2>1, <2>4, <3>1, <4>1 DEF Matched, CompletedUpTo, a
      <3>3. ASSUME outcome[pending[1].id] = "none" PROVE Skipped(pending[1].id)
        <4>1. pending[1].id > Served
            BY <1>1, <1>4, <3>1, <3>3 DEF ReadInOrder
        <4>2. \A j \in DOMAIN Coming : Coming[j].type # "ready"
          <5> SUFFICES ASSUME NEW j \in DOMAIN Coming, Coming[j].type = "ready" PROVE FALSE
              OBVIOUS
          <5>1. pending[1].id <= Coming[j].id /\ Coming[j].id <= Served
              BY <1>1, <2>1, <3>1 DEF BeforeReady, AnsweredInOrder
          <5> QED BY <1>4, <3>1, <4>1, <5>1
        <4>3. skipping
            BY <1>1, <1>2, <2>4, <4>2 DEF AnsweredInOrder, a
        <4>4. \A k \in DOMAIN toServer :
                 toServer[k].request.type = "sync" => pending[1].id < toServer[k].id
            BY <2>1, <3>1 DEF BeforeReady, Asks
        <4> QED BY <3>3, <4>3, <4>4 DEF Skipped
      <3> QED BY <2>a, <3>1, <3>2, <3>3 DEF Outcomes, Skipped
    <2>5. ASSUME a.type = "complete" PROVE pending # <<>> /\ outcome[pending[1].id] = "ok"
        BY <1>2, <2>1, <2>5 DEF Matched, a
    <2>6. Matched'
      <3>1. CASE a.type = "ready"
        <4>1. DOMAIN pending' = {}
            BY <1>6, <3>1
        <4>2. \A j \in DOMAIN Coming' : Coming'[j].type # "complete"
          <5> SUFFICES ASSUME NEW j \in DOMAIN Coming', Coming'[j].type = "complete" PROVE FALSE
              OBVIOUS
          <5>1. j + 1 \in DOMAIN Coming /\ Coming[j + 1].type = "complete" /\ 1 < j + 1
              BY <1>2, <1>4
          <5>2. j + 1 \in DOMAIN pending /\ outcome[pending[j + 1].id] = "ok"
              BY <2>1, <5>1 DEF Matched
          <5> QED BY <2>3, <3>1, <5>2
        <4> QED BY <4>1, <4>2 DEF Matched
      <3>2. CASE a.type # "ready"
        <4>1. ASSUME NEW j \in DOMAIN Coming', Coming'[j].type = "complete"
              PROVE  /\ j \in DOMAIN pending' /\ pending'[j].id = Coming'[j].id
                     /\ outcome'[pending'[j].id] = "ok"
          <5>1. j + 1 \in DOMAIN Coming /\ Coming'[j] = Coming[j + 1] /\ j + 1 # 1 /\ (j + 1) - 1 = j
              BY <1>2, <1>4, <4>1
          <5>2. /\ j + 1 \in DOMAIN pending /\ pending[j + 1].id = Coming[j + 1].id
                /\ outcome[pending[j + 1].id] = "ok"
              BY <2>1, <4>1, <5>1 DEF Matched
          <5>3. j \in DOMAIN pending' /\ pending'[j] = pending[j + 1]
              BY <1>6, <3>2, <5>1, <5>2
          <5> QED BY <1>3, <5>1, <5>2, <5>3
        <4>2. ASSUME NEW i \in DOMAIN pending'
              PROVE  /\ outcome'[pending'[i].id] = "ok" => CompletedUpTo(i)'
                     /\ outcome'[pending'[i].id] = "failed" =>
                           /\ i \in DOMAIN Coming' /\ Coming'[i].type = "error"
                           /\ \A k \in 1..(i-1) : Coming'[k].type = "complete"
                     /\ outcome'[pending'[i].id] \in {"failed", "skipped"} =>
                           skipping' \/ \E j \in DOMAIN Coming' : Coming'[j].type = "ready"
          <5>1. /\ i + 1 \in DOMAIN pending /\ outcome'[pending'[i].id] = outcome[pending[i + 1].id]
                /\ i \in Nat /\ i >= 1
            <6>1. i + 1 \in DOMAIN pending /\ pending'[i] = pending[i + 1]
                BY <1>6
            <6>2. i \in Nat /\ i >= 1
                BY <1>4
            <6> QED BY <1>3, <6>1, <6>2
          <5>a. \A k \in DOMAIN Coming : k # 1 =>
                   k - 1 \in DOMAIN Coming' /\ Coming'[k - 1] = Coming[k]
              BY <1>2
          <5>2. ASSUME CompletedUpTo(i + 1) PROVE CompletedUpTo(i)'
            <6>1. i + 1 \in DOMAIN Coming /\ i + 1 # 1 /\ (i + 1) - 1 = i
                BY <5>1, <5>2 DEF CompletedUpTo
            <6>2. i \in DOMAIN Coming'
                BY <5>a, <6>1
            <6>3. ASSUME NEW k \in 1..i PROVE Coming'[k].type = "complete"
              <7>1. k \in DOMAIN Coming' /\ k + 1 \in 1..(i + 1)
                  BY <1>4, <5>1, <6>2
              <7> QED BY <1>2, <5>2, <7>1 DEF CompletedUpTo
            <6> QED BY <6>2, <6>3 DEF CompletedUpTo
          <5>3. outcome[pending[i + 1].id] = "failed" =>
                           /\ i \in DOMAIN Coming' /\ Coming'[i].type = "error"
                           /\ \A k \in 1..(i-1) : Coming'[k].type = "complete"
            <6> SUFFICES ASSUME outcome[pending[i + 1].id] = "failed"
                         PROVE  /\ i \in DOMAIN Coming' /\ Coming'[i].type = "error"
                                /\ \A k \in 1..(i-1) : Coming'[k].type = "complete"
                OBVIOUS
            <6>1. /\ i + 1 \in DOMAIN Coming /\ Coming[i + 1].type = "error"
                  /\ \A k \in 1..((i + 1) - 1) : Coming[k].type = "complete"
                BY <2>1, <5>1 DEF Matched
            <6>2. i + 1 # 1 /\ (i + 1) - 1 = i
                BY <5>1
            <6>3. i \in DOMAIN Coming' /\ Coming'[i] = Coming[i + 1]
                BY <5>a, <6>1, <6>2
            <6>4. ASSUME NEW k \in 1..(i - 1) PROVE Coming'[k].type = "complete"
              <7>1. k \in DOMAIN Coming' /\ k + 1 \in 1..((i + 1) - 1)
                  BY <1>4, <5>1, <6>3
              <7> QED BY <1>2, <6>1, <7>1
            <6> QED BY <6>1, <6>3, <6>4
          <5>4. (\E j \in DOMAIN Coming : Coming[j].type = "ready") =>
                   \E j \in DOMAIN Coming' : Coming'[j].type = "ready"
            <6> SUFFICES ASSUME NEW j \in DOMAIN Coming, Coming[j].type = "ready"
                         PROVE  \E l \in DOMAIN Coming' : Coming'[l].type = "ready"
                OBVIOUS
            <6>1. j # 1
                BY <3>2 DEF a
            <6> QED BY <5>a, <6>1
          <5>5. outcome[pending[i + 1].id] = "ok" => CompletedUpTo(i)'
              BY <2>1, <5>1, <5>2 DEF Matched
          <5>6. outcome[pending[i + 1].id] \in {"failed", "skipped"} =>
                   skipping' \/ \E j \in DOMAIN Coming' : Coming'[j].type = "ready"
              BY <1>3, <2>1, <5>1, <5>4 DEF Matched
          <5> QED BY <5>1, <5>3, <5>5, <5>6
        <4> QED BY <4>1, <4>2 DEF Matched
      <3> QED BY <3>1, <3>2
    <2>7. ASSUME NEW k \in DOMAIN toServer', toServer'[k].request.type = "query"
          PROVE  \/ \E i \in DOMAIN pending' : pending'[i].id = toServer'[k].id
                 \/ skipping' /\ \A l \in 1..(k - 1) : toServer'[l].request.type # "sync"
      <3>1. toServer' = toServer /\ skipping' = skipping
          BY <1>3
      <3>2. CASE skipping /\ \A l \in 1..(k - 1) : toServer[l].request.type # "sync"
          BY <3>1, <3>2
      <3>3. CASE Queued(toServer[k].id)
        <4>1. PICK i \in DOMAIN pending : pending[i].id = toServer[k].id
            BY <3>3 DEF Queued
        <4>2. outcome[pending[i].id] = "none"
          <5>1. toServer[k].id > Served
              BY <1>1, <1>4, <2>7, <3>1 DEF ReadInOrder
          <5> QED BY <1>1, <1>4, <4>1, <5>1 DEF ReadInOrder
        <4>3. a.type # "ready"
            BY <2>3, <4>2
        <4>4. CASE i # 1
            BY <1>6, <3>1, <4>1, <4>3, <4>4
        <4>5. CASE i = 1
          <5>1. a.type = "error" /\ pending # <<>>
            <6>1. a.type # "complete"
                BY <2>5, <4>2, <4>5
            <6> QED BY <1>3, <4>1, <4>3, <6>1
          <5>2. Skipped(pending[1].id)
              BY <2>4, <4>2, <4>5, <5>1
          <5>3. ASSUME NEW l \in 1..(k - 1) PROVE toServer[l].request.type # "sync"
            <6>1. l \in DOMAIN toServer /\ toServer[l].id < toServer[k].id
                BY <1>1, <1>4, <2>7, <3>1 DEF ReadInOrder
            <6>2. toServer[l].request.type = "sync" => toServer[k].id < toServer[l].id
                BY <4>1, <4>5, <5>2, <6>1 DEF Skipped
            <6> QED BY <1>4, <2>7, <3>1, <6>1, <6>2
          <5> QED BY <3>1, <5>2, <5>3 DEF Skipped
        <4> QED BY <4>4, <4>5
      <3> QED BY <2>1, <2>7, <3>1, <3>2, <3>3 DEF QueriesQueued
    <2>8. QueriesQueued'
        BY <2>7 DEF QueriesQueued, Queued
    <2> QED BY <2>2, <2>3, <2>4, <2>5, <2>6, <2>8
  <1>12. InStep'
      BY <1>3, <1>10, <1>11 DEF InStep
  <1>13. ASSUME NEW e \in log', e.regular
         PROVE  LET became == outcome'[e.event.id]
                IN /\ e.result = "ok" => became = "ok"
                   /\ e.result = "failed" =>
                         became \in {"failed", "skipped"} \/ Skipped(e.event.id)'
                   /\ e.result = "neutral" => became = "skipped"
    <2>1. CASE e \in log
        BY <1>1, <1>3, <1>5, <1>13, <2>1 DEF WrittenTrue
    <2>2. CASE e \notin log
      <3>1. CASE a.type = "ready"
        <4>1. PICK i \in DOMAIN pending :
                 e = [event |-> pending[i], result |-> "neutral", regular |-> regular]
            BY <1>1, <1>3, <2>2, <3>1, Wrote
        <4>2. regular /\ e.event.id = pending[i].id /\ e.result = "neutral"
            BY <1>13, <4>1
        <4>3. outcome[pending[i].id] = "skipped"
            BY <1>11, <3>1, <4>2
        <4> QED BY <1>3, <4>2, <4>3
      <3>2. CASE a.type = "complete"
        <4>1. e = [event |-> pending[1], result |-> "ok", regular |-> regular]
            BY <1>1, <1>3, <2>2, <3>2, Wrote
        <4>2. regular /\ e.event.id = pending[1].id /\ e.result = "ok"
            BY <1>13, <4>1
        <4>3. outcome[pending[1].id] = "ok"
            BY <1>11, <3>2, <4>2
        <4> QED BY <1>3, <4>2, <4>3
      <3>3. CASE a.type = "error"
        <4>1. pending # <<>>
              /\ e = [event |-> pending[1], result |-> "failed", regular |-> regular]
            BY <1>1, <1>3, <2>2, <3>3, Wrote
        <4>2. regular /\ e.event.id = pending[1].id /\ e.result = "failed"
            BY <1>13, <4>1
        <4>3. outcome[pending[1].id] \in {"failed", "skipped"} \/ Skipped(pending[1].id)
            BY <1>11, <3>3, <4>1, <4>2
        <4> QED BY <1>3, <1>5, <4>2, <4>3
      <3> QED BY <1>3, <3>1, <3>2, <3>3
    <2> QED BY <2>1, <2>2
  <1>14. WrittenTrue'
      BY <1>13 DEF WrittenTrue
  <1> QED BY <1>7, <1>8, <1>9, <1>12, <1>14 DEF AuditInv

\* Requests, answers and events stay in step while regular says so.
THEOREM AuditInvariance == Spec => []AuditInv
  <1>1. AuditInv /\ IInv' /\ [Next]_vars => AuditInv'
      BY ClientAudit, ServerAudit, ObserveAudit, OtherAudit DEF Next
  <1>2. Spec => []IInv
      BY Invariance
  <1> QED BY InitAudit, <1>1, <1>2, PTL DEF Spec

\* While answers and events are in step, a line of the audit log says what the server
\* did with its request: finishNext completes the event the answer belongs to, and
\* flushPending finds only what the server skipped.
THEOREM AuditedTruly == Spec => []AuditIsTrue
  <1>1. AuditInv => AuditIsTrue
      BY DEF AuditInv, WrittenTrue, Skipped, AuditIsTrue
  <1> QED BY AuditInvariance, <1>1, PTL

-----------------------------------------------------------------------------
(* ExecutedIsRecorded.  The names that the client's messages have on their  *)
(* way to the server are those that the proxy's maps have already.          *)

Renames(r, n) == r = CloseStatement(n) \/ \E t \in Texts : r = Parse(n, t)
Rebinds(r, p) == r = ClosePortal(p) \/ \E n \in Names : r = Bind(p, n)

NotRenamed(n, l, k) ==
    \A i \in DOMAIN toServer : l < i /\ i < k => ~Renames(toServer[i].request, n)
NotRebound(p, l, k) ==
    \A i \in DOMAIN toServer : l < i /\ i < k => ~Rebinds(toServer[i].request, p)

\* The text of a statement when the server comes to message k, if it does all that
\* is before.
Comes(n, k, t) ==
    \/ \E l \in DOMAIN toServer :
          l < k /\ toServer[l].request = Parse(n, t) /\ NotRenamed(n, l, k)
    \/ statements[n] = t /\ t # NoText /\ NotRenamed(n, 0, k)

\* The same for a portal.
Gives(p, k, t) ==
    \/ \E l \in DOMAIN toServer, n \in Names :
          /\ l < k /\ toServer[l].request = Bind(p, n) /\ Comes(n, l, t)
          /\ NotRebound(p, l, k)
    \/ opened[p] = t /\ t # NoText /\ NotRebound(p, 0, k)

Recorded(id, t) ==
    \/ id \in unwritten
    \/ \E i \in DOMAIN pending : pending[i] = [id |-> id, text |-> t]
    \/ \E e \in log : e.event = [id |-> id, text |-> t]

\* What the server will have under a name is what the proxy has, or nothing.
MapsAgree ==
    \A k : k = Len(toServer) + 1 =>
        /\ \A n \in Names, t \in Texts : Comes(n, k, t) => prepared[n] = t
        /\ \A p \in Portals, t \in Texts : Gives(p, k, t) => portals[p] = t

\* What the server is going to execute is recorded.
ToExecuteRecorded ==
    \A k \in DOMAIN toServer, id \in Ids, p \in Portals, t \in Texts :
        toServer[k] = [id |-> id, request |-> Execute(p)] /\ Gives(p, k, t) => Recorded(id, t)
ToQueryRecorded ==
    \A k \in DOMAIN toServer, id \in Ids, t \in Texts :
        toServer[k] = [id |-> id, request |-> Query(t)] => Recorded(id, t)

HasExecutedRecorded ==
    \A id \in Ids, t \in Texts : executed[id] = t => Recorded(id, t)

RecordInv ==
    /\ ToQueryRecorded
    /\ skipping => opened = NoTexts(Portals)
    /\ ~diverged => MapsAgree /\ ToExecuteRecorded /\ HasExecutedRecorded

LEMMA InitRecord == Init => RecordInv
  <1> SUFFICES ASSUME Init PROVE RecordInv
      OBVIOUS
  <1>1. /\ DOMAIN toServer = {} /\ skipping = FALSE
        /\ \A n \in Names : statements[n] = NoText
        /\ \A p \in Portals : opened[p] = NoText
        /\ \A id \in Ids : executed[id] = NoText
      BY DEF Init, NoTexts
  <1>2. \A t \in Texts : t # NoText
      BY TextsType
  <1>3. /\ \A k, t : \A n \in Names : ~Comes(n, k, t)
        /\ \A k, t : \A p \in Portals : ~Gives(p, k, t)
      BY <1>1 DEF Comes, Gives
  <1> QED BY <1>1, <1>2, <1>3 DEF RecordInv, ToQueryRecorded, MapsAgree, ToExecuteRecorded,
     HasExecutedRecorded

\* The parts of what was sent; names that are the same.
LEMMA RequestForms ==
    /\ \A t : Query(t).type = "query" /\ Query(t).text = t
    /\ \A n, t : Parse(n, t).type = "parse" /\ Parse(n, t).name = n /\ Parse(n, t).text = t
    /\ \A p, n : Bind(p, n).type = "bind" /\ Bind(p, n).portal = p /\ Bind(p, n).name = n
    /\ \A p : Execute(p).type = "execute" /\ Execute(p).portal = p
    /\ \A n : CloseStatement(n).type = "close_s" /\ CloseStatement(n).name = n
    /\ \A p : ClosePortal(p).type = "close_p" /\ ClosePortal(p).portal = p
    /\ Sync.type = "sync"
  BY DEF Query, Parse, Bind, Execute, CloseStatement, ClosePortal, Sync

LEMMA Forms ==
    ASSUME NEW r \in Requests
    PROVE  /\ r.type = "query" => r = Query(r.text) /\ r.text \in Texts
           /\ r.type = "parse" => r = Parse(r.name, r.text) /\ r.name \in Names /\ r.text \in Texts
           /\ r.type = "bind" => r = Bind(r.portal, r.name) /\ r.portal \in Portals /\ r.name \in Names
           /\ r.type = "execute" => r = Execute(r.portal) /\ r.portal \in Portals
           /\ r.type = "close_s" => r = CloseStatement(r.name) /\ r.name \in Names
           /\ r.type = "close_p" => r = ClosePortal(r.portal) /\ r.portal \in Portals
  <1>1. \/ r = Sync
        \/ r.type = "query" /\ r = Query(r.text)
        \/ r.type = "parse" /\ r = Parse(r.name, r.text) /\ r.name \in Names
        \/ r.type = "bind" /\ r = Bind(r.portal, r.name) /\ r.portal \in Portals /\ r.name \in Names
        \/ r.type = "execute" /\ r = Execute(r.portal) /\ r.portal \in Portals
        \/ r.type = "close_s" /\ r = CloseStatement(r.name) /\ r.name \in Names
        \/ r.type = "close_p" /\ r = ClosePortal(r.portal) /\ r.portal \in Portals
      BY RequestsType
  <1>2. r.type \in {"query", "parse"} => r.text \in Texts
      BY RequestParts
  <1> QED BY <1>1, <1>2, RequestForms

\* What the server has of a name before and after it has read message m.
StatementsFollow(m) ==
    \A n \in Names, t \in Texts :
        statements'[n] = t =>
           \/ m.request = Parse(n, t)
           \/ statements[n] = t /\ ~Renames(m.request, n)
PortalsFollow(m) ==
    \A p \in Portals, t \in Texts :
        opened'[p] = t =>
           \/ \E n \in Names : m.request = Bind(p, n) /\ statements[n] = t
           \/ opened[p] = t /\ ~Rebinds(m.request, p)

LEMMA NamesFollow ==
    ASSUME IInv, RecordInv, ~diverged', toServer # <<>>, NEW m, m = Head(toServer),
           m.request \in Requests,
           \/ Skip(m) \/ ServeQuery(m) \/ ServeParse(m) \/ ServeBind(m)
           \/ ServeExecute(m) \/ ServeClose(m) \/ ServeSync(m)
    PROVE  StatementsFollow(m) /\ PortalsFollow(m) /\ ~diverged
           /\ (skipping' => opened' = NoTexts(Portals))
  <1> DEFINE r == m.request
  <1>1. /\ statements \in [Names -> Texts \union {NoText}]
        /\ opened \in [Portals -> Texts \union {NoText}]
        /\ Unnamed \in Names /\ Unnamed \in Portals
        /\ \A t \in Texts : t # NoText
        /\ \A p \in Portals : NoTexts(Portals)[p] = NoText
        /\ skipping => opened = NoTexts(Portals)
        /\ r \in Requests
      BY NamesType, TextsType DEF IInv, TypeOK, NoTexts, RecordInv
  <1>2. /\ \A n : Renames(r, n) => r.type \in {"parse", "close_s"} /\ r.name = n
        /\ \A p : Rebinds(r, p) => r.type \in {"bind", "close_p"} /\ r.portal = p
      BY RequestForms DEF Renames, Rebinds
  <1>3. /\ r.type = "parse" => r = Parse(r.name, r.text) /\ r.name \in Names /\ r.text \in Texts
        /\ r.type = "bind" => r = Bind(r.portal, r.name) /\ r.portal \in Portals /\ r.name \in Names
        /\ r.type = "close_s" => r.name \in Names
        /\ r.type = "close_p" => r.portal \in Portals
      BY <1>1, Forms
  <1> HIDE DEF r
  <1>4. CASE Skip(m)
    <2>1. /\ statements' = statements /\ opened' = opened /\ skipping
          /\ ~diverged /\ ~LeavesBehind(r) /\ skipping' = skipping
        BY <1>4 DEF Skip, r
    <2>2. StatementsFollow(m)
        BY <1>1, <1>2, <2>1 DEF StatementsFollow, LeavesBehind, r
    <2>3. PortalsFollow(m)
        BY <1>1, <2>1 DEF PortalsFollow
    <2> QED BY <1>1, <2>1, <2>2, <2>3
  <1>5. ASSUME Reject(m), statements' = statements, diverged' = diverged,
               r.type \in {"bind", "execute"}
        PROVE  StatementsFollow(m) /\ PortalsFollow(m) /\ ~diverged
               /\ (skipping' => opened' = NoTexts(Portals))
      BY <1>1, <1>2, <1>5 DEF Reject, StatementsFollow, PortalsFollow, r
  <1>6. CASE ServeQuery(m)
    <2>1. /\ r.type = "query" /\ skipping' = skipping /\ diverged' = diverged
          /\ \A n \in Names : statements'[n] = NoText \/ statements'[n] = statements[n]
          /\ \A p \in Portals : opened'[p] = NoText \/ opened'[p] = opened[p]
          /\ ~skipping
        BY <1>1, <1>6 DEF ServeQuery, r
    <2> QED BY <1>1, <1>2, <2>1 DEF StatementsFollow, PortalsFollow, r
  <1>7. CASE ServeParse(m)
    <2>1. r.type = "parse" /\ ~skipping
        BY <1>7 DEF ServeParse, r
    <2>2. CASE /\ statements' = [statements EXCEPT ![r.name] = r.text]
               /\ UNCHANGED <<opened, skipping, regular, diverged>>
      <3>1. StatementsFollow(m)
          BY <1>1, <1>2, <1>3, <2>1, <2>2 DEF StatementsFollow, r
      <3>2. PortalsFollow(m)
          BY <1>2, <2>1, <2>2 DEF PortalsFollow, r
      <3> QED BY <2>1, <2>2, <3>1, <3>2
    <2>3. CASE /\ Reject(m)
               /\ statements' = [statements EXCEPT ![Unnamed] =
                                   IF r.name = Unnamed THEN NoText ELSE @]
               /\ diverged' = (diverged \/ (r.name # Unnamed /\ LeavesBehind(r)))
      <3>1. ~diverged /\ (r.name # Unnamed => statements[r.name] = NoText)
          BY <2>1, <2>3 DEF LeavesBehind
      <3>2. \A n \in Names : n = r.name => statements'[n] = NoText
          BY <1>1, <2>3, <3>1
      <3>3. \A n \in Names : n # r.name => statements'[n] = statements[n]
          BY <1>1, <2>3
      <3>4. StatementsFollow(m)
          BY <1>1, <1>2, <3>2, <3>3 DEF StatementsFollow, r
      <3>5. PortalsFollow(m) /\ opened' = NoTexts(Portals)
          BY <1>1, <2>3 DEF PortalsFollow, Reject
      <3> QED BY <3>1, <3>4, <3>5
    <2> QED BY <1>7, <2>2, <2>3 DEF ServeParse, r
  <1>8. CASE ServeBind(m)
    <2>1. r.type = "bind" /\ ~skipping
        BY <1>8 DEF ServeBind, r
    <2>2. CASE /\ opened' = [opened EXCEPT ![r.portal] = statements[r.name]]
               /\ UNCHANGED <<statements, skipping, regular, diverged>>
      <3>1. StatementsFollow(m)
          BY <1>2, <2>1, <2>2 DEF StatementsFollow, r
      <3>2. PortalsFollow(m)
          BY <1>1, <1>2, <1>3, <2>1, <2>2 DEF PortalsFollow, r
      <3> QED BY <2>1, <2>2, <3>1, <3>2
    <2>3. CASE Reject(m) /\ UNCHANGED <<statements, diverged>>
        BY <1>5, <2>1, <2>3
    <2> QED BY <1>8, <2>2, <2>3 DEF ServeBind, r
  <1>9. CASE ServeExecute(m)
    <2>1. r.type = "execute" /\ ~skipping
        BY <1>9 DEF ServeExecute, r
    <2>2. CASE UNCHANGED <<statements, opened, skipping, diverged>>
        BY <1>2, <2>1, <2>2 DEF StatementsFollow, PortalsFollow, r
    <2>3. CASE Reject(m) /\ UNCHANGED <<statements, diverged>>
        BY <1>5, <2>1, <2>3
    <2> QED BY <1>9, <2>2, <2>3 DEF ServeExecute
  <1>10. CASE ServeClose(m)
    <2>1. r.type \in {"close_s", "close_p"} /\ ~skipping /\ ~skipping' /\ diverged' = diverged
        BY <1>10 DEF ServeClose, r
    <2>2. CASE r.type = "close_s"
      <3>1. /\ statements' = [statements EXCEPT ![r.name] = NoText]
            /\ \A p \in Portals : opened'[p] \in {NoText, opened[p]}
          BY <1>10, <2>2 DEF ServeClose, r
      <3>2. StatementsFollow(m)
          BY <1>1, <1>2, <2>2, <3>1 DEF StatementsFollow, r
      <3>3. PortalsFollow(m)
          BY <1>1, <1>2, <2>2, <3>1 DEF PortalsFollow, r
      <3> QED BY <2>1, <3>2, <3>3
    <2>3. CASE r.type = "close_p"
      <3>1. /\ opened' = [opened EXCEPT ![r.portal] = NoText] /\ statements' = statements
          BY <1>10, <2>3 DEF ServeClose, r
      <3>2. StatementsFollow(m)
          BY <1>2, <2>3, <3>1 DEF StatementsFollow, r
      <3>3. PortalsFollow(m)
          BY <1>1, <1>2, <2>3, <3>1 DEF PortalsFollow, r
      <3> QED BY <2>1, <3>2, <3>3
    <2> QED BY <2>1, <2>2, <2>3
  <1>11. CASE ServeSync(m)
    <2>1. /\ r.type = "sync" /\ opened' \in {opened, NoTexts(Portals)} /\ skipping' = FALSE
          /\ statements' = statements /\ diverged' = diverged
        BY <1>11 DEF ServeSync, r
    <2> QED BY <1>1, <1>2, <2>1 DEF StatementsFollow, PortalsFollow, r
  <1> QED BY <1>4, <1>6, <1>7, <1>8, <1>9, <1>10, <1>11

\* The server has read one message more.
LEMMA FollowingNames ==
    ASSUME NEW m, 1 \in DOMAIN toServer, m = toServer[1],
           DOMAIN toServer \subseteq Nat \ {0}, DOMAIN toServer' \subseteq Nat \ {0},
           \A k \in DOMAIN toServer' : k + 1 \in DOMAIN toServer /\ toServer'[k] = toServer[k + 1],
           \A k \in DOMAIN toServer :
              k = 1 \/ (k - 1 \in DOMAIN toServer' /\ toServer'[k - 1] = toServer[k]),
           StatementsFollow(m), PortalsFollow(m)
    PROVE  /\ \A k \in Nat \ {0}, n \in Names, t \in Texts : Comes(n, k, t)' => Comes(n, k + 1, t)
           /\ \A k \in Nat \ {0}, p \in Portals, t \in Texts : Gives(p, k, t)' => Gives(p, k + 1, t)
  <1>1. ASSUME NEW k \in Nat \ {0}, NEW l \in Nat
        PROVE  /\ \A n : NotRenamed(n, l, k)' => \A i \in DOMAIN toServer :
                           l + 1 < i /\ i < k + 1 => ~Renames(toServer[i].request, n)
               /\ \A p : NotRebound(p, l, k)' => \A i \in DOMAIN toServer :
                           l + 1 < i /\ i < k + 1 => ~Rebinds(toServer[i].request, p)
    <2>1. ASSUME NEW i \in DOMAIN toServer, l + 1 < i, i < k + 1
          PROVE  i - 1 \in DOMAIN toServer' /\ toServer'[i - 1] = toServer[i] /\ l < i - 1 /\ i - 1 < k
      <3>1. i \in Nat /\ i # 1
          BY <2>1
      <3> QED BY <2>1, <3>1
    <2>2. ASSUME NEW n, NotRenamed(n, l, k)', NEW i \in DOMAIN toServer, l + 1 < i, i < k + 1
          PROVE  ~Renames(toServer[i].request, n)
      <3>1. /\ i - 1 \in DOMAIN toServer' /\ toServer'[i - 1] = toServer[i] /\ l < i - 1
            /\ i - 1 < k
          BY <2>1, <2>2
      <3>2. \A j \in DOMAIN toServer' : l < j /\ j < k => ~Renames(toServer'[j].request, n)
          BY <2>2 DEF NotRenamed, Renames
      <3>3. ~Renames(toServer'[i - 1].request, n)
          BY <3>1, <3>2
      <3> QED BY <3>1, <3>3
    <2>3. ASSUME NEW p, NotRebound(p, l, k)', NEW i \in DOMAIN toServer, l + 1 < i, i < k + 1
          PROVE  ~Rebinds(toServer[i].request, p)
      <3>1. /\ i - 1 \in DOMAIN toServer' /\ toServer'[i - 1] = toServer[i] /\ l < i - 1
            /\ i - 1 < k
          BY <2>1, <2>3
      <3>2. \A j \in DOMAIN toServer' : l < j /\ j < k => ~Rebinds(toServer'[j].request, p)
          BY <2>3 DEF NotRebound, Rebinds
      <3>3. ~Rebinds(toServer'[i - 1].request, p)
          BY <3>1, <3>2
      <3> QED BY <3>1, <3>3
    <2> QED BY <2>2, <2>3
  <1>2. ASSUME NEW k \in Nat \ {0}
        PROVE  /\ \A n : NotRenamed(n, 0, k)' => NotRenamed(n, 1, k + 1)
               /\ \A n : NotRenamed(n, 0, k)' /\ ~Renames(m.request, n) => NotRenamed(n, 0, k + 1)
               /\ \A p : NotRebound(p, 0, k)' => NotRebound(p, 1, k + 1)
               /\ \A p : NotRebound(p, 0, k)' /\ ~Rebinds(m.request, p) => NotRebound(p, 0, k + 1)
               /\ \A l \in DOMAIN toServer' :
                     /\ \A n : NotRenamed(n, l, k)' => NotRenamed(n, l + 1, k + 1)
                     /\ \A p : NotRebound(p, l, k)' => NotRebound(p, l + 1, k + 1)
    <2>1. 0 + 1 = 1 /\ \A i \in DOMAIN toServer : i = 1 \/ 1 < i
        OBVIOUS
    <2>2. /\ \A n : NotRenamed(n, 0, k)' => NotRenamed(n, 1, k + 1)
          /\ \A p : NotRebound(p, 0, k)' => NotRebound(p, 1, k + 1)
        BY <1>1, <2>1 DEF NotRenamed, NotRebound
    <2>3. /\ \A n : NotRenamed(n, 1, k + 1) /\ ~Renames(m.request, n) => NotRenamed(n, 0, k + 1)
          /\ \A p : NotRebound(p, 1, k + 1) /\ ~Rebinds(m.request, p) => NotRebound(p, 0, k + 1)
        BY <2>1 DEF NotRenamed, NotRebound
    <2>4. \A l \in DOMAIN toServer' :
             /\ \A n : NotRenamed(n, l, k)' => NotRenamed(n, l + 1, k + 1)
             /\ \A p : NotRebound(p, l, k)' => NotRebound(p, l + 1, k + 1)
      <3>1. \A l \in DOMAIN toServer' : l \in Nat
          OBVIOUS
      <3> QED BY <1>1, <3>1 DEF NotRenamed, NotRebound
    <2> QED BY <2>2, <2>3, <2>4
  <1>3. ASSUME NEW k \in Nat \ {0}, NEW n \in Names, NEW t \in Texts, Comes(n, k, t)'
        PROVE  Comes(n, k + 1, t)
    <2>1. CASE \E l \in DOMAIN toServer' :
                  l < k /\ toServer'[l].request = Parse(n, t) /\ NotRenamed(n, l, k)'
      <3>1. PICK l \in DOMAIN toServer' :
                  l < k /\ toServer'[l].request = Parse(n, t) /\ NotRenamed(n, l, k)'
          BY <2>1
      <3>2. l + 1 \in DOMAIN toServer /\ toServer[l + 1].request = Parse(n, t) /\ l + 1 < k + 1
          BY <3>1
      <3>3. NotRenamed(n, l + 1, k + 1)
          BY <1>2, <3>1
      <3> QED BY <3>2, <3>3 DEF Comes
    <2>2. CASE statements'[n] = t /\ t # NoText /\ NotRenamed(n, 0, k)'
      <3>1. CASE m.request = Parse(n, t)
        <4>1. 1 < k + 1 /\ NotRenamed(n, 1, k + 1)
            BY <1>2, <2>2
        <4> QED BY <3>1, <4>1 DEF Comes
      <3>2. CASE statements[n] = t /\ ~Renames(m.request, n)
          BY <1>2, <2>2, <3>2 DEF Comes
      <3> QED BY <2>2, <3>1, <3>2 DEF StatementsFollow
    <2> QED BY <1>3, <2>1, <2>2 DEF Comes
  <1>4. ASSUME NEW k \in Nat \ {0}, NEW p \in Portals, NEW t \in Texts, Gives(p, k, t)'
        PROVE  Gives(p, k + 1, t)
    <2>1. CASE \E l \in DOMAIN toServer', n \in Names :
                  /\ l < k /\ toServer'[l].request = Bind(p, n) /\ Comes(n, l, t)'
                  /\ NotRebound(p, l, k)'
      <3>1. PICK l \in DOMAIN toServer', n \in Names :
                  /\ l < k /\ toServer'[l].request = Bind(p, n) /\ Comes(n, l, t)'
                  /\ NotRebound(p, l, k)'
          BY <2>1
      <3>2. l + 1 \in DOMAIN toServer /\ toServer[l + 1].request = Bind(p, n) /\ l + 1 < k + 1
          BY <3>1
      <3>3. NotRebound(p, l + 1, k + 1) /\ Comes(n, l + 1, t)
          BY <1>2, <1>3, <3>1
      <3> QED BY <3>2, <3>3 DEF Gives
    <2>2. CASE opened'[p] = t /\ t # NoText /\ NotRebound(p, 0, k)'
      <3>1. CASE \E n \in Names : m.request = Bind(p, n) /\ statements[n] = t
        <4>1. PICK n \in Names : m.request = Bind(p, n) /\ statements[n] = t
            BY <3>1
        <4>2. 1 < k + 1 /\ NotRebound(p, 1, k + 1)
            BY <1>2, <2>2
        <4>3. Comes(n, 1, t)
            BY <2>2, <4>1 DEF Comes, NotRenamed
        <4> QED BY <4>1, <4>2, <4>3 DEF Gives
      <3>2. CASE opened[p] = t /\ ~Rebinds(m.request, p)
          BY <1>2, <2>2, <3>2 DEF Gives
      <3> QED BY <2>2, <3>1, <3>2 DEF PortalsFollow
    <2> QED BY <1>4, <2>1, <2>2 DEF Gives
  <1> QED BY <1>3, <1>4

LEMMA ServerRecord == AuditInv /\ IInv' /\ RecordInv /\ Server => RecordInv'
  <1> SUFFICES ASSUME AuditInv, IInv', RecordInv, toServer # <<>>, NEW m, m = Head(toServer),
                      \/ Skip(m) \/ ServeQuery(m) \/ ServeParse(m) \/ ServeBind(m)
                      \/ ServeExecute(m) \/ ServeClose(m) \/ ServeSync(m)
               PROVE  RecordInv'
      BY DEF Server
  <1>1. TypeOK /\ TypeOK' /\ ReadInOrder /\ IInv
      BY DEF AuditInv, IInv
  <1>2. PICK answers \in Seq({"complete", "error", "ready"}) : Serve(m, answers)
    <2>1. /\ <<>> \in Seq({"complete", "error", "ready"})
          /\ <<"error">> \in Seq({"complete", "error", "ready"})
          /\ <<"complete">> \in Seq({"complete", "error", "ready"})
          /\ <<"ready">> \in Seq({"complete", "error", "ready"})
        OBVIOUS
    <2>2. CASE ServeQuery(m)
      <3> DEFINE text == m.request.text
      <3>1. PICK done \in 0..Len(text) :
               Serve(m, [i \in 1..done |-> "complete"]
                        \o (IF done < Len(text) THEN <<"error">> ELSE <<>>)
                        \o <<"ready">>)
          BY <2>2 DEF ServeQuery
      <3> HIDE DEF text
      <3>2. [i \in 1..done |-> "complete"] \in Seq({"complete", "error", "ready"})
        <4>1. done \in Nat
            OBVIOUS
        <4> QED BY <4>1
      <3>3. (IF done < Len(text) THEN <<"error">> ELSE <<>>) \in Seq({"complete", "error", "ready"})
          BY <2>1
      <3>4. \A a, b, c \in Seq({"complete", "error", "ready"}) :
               a \o b \o c \in Seq({"complete", "error", "ready"})
          OBVIOUS
      <3> QED BY <2>1, <3>1, <3>2, <3>3, <3>4, Zenon
    <2>3. CASE ~ServeQuery(m)
        BY <2>1, <2>3 DEF Skip, ServeParse, ServeBind, ServeExecute, ServeClose, ServeSync, Reject
    <2> QED BY <2>2, <2>3
  <1>3. /\ 1 \in DOMAIN toServer /\ m = toServer[1] /\ m.id \in Ids
        /\ \A k \in DOMAIN toServer' : k + 1 \in DOMAIN toServer /\ toServer'[k] = toServer[k + 1]
        /\ \A k \in DOMAIN toServer :
              k = 1 \/ (k - 1 \in DOMAIN toServer' /\ toServer'[k - 1] = toServer[k])
      BY <1>1, <1>2, ComingAfterServe
  <1>4. /\ DOMAIN toServer = 1..Len(toServer) /\ Len(toServer) \in Nat
        /\ DOMAIN toServer' = 1..Len(toServer') /\ Len(toServer') \in Nat
        /\ m.request \in Requests
        /\ m = [id |-> m.id, request |-> m.request]
        /\ Len(toServer') + 1 = Len(toServer)
    <2>1. /\ DOMAIN toServer = 1..Len(toServer) /\ Len(toServer) \in Nat
          /\ DOMAIN toServer' = 1..Len(toServer') /\ Len(toServer') \in Nat
          /\ toServer \in Seq([id : Ids, request : Requests])
        BY <1>1, ComingIs
    <2>2. m \in [id : Ids, request : Requests]
        BY <2>1, HeadTailProperties
    <2>3. Len(toServer) = Len(toServer') + 1
        BY <1>2, <2>1, HeadTailProperties DEF Serve
    <2> QED BY <2>1, <2>2, <2>3
  <1>5. /\ UNCHANGED <<pending, log, unwritten, prepared, portals>>
        /\ \A id, t : Recorded(id, t) => Recorded(id, t)'
      BY <1>2 DEF Serve, frontend, audit, Recorded
  <1>6. \A id \in Ids, t \in Texts :
           executed'[id] = t =>
              \/ executed[id] = t
              \/ id = m.id /\ m.request = Query(t)
              \/ id = m.id /\ \E p \in Portals : m.request = Execute(p) /\ opened[p] = t
    <2>1. executed \in [Ids -> Texts \union {NoText}] /\ \A t \in Texts : t # NoText
        BY <1>1, TextsType DEF TypeOK
    <2>2. ASSUME Becomes(m, "ok", NoText) \/ Becomes(m, "failed", NoText)
                 \/ Becomes(m, "skipped", NoText)
          PROVE  \A id \in Ids, t \in Texts : executed'[id] = t => executed[id] = t
        BY <2>1, <2>2 DEF Becomes
    <2>3. CASE ServeQuery(m)
      <3>1. Becomes(m, "ok", m.request.text) \/ Becomes(m, "failed", NoText)
          BY <2>3 DEF ServeQuery
      <3>2. m.request = Query(m.request.text)
          BY <1>4, <2>3, Forms DEF ServeQuery
      <3>3. CASE Becomes(m, "ok", m.request.text)
          BY <2>1, <3>2, <3>3 DEF Becomes
      <3> QED BY <2>2, <3>1, <3>3
    <2>4. CASE ServeExecute(m)
      <3>1. Becomes(m, "ok", opened[m.request.portal]) \/ Becomes(m, "failed", NoText)
          BY <2>4 DEF ServeExecute, Reject
      <3>2. m.request = Execute(m.request.portal) /\ m.request.portal \in Portals
          BY <1>4, <2>4, Forms DEF ServeExecute
      <3>3. CASE Becomes(m, "ok", opened[m.request.portal])
          BY <2>1, <3>2, <3>3 DEF Becomes
      <3> QED BY <2>2, <3>1, <3>3
    <2>5. CASE Skip(m) \/ ServeParse(m) \/ ServeBind(m) \/ ServeClose(m) \/ ServeSync(m)
      <3>1. Becomes(m, "ok", NoText) \/ Becomes(m, "failed", NoText)
            \/ Becomes(m, "skipped", NoText)
          BY <2>5 DEF Skip, ServeParse, ServeBind, ServeClose, ServeSync, Reject
      <3> QED BY <2>2, <3>1
    <2> QED BY <2>3, <2>4, <2>5
  <1>7. ToQueryRecorded'
    <2> SUFFICES ASSUME NEW k \in DOMAIN toServer', NEW id \in Ids, NEW t \in Texts,
                        toServer'[k] = [id |-> id, request |-> Query(t)]
                 PROVE  Recorded(id, t)'
        BY DEF ToQueryRecorded
    <2>1. Recorded(id, t)
        BY <1>3 DEF RecordInv, ToQueryRecorded
    <2> QED BY <1>5, <2>1
  <1>8. skipping' => opened' = NoTexts(Portals)
    <2>1. CASE diverged'
      <3>1. skipping => opened = NoTexts(Portals)
          BY DEF RecordInv
      <3> QED BY <3>1 DEF Skip, ServeQuery, ServeParse, ServeBind, ServeExecute, ServeClose,
                ServeSync, Reject
    <2>2. CASE ~diverged'
        BY <1>1, <1>4, <2>2, NamesFollow
    <2> QED BY <2>1, <2>2
  <1>9. ASSUME ~diverged' PROVE MapsAgree' /\ ToExecuteRecorded' /\ HasExecutedRecorded'
    <2>1. StatementsFollow(m) /\ PortalsFollow(m) /\ ~diverged
        BY <1>1, <1>4, <1>9, NamesFollow
    <2>2. MapsAgree /\ ToExecuteRecorded /\ HasExecutedRecorded
        BY <2>1 DEF RecordInv
    <2>3. /\ \A k \in Nat \ {0}, n \in Names, t \in Texts : Comes(n, k, t)' => Comes(n, k + 1, t)
          /\ \A k \in Nat \ {0}, p \in Portals, t \in Texts : Gives(p, k, t)' => Gives(p, k + 1, t)
      <3>1. DOMAIN toServer \subseteq Nat \ {0} /\ DOMAIN toServer' \subseteq Nat \ {0}
          BY <1>4
      <3> QED BY <1>3, <2>1, <3>1, FollowingNames
    <2>4. MapsAgree'
      <3> SUFFICES ASSUME NEW k, k = Len(toServer') + 1
                   PROVE  /\ \A n \in Names, t \in Texts : Comes(n, k, t)' => prepared'[n] = t
                          /\ \A p \in Portals, t \in Texts : Gives(p, k, t)' => portals'[p] = t
          BY DEF MapsAgree
      <3>1. k \in Nat \ {0} /\ k + 1 = Len(toServer) + 1
          BY <1>4
      <3> QED BY <1>5, <2>2, <2>3, <3>1 DEF MapsAgree
    <2>5. ASSUME NEW k \in DOMAIN toServer', NEW id \in Ids, NEW p \in Portals, NEW t \in Texts,
                 toServer'[k] = [id |-> id, request |-> Execute(p)], Gives(p, k, t)'
          PROVE  Recorded(id, t)'
      <3>1. k \in Nat \ {0}
          BY <1>4
      <3>2. Gives(p, k + 1, t) /\ k + 1 \in DOMAIN toServer /\ toServer[k + 1] = toServer'[k]
          BY <1>3, <2>3, <2>5, <3>1
      <3>3. Recorded(id, t)
          BY <2>2, <2>5, <3>2 DEF ToExecuteRecorded
      <3> QED BY <1>5, <3>3
    <2>6. ToExecuteRecorded'
        BY <2>5 DEF ToExecuteRecorded
    <2>7. ASSUME NEW id \in Ids, NEW t \in Texts, executed'[id] = t
          PROVE  Recorded(id, t)'
      <3>1. CASE executed[id] = t
          BY <1>5, <2>2, <3>1 DEF HasExecutedRecorded
      <3>2. CASE id = m.id /\ m.request = Query(t)
        <4>1. toServer[1] = [id |-> id, request |-> Query(t)]
            BY <1>3, <1>4, <3>2
        <4> QED BY <1>3, <1>5, <4>1 DEF RecordInv, ToQueryRecorded
      <3>3. CASE id = m.id /\ \E p \in Portals : m.request = Execute(p) /\ opened[p] = t
        <4>1. PICK p \in Portals : m.request = Execute(p) /\ opened[p] = t
            BY <3>3
        <4>2. toServer[1] = [id |-> id, request |-> Execute(p)]
            BY <1>3, <1>4, <3>3, <4>1
        <4>3. Gives(p, 1, t)
          <5>1. t # NoText
              BY TextsType
          <5>2. NotRebound(p, 0, 1)
              BY <1>4 DEF NotRebound
          <5> QED BY <4>1, <5>1, <5>2 DEF Gives
        <4> QED BY <1>3, <1>5, <2>2, <4>2, <4>3 DEF ToExecuteRecorded
      <3> QED BY <1>6, <2>7, <3>1, <3>2, <3>3
    <2>8. HasExecutedRecorded'
        BY <2>7 DEF HasExecutedRecorded
    <2> QED BY <2>4, <2>6, <2>8
  <1> QED BY <1>7, <1>8, <1>9 DEF RecordInv

\* One message more is on its way.
LEMMA MoreNames ==
    ASSUME NEW r, NEW L \in Nat, DOMAIN toServer = 1..L, DOMAIN toServer' = 1..(L + 1),
           \A k \in DOMAIN toServer : toServer'[k] = toServer[k],
           toServer'[L + 1].request = r,
           UNCHANGED <<statements, opened>>
    PROVE  /\ \A k \in 1..(L + 1), n \in Names, t \in Texts : Comes(n, k, t)' => Comes(n, k, t)
           /\ \A k \in 1..(L + 1), p \in Portals, t \in Texts : Gives(p, k, t)' => Gives(p, k, t)
           /\ \A k, n, t : k = (L + 1) + 1 /\ Comes(n, k, t)' /\ n \in Names /\ t \in Texts =>
                 r = Parse(n, t) \/ (~Renames(r, n) /\ Comes(n, L + 1, t))
           /\ \A k, p, t : k = (L + 1) + 1 /\ Gives(p, k, t)' /\ p \in Portals /\ t \in Texts =>
                 \/ \E n \in Names : r = Bind(p, n) /\ Comes(n, L + 1, t)
                 \/ ~Rebinds(r, p) /\ Gives(p, L + 1, t)
  <1>1. ASSUME NEW l, NEW k \in 1..(L + 2)
        PROVE  /\ \A n : NotRenamed(n, l, k)' =>
                     \A i \in DOMAIN toServer : l < i /\ i < k => ~Renames(toServer[i].request, n)
               /\ \A p : NotRebound(p, l, k)' =>
                     \A i \in DOMAIN toServer : l < i /\ i < k => ~Rebinds(toServer[i].request, p)
    <2>1. \A i \in DOMAIN toServer : i \in DOMAIN toServer' /\ toServer'[i] = toServer[i]
        OBVIOUS
    <2>2. ASSUME NEW n, NotRenamed(n, l, k)', NEW i \in DOMAIN toServer, l < i, i < k
          PROVE  ~Renames(toServer[i].request, n)
      <3>1. ~Renames(toServer'[i].request, n)
          BY <2>1, <2>2 DEF NotRenamed, Renames
      <3> QED BY <2>1, <3>1
    <2>3. ASSUME NEW p, NotRebound(p, l, k)', NEW i \in DOMAIN toServer, l < i, i < k
          PROVE  ~Rebinds(toServer[i].request, p)
      <3>1. ~Rebinds(toServer'[i].request, p)
          BY <2>1, <2>3 DEF NotRebound, Rebinds
      <3> QED BY <2>1, <3>1
    <2> QED BY <2>2, <2>3
  <1>2. ASSUME NEW l
        PROVE  /\ \A k \in 1..(L + 1) :
                     /\ \A n : NotRenamed(n, l, k)' => NotRenamed(n, l, k)
                     /\ \A p : NotRebound(p, l, k)' => NotRebound(p, l, k)
               /\ \A k : k = (L + 1) + 1 =>
                     /\ \A n : NotRenamed(n, l, k)' => NotRenamed(n, l, L + 1)
                     /\ \A p : NotRebound(p, l, k)' => NotRebound(p, l, L + 1)
    <2>1. (L + 1) + 1 \in 1..(L + 2) /\ \A k \in 1..(L + 1) : k \in 1..(L + 2)
        OBVIOUS
    <2>2. \A i \in DOMAIN toServer : i < (L + 1) + 1
        OBVIOUS
    <2> QED BY <1>1, <2>1, <2>2 DEF NotRenamed, NotRebound
  <1>3. ASSUME NEW l \in Nat, l < L + 1, NEW k, k = (L + 1) + 1
        PROVE  /\ \A n : NotRenamed(n, l, k)' => ~Renames(r, n)
               /\ \A p : NotRebound(p, l, k)' => ~Rebinds(r, p)
    <2>1. L + 1 \in DOMAIN toServer' /\ l < L + 1 /\ L + 1 < k
        BY <1>3
    <2> QED BY <2>1 DEF NotRenamed, NotRebound, Renames, Rebinds
  <1>4. \A l \in DOMAIN toServer' : l \in Nat /\ (l = L + 1 \/ (l \in DOMAIN toServer /\ l < L + 1))
      OBVIOUS
  <1>5. ASSUME NEW k \in 1..(L + 1), NEW n \in Names, NEW t \in Texts, Comes(n, k, t)'
        PROVE  Comes(n, k, t)
    <2>1. CASE \E l \in DOMAIN toServer' :
                  l < k /\ toServer'[l].request = Parse(n, t) /\ NotRenamed(n, l, k)'
      <3>1. PICK l \in DOMAIN toServer' :
                  l < k /\ toServer'[l].request = Parse(n, t) /\ NotRenamed(n, l, k)'
          BY <2>1
      <3>2. l # L + 1
          BY <3>1
      <3> QED BY <1>2, <1>4, <3>1, <3>2 DEF Comes
    <2>2. CASE statements'[n] = t /\ t # NoText /\ NotRenamed(n, 0, k)'
        BY <1>2, <2>2 DEF Comes
    <2> QED BY <1>5, <2>1, <2>2 DEF Comes
  <1>6. ASSUME NEW k \in 1..(L + 1), NEW p \in Portals, NEW t \in Texts, Gives(p, k, t)'
        PROVE  Gives(p, k, t)
    <2>1. CASE \E l \in DOMAIN toServer', n \in Names :
                  /\ l < k /\ toServer'[l].request = Bind(p, n) /\ Comes(n, l, t)'
                  /\ NotRebound(p, l, k)'
      <3>1. PICK l \in DOMAIN toServer', n \in Names :
                  /\ l < k /\ toServer'[l].request = Bind(p, n) /\ Comes(n, l, t)'
                  /\ NotRebound(p, l, k)'
          BY <2>1
      <3>2. l # L + 1
          BY <3>1
      <3>3. Comes(n, l, t)
          BY <1>5, <3>1
      <3> QED BY <1>2, <1>4, <3>1, <3>2, <3>3 DEF Gives
    <2>2. CASE opened'[p] = t /\ t # NoText /\ NotRebound(p, 0, k)'
        BY <1>2, <2>2 DEF Gives
    <2> QED BY <1>6, <2>1, <2>2 DEF Gives
  <1>7. ASSUME NEW k, k = (L + 1) + 1, NEW n \in Names, NEW t \in Texts, Comes(n, k, t)'
        PROVE  r = Parse(n, t) \/ (~Renames(r, n) /\ Comes(n, L + 1, t))
    <2>1. CASE \E l \in DOMAIN toServer' :
                  l < k /\ toServer'[l].request = Parse(n, t) /\ NotRenamed(n, l, k)'
      <3>1. PICK l \in DOMAIN toServer' :
                  l < k /\ toServer'[l].request = Parse(n, t) /\ NotRenamed(n, l, k)'
          BY <2>1
      <3>2. CASE l \in DOMAIN toServer /\ l < L + 1
        <4>1. NotRenamed(n, l, L + 1) /\ ~Renames(r, n)
            BY <1>2, <1>3, <1>4, <1>7, <3>1, <3>2
        <4> QED BY <3>1, <3>2, <4>1 DEF Comes
      <3> QED BY <1>4, <3>1, <3>2
    <2>2. CASE statements'[n] = t /\ t # NoText /\ NotRenamed(n, 0, k)'
      <3>1. NotRenamed(n, 0, L + 1) /\ ~Renames(r, n)
          BY <1>2, <1>3, <1>7, <2>2
      <3> QED BY <2>2, <3>1 DEF Comes
    <2> QED BY <1>7, <2>1, <2>2 DEF Comes
  <1>8. ASSUME NEW k, k = (L + 1) + 1, NEW p \in Portals, NEW t \in Texts, Gives(p, k, t)'
        PROVE  \/ \E n \in Names : r = Bind(p, n) /\ Comes(n, L + 1, t)
               \/ ~Rebinds(r, p) /\ Gives(p, L + 1, t)
    <2>1. CASE \E l \in DOMAIN toServer', n \in Names :
                  /\ l < k /\ toServer'[l].request = Bind(p, n) /\ Comes(n, l, t)'
                  /\ NotRebound(p, l, k)'
      <3>1. PICK l \in DOMAIN toServer', n \in Names :
                  /\ l < k /\ toServer'[l].request = Bind(p, n) /\ Comes(n, l, t)'
                  /\ NotRebound(p, l, k)'
          BY <2>1
      <3>a. l \in 1..(L + 1)
          BY <3>1
      <3>b. Comes(n, l, t)
          BY <1>5, <3>1, <3>a
      <3>2. CASE l \in DOMAIN toServer /\ l < L + 1
        <4>1. NotRebound(p, l, L + 1) /\ ~Rebinds(r, p)
            BY <1>2, <1>3, <1>4, <1>8, <3>1, <3>2
        <4> QED BY <3>1, <3>2, <3>b, <4>1 DEF Gives
      <3>3. CASE l = L + 1
          BY <3>1, <3>3, <3>b
      <3> QED BY <1>4, <3>1, <3>2, <3>3
    <2>2. CASE opened'[p] = t /\ t # NoText /\ NotRebound(p, 0, k)'
      <3>1. NotRebound(p, 0, L + 1) /\ ~Rebinds(r, p)
          BY <1>2, <1>3, <1>8, <2>2
      <3> QED BY <2>2, <3>1 DEF Gives
    <2> QED BY <1>8, <2>1, <2>2 DEF Gives
  <1> QED BY <1>5, <1>6, <1>7, <1>8

\* What forwarding request r does to the proxy's maps, and the events it begins.
PreparedFollow(r) ==
    \A n \in Names : /\ \A t \in Texts : r = Parse(n, t) => prepared'[n] = t
                     /\ ~Renames(r, n) => prepared'[n] = prepared[n]
BoundFollow(r) ==
    \A p \in Portals : /\ \A n \in Names : r = Bind(p, n) /\ prepared[n] \in Texts =>
                                              portals'[p] = prepared[n]
                       /\ ~Rebinds(r, p) => portals'[p] = portals[p]
BegunFor(r, texts) ==
    /\ \A t \in Texts : r = Query(t) => texts = <<t>>
    /\ \A p \in Portals : r = Execute(p) /\ portals[p] \in Texts => texts = <<portals[p]>>

LEMMA ForwardRecord ==
    ASSUME AuditInv, IInv', RecordInv, NEW r \in Requests, NEW texts \in Seq(Texts),
           Len(texts) <= 1, Forward(r, texts),
           PreparedFollow(r), BoundFollow(r), BegunFor(r, texts)
    PROVE  RecordInv'
  <1> DEFINE m == [id |-> sent + 1, request |-> r]
             new == [i \in 1..Len(texts) |-> [id |-> sent + 1, text |-> texts[i]]]
             L == Len(toServer)
  <1>1. TypeOK /\ TypeOK'
      BY DEF AuditInv, IInv
  <1>2. /\ toServer' = Append(toServer, m) /\ pending' = pending \o new
        /\ UNCHANGED <<log, unwritten, statements, opened, skipping, executed, diverged>>
        /\ sent + 1 \in Ids
    <2>1. sent' = sent + 1 /\ sent' \in 0..MaxMessages /\ sent \in 0..MaxMessages /\ MaxMessages \in Nat
        BY <1>1, BoundsType DEF Forward, TypeOK
    <2>2. sent + 1 \in Ids
        BY <2>1 DEF Ids
    <2> QED BY <2>2 DEF Forward, server
  <1>3. /\ DOMAIN toServer = 1..L /\ L \in Nat /\ DOMAIN toServer' = 1..(L + 1)
        /\ Len(toServer') = L + 1
        /\ \A k \in DOMAIN toServer : toServer'[k] = toServer[k]
        /\ toServer'[L + 1] = m /\ m.request = r
    <2>1. toServer \in Seq([id : Ids, request : Requests]) /\ m \in [id : Ids, request : Requests]
        BY <1>1, <1>2, ComingIs
    <2>2. m.request = r
        OBVIOUS
    <2> HIDE DEF m
    <2> QED BY <1>1, <1>2, <2>1, <2>2, ComingIs
  <1>4. /\ \A i \in DOMAIN pending : i \in DOMAIN pending' /\ pending'[i] = pending[i]
        /\ \A t \in Texts : texts = <<t>> =>
              \E i \in DOMAIN pending' : pending'[i] = [id |-> sent + 1, text |-> t]
    <2>1. new \in Seq(Events) /\ pending \in Seq(Events)
        BY <1>1, <1>2 DEF TypeOK, Events
    <2>2. \A t \in Texts : texts = <<t>> => 1 \in DOMAIN new /\ new[1] = [id |-> sent + 1, text |-> t]
        OBVIOUS
    <2>5. Len(pending) + 1 \in Nat
        BY <2>1
    <2> HIDE DEF new
    <2>3. /\ \A i \in DOMAIN pending : i \in DOMAIN (pending \o new) /\ (pending \o new)[i] = pending[i]
          /\ \A i \in DOMAIN new :
              Len(pending) + i \in DOMAIN (pending \o new) /\ (pending \o new)[Len(pending) + i] = new[i]
        BY <2>1, Concatenated
    <2>4. /\ \A i \in DOMAIN pending : i \in DOMAIN pending' /\ pending'[i] = pending[i]
          /\ \A i \in DOMAIN new :
              Len(pending) + i \in DOMAIN pending' /\ pending'[Len(pending) + i] = new[i]
        BY <1>2, <2>3, Zenon
    <2>6. ASSUME NEW t \in Texts, texts = <<t>>
          PROVE  \E i \in DOMAIN pending' : pending'[i] = [id |-> sent + 1, text |-> t]
      <3>1. 1 \in DOMAIN new /\ new[1] = [id |-> sent + 1, text |-> t]
          BY <2>2, <2>6
      <3>2. Len(pending) + 1 \in DOMAIN pending' /\ pending'[Len(pending) + 1] = new[1]
          BY <2>4, <3>1
      <3> QED BY <3>1, <3>2, Zenon
    <2> QED BY <2>4, <2>6
  <1> HIDE DEF new, L
  <1>5. \A id, t : Recorded(id, t) => Recorded(id, t)'
      BY <1>2, <1>4 DEF Recorded
  <1>6. \A id, t : id = sent + 1 /\ t \in Texts /\ texts = <<t>> => Recorded(id, t)'
      BY <1>4 DEF Recorded
  <1>7. \A k \in DOMAIN toServer' : k \in DOMAIN toServer \/ k = L + 1
      BY <1>3
  <1>8. ToQueryRecorded'
    <2> SUFFICES ASSUME NEW k \in DOMAIN toServer', NEW id \in Ids, NEW t \in Texts,
                        toServer'[k] = [id |-> id, request |-> Query(t)]
                 PROVE  Recorded(id, t)'
        BY DEF ToQueryRecorded
    <2>1. CASE k \in DOMAIN toServer
      <3>1. Recorded(id, t)
          BY <1>3, <2>1 DEF RecordInv, ToQueryRecorded
      <3> QED BY <1>5, <3>1
    <2>2. CASE k = L + 1
      <3>1. id = sent + 1 /\ r = Query(t)
          BY <1>3, <2>2
      <3> QED BY <1>6, <3>1 DEF BegunFor
    <2> QED BY <1>7, <2>1, <2>2
  <1>9. ASSUME ~diverged' PROVE MapsAgree' /\ ToExecuteRecorded' /\ HasExecutedRecorded'
    <2>1. MapsAgree /\ ToExecuteRecorded /\ HasExecutedRecorded
        BY <1>2, <1>9 DEF RecordInv
    <2>2. /\ \A k \in 1..(L + 1), n \in Names, t \in Texts : Comes(n, k, t)' => Comes(n, k, t)
          /\ \A k \in 1..(L + 1), p \in Portals, t \in Texts : Gives(p, k, t)' => Gives(p, k, t)
          /\ \A k, n, t : k = (L + 1) + 1 /\ Comes(n, k, t)' /\ n \in Names /\ t \in Texts =>
                 r = Parse(n, t) \/ (~Renames(r, n) /\ Comes(n, L + 1, t))
          /\ \A k, p, t : k = (L + 1) + 1 /\ Gives(p, k, t)' /\ p \in Portals /\ t \in Texts =>
                 \/ \E n \in Names : r = Bind(p, n) /\ Comes(n, L + 1, t)
                 \/ ~Rebinds(r, p) /\ Gives(p, L + 1, t)
        BY <1>2, <1>3, MoreNames
    <2>3. /\ \A n \in Names, t \in Texts : Comes(n, L + 1, t) => prepared[n] = t
          /\ \A p \in Portals, t \in Texts : Gives(p, L + 1, t) => portals[p] = t
        BY <2>1 DEF MapsAgree, L
    <2>4. MapsAgree'
      <3> SUFFICES ASSUME NEW k, k = Len(toServer') + 1
                   PROVE  /\ \A n \in Names, t \in Texts : Comes(n, k, t)' => prepared'[n] = t
                          /\ \A p \in Portals, t \in Texts : Gives(p, k, t)' => portals'[p] = t
          BY DEF MapsAgree
      <3>1. k = (L + 1) + 1
          BY <1>3
      <3>2. ASSUME NEW n \in Names, NEW t \in Texts, Comes(n, k, t)' PROVE prepared'[n] = t
          BY <2>2, <2>3, <3>1, <3>2 DEF PreparedFollow
      <3>3. ASSUME NEW p \in Portals, NEW t \in Texts, Gives(p, k, t)' PROVE portals'[p] = t
        <4>1. CASE \E n \in Names : r = Bind(p, n) /\ Comes(n, L + 1, t)
            BY <2>3, <4>1 DEF BoundFollow
        <4>2. CASE ~Rebinds(r, p) /\ Gives(p, L + 1, t)
            BY <2>3, <4>2 DEF BoundFollow
        <4> QED BY <2>2, <3>1, <3>3, <4>1, <4>2
      <3> QED BY <3>2, <3>3
    <2>5. ASSUME NEW k \in DOMAIN toServer', NEW id \in Ids, NEW p \in Portals, NEW t \in Texts,
                 toServer'[k] = [id |-> id, request |-> Execute(p)], Gives(p, k, t)'
          PROVE  Recorded(id, t)'
      <3>1. k \in 1..(L + 1) /\ Gives(p, k, t)
          BY <1>3, <2>2, <2>5
      <3>2. CASE k \in DOMAIN toServer
        <4>1. Recorded(id, t)
            BY <1>3, <2>1, <2>5, <3>1, <3>2 DEF ToExecuteRecorded
        <4> QED BY <1>5, <4>1
      <3>3. CASE k = L + 1
        <4>1. id = sent + 1 /\ r = Execute(p)
            BY <1>3, <2>5, <3>3
        <4>2. portals[p] = t
            BY <2>3, <3>1, <3>3
        <4>3. texts = <<t>>
            BY <4>1, <4>2 DEF BegunFor
        <4> QED BY <1>6, <4>1, <4>3
      <3> QED BY <1>7, <3>2, <3>3
    <2>6. HasExecutedRecorded'
        BY <1>2, <1>5, <2>1 DEF HasExecutedRecorded
    <2> QED BY <2>4, <2>5, <2>6 DEF ToExecuteRecorded
  <1> QED BY <1>2, <1>8, <1>9 DEF RecordInv

LEMMA ClientRecord == AuditInv /\ IInv' /\ RecordInv /\ Client => RecordInv'
  <1> SUFFICES ASSUME AuditInv, IInv', RecordInv, NEW r \in Requests,
                      \/ ForwardQuery(r) \/ ForwardParse(r) \/ ForwardBind(r)
                      \/ ForwardExecute(r) \/ ForwardClose(r) \/ ForwardSync(r)
               PROVE  RecordInv'
      BY DEF Client
  <1>0. /\ <<>> \in Seq(Texts) /\ Len(<<>>) <= 1
        /\ prepared \in [Names -> Texts \union {NoText}]
        /\ portals \in [Portals -> Texts \union {NoText}]
        /\ \A t \in Texts : t # NoText
      BY TextsType DEF AuditInv, IInv, TypeOK
  <1>a. /\ \A n : Renames(r, n) <=> \/ r = CloseStatement(n)
                                    \/ \E t \in Texts : r = Parse(n, t)
        /\ \A p : Rebinds(r, p) <=> \/ r = ClosePortal(p)
                                    \/ \E n \in Names : r = Bind(p, n)
      BY DEF Renames, Rebinds
  <1>1. CASE ForwardQuery(r)
    <2>1. <<r.text>> \in Seq(Texts) /\ Len(<<r.text>>) <= 1 /\ r.type = "query"
        BY <1>1, RequestParts DEF ForwardQuery
    <2>2. /\ Forward(r, <<r.text>>) /\ prepared' = prepared /\ portals' = portals
        BY <1>1 DEF ForwardQuery
    <2>3. /\ \A n, t : r # Parse(n, t)
          /\ \A p, n : r # Bind(p, n)
          /\ \A p : r # Execute(p)
          /\ \A t : r = Query(t) => <<r.text>> = <<t>>
        BY <2>1, RequestForms
    <2>a. PreparedFollow(r)
        BY <2>2, <2>3 DEF PreparedFollow
    <2>b. BoundFollow(r)
        BY <2>2, <2>3 DEF BoundFollow
    <2>c. BegunFor(r, <<r.text>>)
        BY <2>3 DEF BegunFor
    <2> QED BY <1>0, <2>1, <2>a, <2>b, <2>c, <2>2, ForwardRecord
  <1>2. CASE ForwardParse(r)
    <2>1. r.type = "parse" /\ r = Parse(r.name, r.text) /\ r.name \in Names /\ r.text \in Texts
          /\ Forward(r, <<>>) /\ prepared' = [prepared EXCEPT ![r.name] = r.text]
          /\ portals' = portals
        BY <1>2, Forms DEF ForwardParse
    <2>2. /\ \A n, t : r = Parse(n, t) => n = r.name /\ t = r.text
          /\ \A p, n : r # Bind(p, n)
          /\ \A p : r # Execute(p)
          /\ \A t : r # Query(t)
        BY <2>1, RequestForms
    <2>3. \A n \in Names : /\ \A t \in Texts : r = Parse(n, t) => prepared'[n] = t
                           /\ ~Renames(r, n) => prepared'[n] = prepared[n]
        BY <1>0, <1>a, <2>1, <2>2
    <2>a. PreparedFollow(r)
        BY <2>3 DEF PreparedFollow
    <2>b. BoundFollow(r)
        BY <2>1, <2>2 DEF BoundFollow
    <2>c. BegunFor(r, <<>>)
        BY <2>2 DEF BegunFor
    <2> QED BY <1>0, <2>1, <2>a, <2>b, <2>c, ForwardRecord
  <1>3. CASE ForwardBind(r)
    <2>1. r.type = "bind" /\ r = Bind(r.portal, r.name) /\ r.name \in Names
          /\ r.portal \in Portals
          /\ Forward(r, <<>>) /\ portals' = [portals EXCEPT ![r.portal] = Bound(r)]
          /\ prepared' = prepared
        BY <1>3, Forms DEF ForwardBind
    <2>2. /\ \A n, t : r # Parse(n, t)
          /\ \A p, n : r = Bind(p, n) => p = r.portal /\ n = r.name
          /\ \A p : r # Execute(p)
          /\ \A t : r # Query(t)
        BY <2>1, RequestForms
    <2>3. \A p \in Portals : /\ \A n \in Names : r = Bind(p, n) /\ prepared[n] \in Texts =>
                                                     portals'[p] = prepared[n]
                             /\ ~Rebinds(r, p) => portals'[p] = portals[p]
        BY <1>0, <1>a, <2>1, <2>2 DEF Bound
    <2>a. PreparedFollow(r)
        BY <2>1, <2>2 DEF PreparedFollow
    <2>b. BoundFollow(r)
        BY <2>3 DEF BoundFollow
    <2>c. BegunFor(r, <<>>)
        BY <2>2 DEF BegunFor
    <2> QED BY <1>0, <2>1, <2>a, <2>b, <2>c, ForwardRecord
  <1>4. CASE ForwardExecute(r)
    <2>1. /\ r.type = "execute" /\ r = Execute(r.portal) /\ r.portal \in Portals
          /\ Forward(r, ToBegin(r.portal)) /\ prepared' = prepared /\ portals' = portals
        BY <1>4, Forms DEF ForwardExecute
    <2>2. /\ \A n, t : r # Parse(n, t)
          /\ \A p, n : r # Bind(p, n)
          /\ \A p : r = Execute(p) => p = r.portal
          /\ \A t : r # Query(t)
        BY <2>1, RequestForms
    <2>3. /\ ToBegin(r.portal) \in Seq(Texts) /\ Len(ToBegin(r.portal)) <= 1
          /\ portals[r.portal] \in Texts => ToBegin(r.portal) = <<portals[r.portal]>>
        BY <1>0, <2>1, NamesType DEF ToBegin, Resolved
    <2>a. PreparedFollow(r)
        BY <2>1, <2>2 DEF PreparedFollow
    <2>b. BoundFollow(r)
        BY <2>1, <2>2 DEF BoundFollow
    <2>c. BegunFor(r, ToBegin(r.portal))
        BY <2>2, <2>3 DEF BegunFor
    <2> QED BY <1>0, <2>1, <2>a, <2>b, <2>c, <2>3, ForwardRecord
  <1>5. CASE ForwardClose(r)
    <2>1. /\ r.type \in {"close_s", "close_p"} /\ Forward(r, <<>>)
          /\ r.type = "close_s" => /\ r = CloseStatement(r.name) /\ r.name \in Names
                                   /\ prepared' = [prepared EXCEPT ![r.name] = NoText]
                                   /\ portals' = portals
          /\ r.type = "close_p" => /\ r = ClosePortal(r.portal) /\ r.portal \in Portals
                                   /\ portals' = [portals EXCEPT ![r.portal] = NoText]
                                   /\ prepared' = prepared
        BY <1>5, Forms DEF ForwardClose
    <2>2. /\ \A n, t : r # Parse(n, t)
          /\ \A p, n : r # Bind(p, n)
          /\ \A p : r # Execute(p)
          /\ \A t : r # Query(t)
        BY <2>1, RequestForms
    <2>3. /\ \A n \in Names : ~Renames(r, n) => prepared'[n] = prepared[n]
          /\ \A p \in Portals : ~Rebinds(r, p) => portals'[p] = portals[p]
        BY <1>0, <1>a, <2>1
    <2>a. PreparedFollow(r)
        BY <2>2, <2>3 DEF PreparedFollow
    <2>b. BoundFollow(r)
        BY <2>2, <2>3 DEF BoundFollow
    <2>c. BegunFor(r, <<>>)
        BY <2>2 DEF BegunFor
    <2> QED BY <1>0, <2>1, <2>a, <2>b, <2>c, ForwardRecord
  <1>6. CASE ForwardSync(r)
    <2>1. r.type = "sync" /\ Forward(r, <<>>) /\ prepared' = prepared /\ portals' = portals
        BY <1>6 DEF ForwardSync
    <2>2. /\ \A n, t : r # Parse(n, t)
          /\ \A p, n : r # Bind(p, n)
          /\ \A p : r # Execute(p)
          /\ \A t : r # Query(t)
        BY <2>1, RequestForms
    <2>a. PreparedFollow(r)
        BY <2>1, <2>2 DEF PreparedFollow
    <2>b. BoundFollow(r)
        BY <2>1, <2>2 DEF BoundFollow
    <2>c. BegunFor(r, <<>>)
        BY <2>2 DEF BegunFor
    <2> QED BY <1>0, <2>1, <2>a, <2>b, <2>c, ForwardRecord
  <1> QED BY <1>1, <1>2, <1>3, <1>4, <1>5, <1>6

\* The audit forgets no event it has not written or failed to write.
LEMMA StaysRecorded ==
    ASSUME TypeOK, NEW result, FinishNext(result) \/ FlushPending, NEW id, NEW t, Recorded(id, t)
    PROVE  Recorded(id, t)'
  <1>1. pending \in Seq(Events)
      BY DEF TypeOK
  <1>2. ASSUME NEW events, NEW res, Write(events, res),
               [id |-> id, text |-> t] \in Range(events)
        PROVE  Recorded(id, t)'
    <2> DEFINE x == [id |-> id, text |-> t]
    <2>1. x.id = id /\ x \in Range(events)
        BY <1>2
    <2> HIDE DEF x
    <2>2. PICK bad :
             /\ unwritten' = unwritten \union bad
             /\ log' = log \union
                   {[event |-> e, result |-> res, regular |-> regular] :
                       e \in {y \in Range(events) : y.id \notin bad}}
        BY <1>2, Zenon DEF Write
    <2>3. CASE id \in bad
        BY <2>2, <2>3 DEF Recorded
    <2>4. CASE id \notin bad
      <3>1. [event |-> x, result |-> res, regular |-> regular] \in log'
          BY <2>1, <2>2, <2>4
      <3>2. [event |-> x, result |-> res, regular |-> regular].event = x
          OBVIOUS
      <3>3. \E e \in log' : e.event = x
          BY <3>1, <3>2
      <3> QED BY <3>3 DEF Recorded, x
    <2> QED BY <2>3, <2>4
  <1>3. ASSUME NEW events, Write(events, result) \/ Write(events, "neutral")
        PROVE  log \subseteq log' /\ unwritten \subseteq unwritten'
      BY <1>3 DEF Write
  <1>4. CASE id \in unwritten \/ \E e \in log : e.event = [id |-> id, text |-> t]
    <2>1. log \subseteq log' /\ unwritten \subseteq unwritten'
        BY <1>3 DEF FinishNext, FlushPending, audit
    <2> QED BY <1>4, <2>1 DEF Recorded
  <1>5. ASSUME NEW i \in DOMAIN pending, pending[i] = [id |-> id, text |-> t]
        PROVE  Recorded(id, t)'
    <2>1. CASE FlushPending
      <3>1. Write(pending, "neutral") /\ [id |-> id, text |-> t] \in Range(pending)
          BY <1>5, <2>1 DEF FlushPending, Range
      <3> QED BY <1>2, <3>1
    <2>2. CASE FinishNext(result)
      <3>1. pending # <<>> /\ Len(pending) \in Nat \ {0} /\ DOMAIN pending = 1..Len(pending)
          BY <1>1, <1>5, EmptySeq
      <3>2. Write(<<Head(pending)>>, result) /\ pending' = Tail(pending)
          BY <2>2, <3>1 DEF FinishNext
      <3>3. CASE i = 1
        <4>1. [id |-> id, text |-> t] \in Range(<<Head(pending)>>)
          <5>1. Head(pending) = [id |-> id, text |-> t]
              BY <1>1, <1>5, <3>1, <3>3
          <5> QED BY <5>1 DEF Range
        <4> QED BY <1>2, <3>2, <4>1
      <3>4. CASE i # 1
        <4>1. /\ Len(pending') = Len(pending) - 1 /\ pending' \in Seq(Events)
              /\ \A j \in 1..Len(pending') : pending'[j] = pending[j + 1]
            BY <1>1, <3>1, <3>2, HeadTailProperties
        <4>2. i - 1 \in DOMAIN pending' /\ pending'[i - 1] = pending[i]
            BY <1>5, <3>1, <3>4, <4>1
        <4> QED BY <1>5, <4>2 DEF Recorded
      <3> QED BY <3>3, <3>4
    <2> QED BY <2>1, <2>2
  <1> QED BY <1>4, <1>5 DEF Recorded

LEMMA OtherRecord ==
    AuditInv /\ RecordInv /\ (Observe \/ Deliver \/ Hangup \/ UNCHANGED vars) => RecordInv'
  <1> SUFFICES ASSUME AuditInv, RecordInv, Observe \/ Deliver \/ Hangup \/ UNCHANGED vars
               PROVE  RecordInv'
      OBVIOUS
  <1>1. /\ UNCHANGED <<toServer, prepared, portals, statements, opened, skipping>>
        /\ UNCHANGED <<executed, diverged>>
      BY DEF Observe, Deliver, Hangup, vars, frontend, audit, server
  <1>2. \A id, t : Recorded(id, t) => Recorded(id, t)'
    <2>1. CASE Observe
        BY <2>1, StaysRecorded DEF Observe, AuditInv, IInv
    <2>2. CASE Deliver \/ Hangup \/ UNCHANGED vars
        BY <2>2 DEF Deliver, Hangup, vars, audit, Recorded
    <2> QED BY <2>1, <2>2
  <1>3. /\ \A n, k, t : Comes(n, k, t)' <=> Comes(n, k, t)
        /\ \A p, k, t : Gives(p, k, t)' <=> Gives(p, k, t)
    <2>1. /\ \A n, l, k : NotRenamed(n, l, k)' <=> NotRenamed(n, l, k)
          /\ \A p, l, k : NotRebound(p, l, k)' <=> NotRebound(p, l, k)
        BY <1>1 DEF NotRenamed, NotRebound, Renames, Rebinds
    <2>2. \A n, k, t : Comes(n, k, t)' <=> Comes(n, k, t)
        BY <1>1, <2>1 DEF Comes
    <2> QED BY <1>1, <2>1, <2>2 DEF Gives
  <1>4. ToQueryRecorded'
      BY <1>1, <1>2 DEF RecordInv, ToQueryRecorded
  <1>5. ASSUME ~diverged PROVE MapsAgree' /\ ToExecuteRecorded' /\ HasExecutedRecorded'
    <2>1. MapsAgree /\ ToExecuteRecorded /\ HasExecutedRecorded
        BY <1>5 DEF RecordInv
    <2>2. MapsAgree'
        BY <1>1, <1>3, <2>1 DEF MapsAgree
    <2>3. ToExecuteRecorded'
        BY <1>1, <1>2, <1>3, <2>1 DEF ToExecuteRecorded
    <2>4. HasExecutedRecorded'
        BY <1>1, <1>2, <2>1 DEF HasExecutedRecorded
    <2> QED BY <2>2, <2>3, <2>4
  <1> QED BY <1>1, <1>4, <1>5 DEF RecordInv

THEOREM RecordInvariance == Spec => []RecordInv
  <1>1. AuditInv /\ IInv' /\ RecordInv /\ [Next]_vars => RecordInv'
      BY ClientRecord, ServerRecord, OtherRecord DEF Next
  <1>2. Spec => []IInv
      BY Invariance
  <1>3. Spec => []AuditInv
      BY AuditInvariance
  <1> QED BY InitRecord, <1>1, <1>2, <1>3, PTL DEF Spec

\* Unless the server refused to replace or to close a statement it has, the text that
\* observeFrontend recorded for a request is what the server executed for it, whatever
\* the client pipelines over named statements and portals.
THEOREM ExecutedRecorded == Spec => []ExecutedIsRecorded
  <1>1. IInv /\ RecordInv => ExecutedIsRecorded
    <2> SUFFICES ASSUME IInv, RecordInv, NEW id \in Ids, executed[id] \notin {NoText, <<>>},
                        ~diverged
                 PROVE  \/ id \in unwritten
                        \/ [id |-> id, text |-> executed[id]] \in
                               Range(pending) \union {e.event : e \in log}
        BY DEF ExecutedIsRecorded
    <2>1. executed[id] \in Texts
        BY DEF IInv, TypeOK
    <2>2. Recorded(id, executed[id])
        BY <2>1 DEF RecordInv, HasExecutedRecorded
    <2> QED BY <2>2 DEF Recorded, Range
  <1> QED BY Invariance, RecordInvariance, <1>1, PTL

-----------------------------------------------------------------------------
(* MySQLWire.  The client is followed through the packets under way: what it *)
(* will wait for after the last of them is what the proxy sends next.        *)

\* A packet the proxy writes; a reader, and what it makes of a packet that is in step.
Packets ==
    {Wire!Packet(n, kind) : n \in Wire!Numbers, kind \in Wire!Kinds}
    \union {Wire!Count(n, c) : n \in Wire!Numbers, c \in ColumnCounts}

IsHere(a) == a.reader = reader /\ a.expected = expected /\ a.left = left

Follows(a, pkt, b) ==
    /\ pkt.number = a.expected /\ b.expected = Wire!Following(a.expected)
    /\ \/ /\ a.reader = "first" /\ pkt.kind \in {"ok", "error"}
          /\ b.reader = "idle" /\ b.left = 0
       \/ /\ a.reader = "first"
          /\ \E n \in ColumnCounts \ {0} : pkt = Wire!Count(a.expected, n) /\ b.left = n
          /\ b.reader = "columns"
       \/ /\ a.reader = "columns" /\ pkt.kind = "column"
          /\ b.reader = IF a.left = 1 THEN "columns_end" ELSE "columns"
          /\ b.left = a.left - 1
       \/ a.reader = "columns_end" /\ pkt.kind = "eof" /\ b.reader = "rows" /\ b.left = 0
       \/ a.reader = "rows" /\ pkt.kind = "row" /\ b.reader = "rows" /\ b.left = 0
       \/ a.reader = "rows" /\ pkt.kind = "eof" /\ b.reader = "idle" /\ b.left = 0

\* q: what the reader will be after each of the packets under way; e: after the last.
Reading(q, e) ==
    /\ IsHere(q[1]) /\ q[Len(toClient) + 1] = e
    /\ \A i \in 1..Len(toClient) : Follows(q[i], toClient[i], q[i + 1])

\* What the proxy is about to do is what the reader will wait for by then.
Fits(e) ==
    \/ /\ stage = "login" /\ toMySQL = <<"login">> /\ toClient = <<>>
       /\ e.reader = "first" /\ e.expected = 2
    \/ /\ toMySQL = <<>> /\ e.expected = seq
       /\ \/ stage \in {"welcome", "refuse", "ok", "error"} /\ e.reader = "first"
          \/ stage = "count" /\ e.reader = "first" /\ todo = 0 /\ columns \in ColumnCounts
          \/ /\ stage = "columns" /\ e.reader = "columns" /\ e.left = columns - todo
             /\ todo \in Nat /\ columns \in Nat /\ todo < columns
          \/ stage = "columns_end" /\ e.reader = "columns_end"
          \/ stage = "rows" /\ e.reader = "rows"
    \/ stage = "reading" /\ e.reader = "idle" /\ toMySQL = <<>>
    \/ /\ stage = "reading" /\ toClient = <<>>
       /\ \/ e.reader = "first" /\ e.expected = 1 /\ \E c \in Wire!Commands : toMySQL = <<c>>
          \/ e.reader = "closed" /\ toMySQL = <<"quit">>
    \/ /\ stage = "reading" /\ silent /\ toMySQL = <<>>
       /\ e.reader \in {"first", "columns", "columns_end", "rows"}
    \/ /\ stage = "closed" /\ toMySQL = <<>>
       /\ e.reader \in {"first", "columns", "columns_end", "rows", "idle", "closed"}
    \/ stage = "closed" /\ toClient = <<>> /\ e.reader \in {"first", "closed"}

Conversation == reader # "greeting" /\ \E q, e : Reading(q, e) /\ Fits(e)

Greeting ==
    /\ reader = "greeting" /\ toMySQL = <<>>
    /\ \/ stage = "greet" /\ seq = 0 /\ toClient = <<>>
       \/ stage \in {"login", "closed"} /\ toClient = <<Wire!Packet(0, "greeting")>>
       \/ stage = "closed" /\ toClient = <<>>

WireInv ==
    spoiled = {} =>
       /\ toClient \in Seq(Packets) /\ seq \in Wire!Numbers
       /\ Greeting \/ Conversation

\* A count of columns is read as it was written, and as nothing else.
LEMMA CountsRead ==
    ASSUME NEW n \in ColumnCounts \ {0}
    PROVE  /\ Wire!readLenEncInt(Wire!LenEncInt(n)) = n
           /\ Wire!LenEncInt(n)[1] \notin {0, 251}
  <1>1. n \in Nat /\ n # 0
      BY ColumnCountsType
  <1>2. CASE n < 251
    <2>1. Wire!LenEncInt(n) = <<n>>
        BY <1>2 DEF Wire!LenEncInt
    <2> QED BY <1>1, <1>2, <2>1 DEF Wire!readLenEncInt
  <1>3. CASE ~(n < 251)
    <2>1. Wire!LenEncInt(n) = <<252, n % 256, n \div 256>>
        BY <1>3 DEF Wire!LenEncInt, Wire!Byte
    <2>2. (n % 256) + 256 * (n \div 256) = n
        BY <1>1
    <2> DEFINE b == Wire!LenEncInt(n)
    <2>3. b[1] = 252 /\ b[2] = n % 256 /\ b[3] = n \div 256
        BY <2>1
    <2> HIDE DEF b
    <2>4. Wire!readLenEncInt(b) = b[2] + 256 * b[3]
        BY <2>3 DEF Wire!readLenEncInt, Wire!Byte
    <2> QED BY <2>2, <2>3, <2>4 DEF b
  <1> QED BY <1>2, <1>3

LEMMA PacketParts ==
    /\ \A n, kind : Wire!Packet(n, kind).number = n /\ Wire!Packet(n, kind).kind = kind
    /\ \A n, c : /\ Wire!Count(n, c).number = n /\ Wire!Count(n, c).kind = "count"
                 /\ Wire!Count(n, c).bytes = Wire!LenEncInt(c)
  BY DEF Wire!Packet, Wire!Count

LEMMA NumbersFollow ==
    /\ \A n \in Wire!Numbers : Wire!Following(n) \in Wire!Numbers
    /\ {0, 1, 2} \subseteq Wire!Numbers
    /\ Wire!Following(0) = 1 /\ Wire!Following(1) = 2
  BY DEF Wire!Numbers, Wire!Following, Wire!Byte

\* The client makes of a packet what it should.
LEMMA Understanding ==
    ASSUME NEW pkt, NEW a, IsHere(a), NEW b, Follows(a, pkt, b), Wire!Read(pkt)
    PROVE  /\ reader' = b.reader /\ expected' = b.expected /\ left' = b.left
           /\ reader \in {"first", "columns", "columns_end", "rows"}
           /\ reader' \in {"idle", "columns", "columns_end", "rows"}
           /\ UNCHANGED toMySQL
  <1>1. a.reader = reader /\ a.expected = expected /\ a.left = left
      BY DEF IsHere
  <1>2. /\ pkt.number = expected /\ b.expected = Wire!Following(expected)
        /\ reader' = Wire!Understood(pkt) /\ expected' = Wire!Following(expected)
        /\ left' = CASE reader' = "columns" /\ pkt.kind = "count" ->
                          Wire!readLenEncInt(pkt.bytes)
                     [] reader' = "columns" /\ pkt.kind = "column" -> left - 1
                     [] OTHER -> 0
        /\ UNCHANGED toMySQL
      BY <1>1 DEF Follows, Wire!Read
  <1>3. CASE /\ reader = "first" /\ pkt.kind \in {"ok", "error"}
             /\ b.reader = "idle" /\ b.left = 0
    <2>1. Wire!Understood(pkt) = "idle"
        BY <1>3 DEF Wire!Understood
    <2>2. left' = 0
        BY <1>2, <2>1
    <2> QED BY <1>2, <1>3, <2>1, <2>2
  <1>4. ASSUME reader = "first", b.reader = "columns", NEW n \in ColumnCounts \ {0},
               pkt = Wire!Count(expected, n), b.left = n
        PROVE  reader' = "columns" /\ left' = n
    <2>1. /\ pkt.kind = "count" /\ pkt.bytes[1] \notin {0, 251}
          /\ Wire!readLenEncInt(pkt.bytes) = n
        BY <1>4, PacketParts, CountsRead
    <2>2. Wire!Understood(pkt) = "columns"
        BY <1>4, <2>1 DEF Wire!Understood
    <2>3. left' = n
        BY <1>2, <2>1, <2>2
    <2> QED BY <1>2, <2>2, <2>3
  <1>5. CASE /\ reader = "columns" /\ pkt.kind = "column"
             /\ b.reader = IF left = 1 THEN "columns_end" ELSE "columns"
             /\ b.left = left - 1
    <2>1. Wire!Understood(pkt) = b.reader
        BY <1>5 DEF Wire!Understood
    <2>2. CASE left = 1
      <3>1. left' = 0 /\ b.left = 0
          BY <1>2, <1>5, <2>1, <2>2
      <3> QED BY <1>2, <1>5, <2>1, <2>2, <3>1
    <2>3. CASE left # 1
      <3>1. left' = left - 1
          BY <1>2, <1>5, <2>1, <2>3
      <3> QED BY <1>2, <1>5, <2>1, <2>3, <3>1
    <2> QED BY <2>2, <2>3
  <1>6. CASE reader = "columns_end" /\ pkt.kind = "eof" /\ b.reader = "rows" /\ b.left = 0
    <2>1. Wire!Understood(pkt) = "rows"
        BY <1>6 DEF Wire!Understood
    <2>2. left' = 0
        BY <1>2, <2>1
    <2> QED BY <1>2, <1>6, <2>1, <2>2
  <1>7. CASE reader = "rows" /\ pkt.kind = "row" /\ b.reader = "rows" /\ b.left = 0
    <2>1. Wire!Understood(pkt) = "rows"
        BY <1>7 DEF Wire!Understood
    <2>2. left' = 0
        BY <1>2, <2>1
    <2> QED BY <1>2, <1>7, <2>1, <2>2
  <1>8. CASE reader = "rows" /\ pkt.kind = "eof" /\ b.reader = "idle" /\ b.left = 0
    <2>1. Wire!Understood(pkt) = "idle"
        BY <1>8 DEF Wire!Understood
    <2>2. left' = 0
        BY <1>2, <2>1
    <2> QED BY <1>2, <1>8, <2>1, <2>2
  <1> QED BY <1>1, <1>2, <1>3, <1>4, <1>5, <1>6, <1>7, <1>8 DEF Follows

\* The reading of what is under way, with one packet more and one packet less.
LEMMA ReadingMore ==
    ASSUME toClient \in Seq(Packets), NEW pkt \in Packets, toClient' = Append(toClient, pkt),
           UNCHANGED <<reader, expected, left>>, NEW q, NEW e, Reading(q, e), NEW b, Follows(e, pkt, b)
    PROVE  \E r : Reading(r, b)'
  <1> DEFINE L == Len(toClient)
             r == [i \in 1..(L + 2) |-> IF i = L + 2 THEN b ELSE q[i]]
  <1>1. /\ L \in Nat /\ Len(toClient') = L + 1 /\ toClient'[L + 1] = pkt
        /\ \A i \in 1..L : toClient'[i] = toClient[i]
      OBVIOUS
  <1>2. /\ r[1] = q[1] /\ r[(L + 1) + 1] = b /\ \A i \in 1..(L + 1) : r[i] = q[i]
      BY <1>1
  <1>3. IsHere(q[1]) /\ q[L + 1] = e /\ \A i \in 1..L : Follows(q[i], toClient[i], q[i + 1])
      BY DEF Reading
  <1> HIDE DEF L, r
  <1>4. ASSUME NEW i \in 1..(L + 1) PROVE Follows(r[i], toClient'[i], r[i + 1])
    <2>1. CASE i \in 1..L
      <3>1. i + 1 \in 1..(L + 1)
          BY <1>1, <2>1
      <3> QED BY <1>1, <1>2, <1>3, <2>1, <3>1
    <2>2. CASE i = L + 1
        BY <1>1, <1>2, <1>3, <2>2
    <2> QED BY <1>1, <2>1, <2>2
  <1>5. ASSUME NEW s, s = r PROVE Reading(s, b)'
      BY <1>1, <1>2, <1>3, <1>4, <1>5 DEF Reading, IsHere
  <1> QED BY <1>5

LEMMA ReadingLess ==
    ASSUME toClient \in Seq(Packets), toClient # <<>>, toClient' = Tail(toClient),
           NEW q, NEW e, Reading(q, e), IsHere(q[2])'
    PROVE  \E r : Reading(r, e)'
  <1> DEFINE L == Len(toClient)
             r == [i \in 1..L |-> q[i + 1]]
  <1>1. /\ L \in Nat \ {0} /\ Len(toClient') = L - 1
        /\ \A i \in 1..(L - 1) : toClient'[i] = toClient[i + 1]
      BY EmptySeq, HeadTailProperties
  <1>2. \A i \in 1..L : r[i] = q[i + 1]
      OBVIOUS
  <1>3. q[L + 1] = e /\ \A i \in 1..L : Follows(q[i], toClient[i], q[i + 1])
      BY DEF Reading
  <1> HIDE DEF L, r
  <1>4. ASSUME NEW i \in 1..(L - 1) PROVE Follows(r[i], toClient'[i], r[i + 1])
    <2>1. i \in 1..L /\ i + 1 \in 1..L
        BY <1>1
    <2> QED BY <1>1, <1>2, <1>3, <2>1
  <1>5. r[1] = q[2] /\ r[(L - 1) + 1] = e
    <2>1. 1 \in 1..L /\ L \in 1..L /\ (L - 1) + 1 = L
        BY <1>1
    <2> QED BY <1>2, <1>3, <2>1
  <1>6. ASSUME NEW s, s = r PROVE Reading(s, e)'
      BY <1>1, <1>4, <1>5, <1>6 DEF Reading, IsHere
  <1> QED BY <1>6

LEMMA ReadingNothing ==
    /\ \A q, e : toClient = <<>> /\ Reading(q, e) => IsHere(e)
    /\ \A e : toClient' = <<>> /\ IsHere(e)' => \E q : Reading(q, e)'
  <1>1. ASSUME toClient = <<>>, NEW q, NEW e, Reading(q, e) PROVE IsHere(e)
    <2>1. Len(toClient) + 1 = 1
        BY <1>1
    <2> QED BY <1>1, <2>1 DEF Reading
  <1>2. ASSUME toClient' = <<>>, NEW e, IsHere(e)' PROVE \E q : Reading(q, e)'
    <2>1. Len(toClient') = 0 /\ Len(toClient') + 1 = 1 /\ 1..0 = {}
        BY <1>2
    <2>2. ASSUME NEW q, q = <<e>> PROVE Reading(q, e)'
        BY <1>2, <2>1, <2>2 DEF Reading, IsHere
    <2> QED BY <2>2
  <1> QED BY <1>1, <1>2

\* The reader of a conversation is in the middle of one.
LEMMA InConversation ==
    ASSUME toClient \in Seq(Packets), NEW q, NEW e, Reading(q, e), Fits(e)
    PROVE  /\ reader \in {"first", "columns", "columns_end", "rows", "idle", "closed"}
           /\ reader \in {"idle", "closed"} => toClient = <<>> /\ IsHere(e)
           /\ toClient # <<>> => Follows(q[1], toClient[1], q[2])
  <1>1. q[1].reader = reader
      BY DEF Reading, IsHere
  <1>2. CASE toClient = <<>>
    <2>1. IsHere(e) /\ e.reader = reader
        BY <1>2, ReadingNothing DEF IsHere
    <2>2. e.reader \in {"first", "columns", "columns_end", "rows", "idle", "closed"}
        BY DEF Fits
    <2> QED BY <1>1, <1>2, <2>1, <2>2
  <1>3. CASE toClient # <<>>
    <2>1. 1 \in 1..Len(toClient) /\ 1 + 1 = 2
        BY <1>3, EmptySeq
    <2>2. Follows(q[1], toClient[1], q[2])
        BY <2>1 DEF Reading
    <2>3. reader \in {"first", "columns", "columns_end", "rows"}
        BY <1>1, <2>2 DEF Follows
    <2> QED BY <1>3, <2>2, <2>3
  <1> QED BY <1>2, <1>3

LEMMA WireTypes ==
    ASSUME WireInv, spoiled = {}
    PROVE  /\ toClient \in Seq(Packets) /\ seq \in Wire!Numbers
           /\ Greeting \/ Conversation
  BY DEF WireInv

\* What no client could follow is not forgotten.
LEMMA Spoiling == Wire!Next \/ UNCHANGED Wire!vars => (spoiled' = {} => spoiled = {})
  <1> SUFFICES ASSUME Wire!Next \/ UNCHANGED Wire!vars, spoiled' = {} PROVE spoiled = {}
      OBVIOUS
  <1>1. CASE UNCHANGED Wire!vars
      BY <1>1 DEF Wire!vars
  <1>2. CASE Wire!Next
      BY <1>2 DEF Wire!Next, Wire!Greet, Wire!Welcome, Wire!Refuse, Wire!Single, Wire!LogIn,
         Wire!Expire, Wire!WriteFails, Wire!ReadCommand, Wire!EndIdle, Wire!SendOK,
         Wire!SendError, Wire!SendCount, Wire!SendColumn, Wire!SendColumnsEnd, Wire!SendRow,
         Wire!SendRowsEnd, Wire!RowFails, Wire!Receive, Wire!SeeClose, Wire!Command
  <1> QED BY <1>1, <1>2

LEMMA InitWire == Wire!Init => WireInv
  BY NumbersFollow DEF Wire!Init, WireInv, Greeting

\* Another packet of an answer: the reader is going to make of it what b says, and
\* the proxy goes on with what fits that.
LEMMA WritingPacket ==
    ASSUME WireInv, spoiled = {}, NEW pkt \in Packets, pkt.number = seq, Wire!Write(pkt),
           NEW q, NEW e, Reading(q, e), Fits(e), reader # "greeting",
           NEW b, Follows(e, pkt, b), Fits(b)'
    PROVE  WireInv'
  <1>1. /\ toClient \in Seq(Packets) /\ toClient' = Append(toClient, pkt)
        /\ seq' \in Wire!Numbers /\ UNCHANGED <<reader, expected, left>>
      BY WireTypes, NumbersFollow DEF Wire!Write, Wire!clientVars
  <1>2. reader' # "greeting"
      BY <1>1
  <1>3. \E r : Reading(r, b)'
      BY <1>1, <1>2, ReadingMore
  <1>4. toClient' \in Seq(Packets)
      BY <1>1
  <1>5. Conversation'
      BY <1>2, <1>3 DEF Conversation
  <1> QED BY <1>1, <1>4, <1>5 DEF WireInv

\* What the proxy writes of an answer.
LEMMA WriteSteps ==
    ASSUME WireInv, spoiled = {}, Conversation,
           \/ Wire!Welcome \/ Wire!Refuse \/ Wire!SendOK \/ Wire!SendError \/ Wire!SendColumn
           \/ Wire!SendColumnsEnd \/ Wire!SendRow \/ Wire!SendRowsEnd
           \/ Wire!SendCount /\ spoiled' = {}
    PROVE  WireInv'
  <1>1. PICK q, e : reader # "greeting" /\ Reading(q, e) /\ Fits(e)
      BY DEF Conversation
  <1>2. seq \in Wire!Numbers
      BY WireTypes
  <1>3. \A kind \in Wire!Kinds : /\ Wire!Packet(seq, kind) \in Packets
                                 /\ Wire!Packet(seq, kind).number = seq
                                 /\ Wire!Packet(seq, kind).kind = kind
      BY <1>2, PacketParts DEF Packets
  <1>4. {"ok", "error", "column", "eof", "row"} \subseteq Wire!Kinds
      BY DEF Wire!Kinds
  <1>5. CASE Wire!Welcome \/ Wire!Refuse \/ Wire!SendOK \/ Wire!SendError
    <2> DEFINE b == [reader |-> "idle", expected |-> Wire!Following(e.expected), left |-> 0]
    <2>1. PICK kind \in {"ok", "error"} : Wire!Write(Wire!Packet(seq, kind))
        BY <1>5 DEF Wire!Welcome, Wire!Refuse, Wire!SendOK, Wire!SendError, Wire!Single
    <2>2. stage \in {"welcome", "refuse", "ok", "error"} /\ stage' \in {"reading", "closed"}
        BY <1>5 DEF Wire!Welcome, Wire!Refuse, Wire!SendOK, Wire!SendError, Wire!Single
    <2>3. toMySQL = <<>> /\ e.expected = seq /\ e.reader = "first"
        BY <1>1, <2>2 DEF Fits
    <2>4. b.reader = "idle" /\ b.expected = Wire!Following(e.expected) /\ b.left = 0
        OBVIOUS
    <2> HIDE DEF b
    <2>5. Follows(e, Wire!Packet(seq, kind), b)
        BY <1>3, <1>4, <2>3, <2>4 DEF Follows
    <2>6. toMySQL' = <<>>
        BY <2>1, <2>3 DEF Wire!Write
    <2>7. Fits(b)'
        BY <2>2, <2>4, <2>6 DEF Fits
    <2> QED BY <1>1, <1>3, <1>4, <2>1, <2>5, <2>7, WritingPacket
  <1>6. CASE Wire!SendCount /\ spoiled' = {}
    <2>1. /\ stage = "count" /\ Wire!Write(Wire!Count(seq, columns)) /\ columns # 0
          /\ stage' = "columns" /\ UNCHANGED <<columns, todo>>
        BY <1>6 DEF Wire!SendCount
    <2>2. /\ toMySQL = <<>> /\ e.expected = seq /\ e.reader = "first" /\ todo = 0
          /\ columns \in ColumnCounts
        BY <1>1, <2>1 DEF Fits
    <2>3. PICK c : c = columns
        OBVIOUS
    <2>4. PICK d : d = [reader |-> "columns", expected |-> Wire!Following(e.expected), left |-> c]
        OBVIOUS
    <2>5. /\ d.reader = "columns" /\ d.expected = Wire!Following(e.expected) /\ d.left = c
          /\ c \in ColumnCounts \ {0} /\ c \in Nat /\ c > 0
        BY <2>1, <2>2, <2>3, <2>4, ColumnCountsType
    <2>6. Wire!Count(seq, c) \in Packets /\ Wire!Count(seq, c).number = seq
        BY <1>2, <2>5, PacketParts DEF Packets
    <2>7. Follows(e, Wire!Count(seq, c), d)
        BY <2>2, <2>5, <2>6 DEF Follows
    <2>8. toMySQL' = <<>> /\ seq' = Wire!Following(seq)
        BY <2>1, <2>2, PacketParts DEF Wire!Write
    <2>9. Fits(d)'
        BY <2>1, <2>2, <2>3, <2>5, <2>8 DEF Fits
    <2> QED BY <1>1, <2>1, <2>3, <2>6, <2>7, <2>9, WritingPacket
  <1>7. CASE Wire!SendColumn
    <2>1. /\ stage = "columns" /\ Wire!Write(Wire!Packet(seq, "column"))
          /\ todo' = todo + 1 /\ UNCHANGED columns
          /\ stage' = IF todo' = columns THEN "columns_end" ELSE "columns"
        BY <1>7 DEF Wire!SendColumn
    <2>2. /\ toMySQL = <<>> /\ e.expected = seq /\ e.reader = "columns"
          /\ e.left = columns - todo /\ todo \in Nat /\ columns \in Nat /\ todo < columns
        BY <1>1, <2>1 DEF Fits
    <2>3. PICK d : d = [reader |-> IF e.left = 1 THEN "columns_end" ELSE "columns",
                        expected |-> Wire!Following(e.expected), left |-> e.left - 1]
        OBVIOUS
    <2>4. /\ d.reader = IF e.left = 1 THEN "columns_end" ELSE "columns"
          /\ d.expected = Wire!Following(e.expected) /\ d.left = e.left - 1
        BY <2>3
    <2>5. Follows(e, Wire!Packet(seq, "column"), d)
        BY <1>3, <1>4, <2>2, <2>4 DEF Follows
    <2>6. toMySQL' = <<>> /\ seq' = Wire!Following(seq)
        BY <1>3, <1>4, <2>1, <2>2 DEF Wire!Write
    <2>7. CASE e.left = 1
      <3>1. stage' = "columns_end"
          BY <2>1, <2>2, <2>7
      <3> QED BY <1>1, <1>3, <1>4, <2>1, <2>2, <2>4, <2>5, <2>6, <2>7, <3>1, WritingPacket DEF Fits
    <2>8. CASE e.left # 1
      <3>1. stage' = "columns" /\ todo' < columns' /\ d.left = columns' - todo'
            /\ todo' \in Nat /\ columns' \in Nat
          BY <2>1, <2>2, <2>4, <2>8
      <3>2. Fits(d)'
          BY <2>2, <2>4, <2>6, <2>8, <3>1 DEF Fits
      <3> QED BY <1>1, <1>3, <1>4, <2>1, <2>5, <3>2, WritingPacket
    <2> QED BY <2>7, <2>8
  <1>8. CASE Wire!SendColumnsEnd \/ Wire!SendRow
    <2>1. PICK kind : /\ Wire!Write(Wire!Packet(seq, kind)) /\ stage' = "rows"
                      /\ \/ stage = "columns_end" /\ kind = "eof"
                         \/ stage = "rows" /\ kind = "row"
        BY <1>8 DEF Wire!SendColumnsEnd, Wire!SendRow, Wire!Single
    <2>2. /\ toMySQL = <<>> /\ e.expected = seq
          /\ stage = "columns_end" => e.reader = "columns_end"
          /\ stage = "rows" => e.reader = "rows"
        BY <1>1, <2>1 DEF Fits
    <2>3. PICK d : d = [reader |-> "rows", expected |-> Wire!Following(e.expected), left |-> 0]
        OBVIOUS
    <2>4. d.reader = "rows" /\ d.expected = Wire!Following(e.expected) /\ d.left = 0
        BY <2>3
    <2>5. kind \in Wire!Kinds
        BY <1>4, <2>1
    <2>6. Follows(e, Wire!Packet(seq, kind), d)
        BY <1>3, <2>1, <2>2, <2>4, <2>5 DEF Follows
    <2>7. toMySQL' = <<>> /\ seq' = Wire!Following(seq)
        BY <1>3, <2>1, <2>2, <2>5 DEF Wire!Write
    <2>8. Fits(d)'
        BY <2>1, <2>2, <2>4, <2>7 DEF Fits
    <2> QED BY <1>1, <1>3, <2>1, <2>5, <2>6, <2>8, WritingPacket
  <1>9. CASE Wire!SendRowsEnd
    <2>1. stage = "rows" /\ Wire!Write(Wire!Packet(seq, "eof")) /\ stage' = "reading"
        BY <1>9 DEF Wire!SendRowsEnd, Wire!Single
    <2>2. toMySQL = <<>> /\ e.expected = seq /\ e.reader = "rows"
        BY <1>1, <2>1 DEF Fits
    <2>3. PICK d : d = [reader |-> "idle", expected |-> Wire!Following(e.expected), left |-> 0]
        OBVIOUS
    <2>4. d.reader = "idle" /\ d.expected = Wire!Following(e.expected) /\ d.left = 0
        BY <2>3
    <2>5. Follows(e, Wire!Packet(seq, "eof"), d)
        BY <1>3, <1>4, <2>2, <2>4 DEF Follows
    <2>6. toMySQL' = <<>>
        BY <2>1, <2>2 DEF Wire!Write
    <2>7. Fits(d)'
        BY <2>1, <2>4, <2>6 DEF Fits
    <2> QED BY <1>1, <1>3, <1>4, <2>1, <2>5, <2>7, WritingPacket
  <1> QED BY <1>5, <1>6, <1>7, <1>8, <1>9

\* Steps that leave what is under way, the reader and the client's command alone.
LEMMA Staying ==
    ASSUME WireInv, spoiled = {}, NEW q, NEW e, Reading(q, e), reader # "greeting", Fits(e)',
           UNCHANGED <<toClient, reader, expected, left>>, seq' \in Wire!Numbers
    PROVE  WireInv'
  <1>2. Reading(q, e)'
      BY DEF Reading, IsHere
  <1>3. Conversation'
      BY <1>2 DEF Conversation
  <1> QED BY <1>3, WireTypes DEF WireInv

\* What the proxy does but for writing an answer.
LEMMA ProxySteps ==
    ASSUME WireInv, spoiled = {}, Conversation,
           \/ \E accepted \in BOOLEAN : Wire!LogIn(accepted)
           \/ Wire!Expire \/ Wire!WriteFails \/ Wire!ReadCommand \/ Wire!EndIdle
    PROVE  WireInv'
  <1>1. PICK q, e : reader # "greeting" /\ Reading(q, e) /\ Fits(e)
      BY DEF Conversation
  <1>2. seq \in Wire!Numbers /\ {0, 1, 2} \subseteq Wire!Numbers
      BY WireTypes, NumbersFollow
  <1>3. CASE \E accepted \in BOOLEAN : Wire!LogIn(accepted)
    <2>1. /\ stage = "login" /\ toMySQL # <<>> /\ toMySQL' = Tail(toMySQL)
          /\ stage' \in {"welcome", "refuse"} /\ seq' = 2
          /\ UNCHANGED <<toClient, reader, expected, left>>
        BY <1>3 DEF Wire!LogIn, Wire!clientVars
    <2>2. toMySQL = <<"login">> /\ e.reader = "first" /\ e.expected = 2
        BY <1>1, <2>1 DEF Fits
    <2>3. toMySQL' = <<>>
        BY <2>1, <2>2
    <2>4. Fits(e)'
        BY <2>1, <2>2, <2>3 DEF Fits
    <2> QED BY <1>1, <1>2, <2>1, <2>4, Staying
  <1>4. CASE Wire!Expire
    <2>1. /\ UNCHANGED <<toMySQL, toClient, stage, seq, columns, todo, silent>>
          /\ UNCHANGED <<reader, expected, left>>
        BY <1>4 DEF Wire!Expire, Wire!clientVars
    <2>2. Fits(e)'
        BY <1>1, <2>1 DEF Fits
    <2> QED BY <1>1, <1>2, <2>1, <2>2, Staying
  <1>5. CASE Wire!WriteFails
    <2>1. /\ stage \in Wire!Writing \union {"login"} /\ silent' = TRUE
          /\ stage' = IF stage \in {"greet", "login", "welcome", "refuse"}
                      THEN "closed" ELSE "reading"
          /\ UNCHANGED <<toMySQL, toClient, seq>> /\ UNCHANGED <<reader, expected, left>>
        BY <1>5 DEF Wire!WriteFails, Wire!clientVars
    <2>2. stage \notin {"reading", "closed"}
        BY <2>1 DEF Wire!Writing
    <2>3. CASE stage = "login"
      <3>1. toClient' = <<>> /\ e.reader = "first" /\ stage' = "closed"
          BY <1>1, <2>1, <2>3 DEF Fits
      <3>2. Fits(e)'
          BY <3>1 DEF Fits
      <3> QED BY <1>1, <1>2, <2>1, <3>2, Staying
    <2>4. CASE stage # "login"
      <3>1. /\ toMySQL' = <<>> /\ e.reader \in {"first", "columns", "columns_end", "rows"}
          BY <1>1, <2>1, <2>2, <2>4 DEF Fits
      <3>2. stage' \in {"closed", "reading"}
          BY <2>1
      <3>3. Fits(e)'
          BY <2>1, <3>1, <3>2 DEF Fits
      <3> QED BY <1>1, <1>2, <2>1, <3>3, Staying
    <2> QED BY <2>3, <2>4
  <1>6. CASE Wire!ReadCommand
    <2>1. PICK answer \in Wire!Answers(Head(toMySQL)) :
             /\ stage' = answer
             /\ \E n \in ColumnCounts : columns' = IF answer = "count" THEN n ELSE 0
             /\ silent' = (silent \/ (answer = "reading"))
        BY <1>6 DEF Wire!ReadCommand
    <2>2. /\ stage = "reading" /\ toMySQL # <<>> /\ toMySQL' = Tail(toMySQL)
          /\ seq' = 1 /\ todo' = 0 /\ UNCHANGED <<toClient, reader, expected, left>>
        BY <1>6 DEF Wire!ReadCommand, Wire!clientVars
    <2>3. PICK c \in Wire!Commands : /\ toMySQL = <<c>> /\ toClient = <<>>
                                     /\ \/ e.reader = "first" /\ e.expected = 1
                                        \/ e.reader = "closed" /\ c = "quit"
      <3>1. "quit" \in Wire!Commands
          BY DEF Wire!Commands
      <3> QED BY <1>1, <2>2, <3>1 DEF Fits
    <2>4. Head(toMySQL) = c /\ toMySQL' = <<>> /\ toClient' = <<>>
        BY <2>2, <2>3
    <2>5. /\ answer \in {"ok", "error", "count", "reading", "closed"}
          /\ c = "quit" => answer = "closed"
      <3>1. c \in {"quit", "ping", "init_db", "query", "unsupported"}
          BY DEF Wire!Commands
      <3>2. answer \in Wire!Answers(c)
          BY <2>1, <2>4
      <3>3. CASE c = "ping"
          BY <3>2, <3>3 DEF Wire!Answers
      <3>4. CASE c = "unsupported"
          BY <3>2, <3>4 DEF Wire!Answers
      <3>5. CASE c = "init_db"
          BY <3>2, <3>5 DEF Wire!Answers
      <3>6. CASE c = "query"
          BY <3>2, <3>6 DEF Wire!Answers
      <3>7. CASE c = "quit"
          BY <3>2, <3>7 DEF Wire!Answers
      <3> QED BY <3>1, <3>3, <3>4, <3>5, <3>6, <3>7
    <2>6. answer = "count" => columns' \in ColumnCounts
        BY <2>1
    <2>7. answer = "reading" => silent' = TRUE
        BY <2>1
    <2>8. Fits(e)'
      <3>1. CASE answer = "closed"
          BY <2>1, <2>3, <2>4, <3>1 DEF Fits
      <3>2. CASE answer # "closed"
        <4>1. e.reader = "first" /\ e.expected = 1
            BY <2>3, <2>5, <3>2
        <4> QED BY <2>1, <2>2, <2>4, <2>5, <2>6, <2>7, <3>2, <4>1 DEF Fits
      <3> QED BY <3>1, <3>2
    <2> QED BY <1>1, <1>2, <2>2, <2>8, Staying
  <1>7. CASE Wire!EndIdle
    <2>1. /\ stage = "reading" /\ stage' = "closed" /\ toMySQL = <<>>
          /\ UNCHANGED <<toMySQL, toClient, seq>> /\ UNCHANGED <<reader, expected, left>>
        BY <1>7 DEF Wire!EndIdle, Wire!clientVars
    <2>2. e.reader \in {"first", "columns", "columns_end", "rows", "idle"}
        BY <1>1, <2>1 DEF Fits
    <2>3. Fits(e)'
        BY <2>1, <2>2 DEF Fits
    <2> QED BY <1>1, <1>2, <2>1, <2>3, Staying
  <1> QED BY <1>3, <1>4, <1>5, <1>6, <1>7

\* A client that has nothing under way begins or ends something.
LEMMA BeginningAnew ==
    ASSUME WireInv, spoiled = {}, toClient' = <<>>, UNCHANGED seq, reader' # "greeting",
           \A e : e.reader = reader' /\ e.expected = expected' => Fits(e)'
    PROVE  WireInv'
  <1>1. PICK h : h = [reader |-> reader', expected |-> expected', left |-> left']
      OBVIOUS
  <1>2. h.reader = reader' /\ h.expected = expected' /\ IsHere(h)'
      BY <1>1 DEF IsHere
  <1>3. PICK q : Reading(q, h)'
      BY <1>2, ReadingNothing
  <1>4. Fits(h)'
      BY <1>2
  <1>5. Conversation'
      BY <1>3, <1>4 DEF Conversation
  <1>6. toClient' \in Seq(Packets)
      OBVIOUS
  <1> QED BY <1>5, <1>6, WireTypes DEF WireInv

LEMMA ClientSteps ==
    ASSUME WireInv, spoiled = {}, Conversation,
           \/ Wire!Receive \/ Wire!SeeClose
           \/ \E c \in Wire!Commands : Wire!Command(c, FALSE)
    PROVE  WireInv'
  <1>1. PICK q, e : reader # "greeting" /\ Reading(q, e) /\ Fits(e)
      BY DEF Conversation
  <1>2. toClient \in Seq(Packets) /\ seq \in Wire!Numbers
      BY WireTypes
  <1>3. CASE Wire!Receive
    <2>1. /\ toClient # <<>> /\ toClient' = Tail(toClient) /\ Wire!Read(Head(toClient))
          /\ UNCHANGED <<stage, seq, columns, todo, silent>>
        BY <1>1, <1>3 DEF Wire!Receive, Wire!proxyVars
    <2>2. IsHere(q[1]) /\ Follows(q[1], Head(toClient), q[2])
        BY <1>1, <1>2, <2>1, InConversation, EmptySeq, HeadTailProperties DEF Reading
    <2>3. IsHere(q[2])' /\ reader' # "greeting" /\ UNCHANGED toMySQL
        BY <2>1, <2>2, Understanding DEF IsHere
    <2>4. \E r : Reading(r, e)'
        BY <1>1, <1>2, <2>1, <2>3, ReadingLess
    <2>5. Fits(e)'
        BY <1>1, <2>1, <2>3 DEF Fits
    <2>6. toClient' \in Seq(Packets)
        BY <1>2, <2>1, HeadTailProperties
    <2>7. Conversation'
        BY <2>3, <2>4, <2>5 DEF Conversation
    <2> QED BY <1>2, <2>1, <2>6, <2>7 DEF WireInv
  <1>4. CASE Wire!SeeClose
    <2>1. /\ stage' = "closed" /\ toClient' = <<>> /\ reader' = "closed" /\ UNCHANGED seq
        BY <1>4 DEF Wire!SeeClose, Wire!proxyVars
    <2>2. \A f : f.reader = reader' => Fits(f)'
        BY <2>1 DEF Fits
    <2> QED BY <2>1, <2>2, BeginningAnew
  <1>5. ASSUME NEW c \in Wire!Commands, Wire!Command(c, FALSE) PROVE WireInv'
    <2>1. /\ reader = "idle" /\ toMySQL' = toMySQL \o <<c>> /\ expected' = 1
          /\ reader' = IF c = "quit" THEN "closed" ELSE "first"
          /\ UNCHANGED <<toClient, stage, seq, silent>>
        BY <1>5 DEF Wire!Command, Wire!proxyVars
    <2>2. toClient = <<>> /\ e.reader = "idle"
        BY <1>1, <1>2, <2>1, InConversation DEF IsHere
    <2>3. toMySQL = <<>> /\ stage \in {"reading", "closed"}
        BY <1>1, <2>2 DEF Fits
    <2>4. toMySQL' = <<c>>
        BY <2>1, <2>3
    <2>5. \A f : f.reader = reader' /\ f.expected = expected' => Fits(f)'
        BY <2>1, <2>2, <2>3, <2>4 DEF Fits
    <2> QED BY <2>1, <2>2, <2>5, BeginningAnew
  <1> QED BY <1>3, <1>4, <1>5

\* Up to the reading of the proxy's greeting.
LEMMA GreetingSteps ==
    ASSUME WireInv, spoiled = {}, Greeting, Wire!Next, spoiled' = {}
    PROVE  WireInv'
  <1>1. /\ reader = "greeting" /\ toMySQL = <<>> /\ toClient \in Seq(Packets)
        /\ seq \in Wire!Numbers /\ stage \in {"greet", "login", "closed"}
        /\ {0, 1, 2} \subseteq Wire!Numbers
      BY WireTypes, NumbersFollow DEF Greeting
  <1>2. CASE Wire!Greet
    <2>1. /\ stage = "greet" /\ Wire!Write(Wire!Packet(seq, "greeting")) /\ stage' = "login"
        BY <1>2 DEF Wire!Greet, Wire!Single
    <2>2. seq = 0 /\ toClient = <<>>
        BY <2>1 DEF Greeting
    <2>3. /\ toClient' = Append(toClient, Wire!Packet(0, "greeting")) /\ seq' = 1
          /\ UNCHANGED <<toMySQL, reader>>
        BY <2>1, <2>2, PacketParts, NumbersFollow DEF Wire!Write, Wire!clientVars
    <2>4. toClient' = <<Wire!Packet(0, "greeting")>>
        BY <2>2, <2>3
    <2>5. "greeting" \in Wire!Kinds
        BY DEF Wire!Kinds
    <2>6. toClient' \in Seq(Packets)
        BY <1>1, <2>4, <2>5 DEF Packets
    <2>7. Greeting'
        BY <1>1, <2>1, <2>3, <2>4 DEF Greeting
    <2> QED BY <1>1, <2>3, <2>6, <2>7 DEF WireInv
  <1>3. CASE Wire!Expire \/ Wire!WriteFails
    <2>1. /\ UNCHANGED <<toMySQL, toClient, seq, reader>>
          /\ stage' = stage \/ stage' = "closed"
      <3>1. CASE Wire!Expire
          BY <3>1 DEF Wire!Expire, Wire!clientVars
      <3>2. CASE Wire!WriteFails
        <4>1. /\ stage \in Wire!Writing \union {"login"}
              /\ stage' = IF stage \in {"greet", "login", "welcome", "refuse"}
                          THEN "closed" ELSE "reading"
              /\ UNCHANGED <<toMySQL, toClient, seq, reader>>
            BY <3>2 DEF Wire!WriteFails, Wire!clientVars
        <4>2. stage \in {"greet", "login"}
            BY <1>1, <4>1 DEF Wire!Writing
        <4> QED BY <4>1, <4>2
      <3> QED BY <1>3, <3>1, <3>2
    <2>2. Greeting'
        BY <2>1 DEF Greeting
    <2> QED BY <1>1, <2>1, <2>2 DEF WireInv
  <1>4. CASE Wire!Receive
    <2>1. /\ toClient # <<>> /\ toClient' = Tail(toClient)
          /\ Wire!Respond(Head(toClient)) /\ UNCHANGED <<stage, seq>>
        BY <1>1, <1>4 DEF Wire!Receive, Wire!proxyVars
    <2>2. stage \in {"login", "closed"} /\ toClient = <<Wire!Packet(0, "greeting")>>
        BY <2>1 DEF Greeting
    <2>3. Head(toClient).number = 0 /\ toClient' = <<>>
        BY <2>1, <2>2, PacketParts
    <2>4. toMySQL' = <<"login">> /\ reader' = "first" /\ expected' = 2
        BY <1>1, <2>1, <2>3, NumbersFollow DEF Wire!Respond
    <2>5. \A f : f.reader = reader' /\ f.expected = expected' => Fits(f)'
        BY <2>1, <2>2, <2>3, <2>4 DEF Fits
    <2> QED BY <2>1, <2>3, <2>4, <2>5, BeginningAnew
  <1>5. CASE Wire!SeeClose
    <2>1. /\ stage' = "closed" /\ toClient' = <<>> /\ reader' = "closed" /\ UNCHANGED seq
        BY <1>5 DEF Wire!SeeClose, Wire!proxyVars
    <2>2. \A f : f.reader = reader' => Fits(f)'
        BY <2>1 DEF Fits
    <2> QED BY <2>1, <2>2, BeginningAnew
  <1>6. ASSUME NEW accepted \in BOOLEAN, Wire!LogIn(accepted) PROVE FALSE
      BY <1>1, <1>6 DEF Wire!LogIn
  <1>7. ASSUME NEW c, NEW long, Wire!Command(c, long) PROVE FALSE
      BY <1>1, <1>7 DEF Wire!Command
  <1>8. ~(\/ Wire!Welcome \/ Wire!Refuse \/ Wire!ReadCommand \/ Wire!EndIdle \/ Wire!SendOK
          \/ Wire!SendError \/ Wire!SendCount \/ Wire!SendColumn \/ Wire!SendColumnsEnd
          \/ Wire!SendRow \/ Wire!SendRowsEnd \/ Wire!RowFails)
      BY <1>1 DEF Wire!Welcome, Wire!Refuse, Wire!Single, Wire!ReadCommand, Wire!EndIdle,
         Wire!SendOK, Wire!SendError, Wire!SendCount, Wire!SendColumn, Wire!SendColumnsEnd,
         Wire!SendRow, Wire!SendRowsEnd, Wire!RowFails
  <1> QED BY <1>2, <1>3, <1>4, <1>5, <1>6, <1>7, <1>8 DEF Wire!Next

LEMMA ConversationSteps ==
    ASSUME WireInv, spoiled = {}, Conversation, Wire!Next, spoiled' = {}
    PROVE  WireInv'
  <1>1. ~Wire!Greet
    <2>1. stage # "greet"
        BY DEF Conversation, Fits
    <2> QED BY <2>1 DEF Wire!Greet, Wire!Single
  <1>2. ~Wire!RowFails
      BY DEF Wire!RowFails
  <1>3. ASSUME NEW c \in Wire!Commands, NEW long \in BOOLEAN, Wire!Command(c, long)
        PROVE  Wire!Command(c, FALSE)
    <2>1. ~long
        BY <1>3 DEF Wire!Command
    <2>2. long = FALSE
        BY <2>1
    <2> QED BY <1>3, <2>2
  <1> QED BY <1>1, <1>2, <1>3, WriteSteps, ProxySteps, ClientSteps DEF Wire!Next

THEOREM WireInvariance == Wire!Spec => []WireInv
  <1>1. ASSUME WireInv, [Wire!Next]_(Wire!vars), spoiled' = {} PROVE WireInv'
    <2>1. spoiled = {}
        BY <1>1, Spoiling
    <2>2. CASE UNCHANGED Wire!vars
        BY <1>1, <2>2 DEF Wire!vars, Wire!proxyVars, Wire!clientVars, WireInv, Greeting,
           Conversation, Reading, IsHere, Fits
    <2>3. CASE Wire!Next
        BY <1>1, <2>1, <2>3, WireTypes, GreetingSteps, ConversationSteps
    <2> QED BY <1>1, <2>2, <2>3
  <1>2. WireInv /\ [Wire!Next]_(Wire!vars) => WireInv'
    <2>1. spoiled' # {} => WireInv'
        BY DEF WireInv
    <2> QED BY <1>1, <2>1
  <1> QED BY InitWire, <1>2, PTL DEF Wire!Spec

\* Whatever is asked, however long the answer and however the packets lie in the
\* connection, a client of the MySQL proxy expects the number and the kind of packet
\* that writePacket sends next, and waits only for what is coming, but for the causes
\* that AnswersInStep names.
THEOREM ClientUnderstands == Wire!Spec => []AnswersInStep
  <1>1. WireInv => AnswersInStep
    <2> SUFFICES ASSUME WireInv, spoiled = {}
                 PROVE  /\ reader # "confused"
                        /\ reader = "idle" => /\ toClient = <<>> /\ toMySQL = <<>>
                                              /\ stage \in {"reading", "closed"}
                        /\ reader \notin {"idle", "closed"} =>
                              silent \/ Wire!Awaited \/ stage = "login"
        BY DEF AnswersInStep, Wire!AnswersInStep
    <2>1. CASE Greeting
      <3>1. reader = "greeting" /\ stage \in {"greet", "login", "closed"}
          BY <2>1 DEF Greeting
      <3> QED BY <3>1 DEF Wire!Awaited, Wire!Writing
    <2>2. CASE Conversation
      <3>1. PICK q, e : Reading(q, e) /\ Fits(e)
          BY <2>2 DEF Conversation
      <3>2. /\ reader \in {"first", "columns", "columns_end", "rows", "idle", "closed"}
            /\ reader \in {"idle", "closed"} => toClient = <<>> /\ IsHere(e)
          BY <3>1, WireTypes, InConversation
      <3>3. reader = "idle" => toMySQL = <<>> /\ stage \in {"reading", "closed"}
          BY <3>1, <3>2 DEF Fits, IsHere
      <3>4. ASSUME toClient = <<>>, reader \notin {"idle", "closed"}
            PROVE  silent \/ Wire!Awaited \/ stage = "login"
        <4>1. e.reader = reader
            BY <3>1, <3>4, ReadingNothing DEF IsHere
        <4>2. /\ {"welcome", "refuse", "ok", "error", "count", "columns", "columns_end",
                  "rows"} \subseteq Wire!Writing
            BY DEF Wire!Writing
        <4>3. \/ stage \in {"welcome", "refuse", "ok", "error", "count", "columns",
                            "columns_end", "rows", "login", "closed"}
              \/ toMySQL # <<>> \/ silent
          <5>1. \A c : <<c>> # <<>>
              OBVIOUS
          <5>2. e.reader \in {"first", "columns", "columns_end", "rows"}
              BY <3>2, <3>4, <4>1
          <5> QED BY <3>1, <3>4, <5>1, <5>2 DEF Fits
        <4> QED BY <4>2, <4>3 DEF Wire!Awaited
      <3> QED BY <3>2, <3>3, <3>4 DEF Wire!Awaited
    <2> QED BY <2>1, <2>2, WireTypes
  <1> QED BY WireInvariance, <1>1, PTL

=============================================================================
