--------------------------- MODULE DBProxyProofs ---------------------------
(***************************************************************************)
(* Proofs about DBProxy, for any clients, terminals, limits and failures:  *)
(* its types, that connections and terminals give back what they take and  *)
(* finish their sessions, and that the audit log is honest.                *)
(***************************************************************************)
EXTENDS DBProxy, FiniteSetTheorems, TLAPS

Before == {"idle", "verify", "create"}
After == {"finish", "release", "done"}

\* What a connection has at each point of its handler.
ClientOK(c) ==
    /\ pc[c] \in Before \union {"open"} => target[c] = "none"
    /\ pc[c] \in After => target[c] \in {"none", "closed"}
    /\ pc[c] \in Before \union After => c \notin watch
    /\ c \in cancels => pc[c] \in {"ok", "serve", "unregister"}
    /\ pc[c] \in Before => row[c] = "none"
    /\ pc[c] \in {"release", "done"} /\ row[c] = "active" => c \in failed

\* A statement is a success for the handler only if it ran or is blank, and only
\* if it was answered once the answer was due.
Done(c) == cmd[c].ran \/ cmd[c].kind = "blank"
CmdOK(c) ==
    /\ pc[c] = "reply" /\ ~cmd[c].err => Done(c)
    /\ pc[c] = "audit" /\ ~cmd[c].err => Done(c) /\ ~cmd[c].asked

TermOK(w) == /\ term[w] \in {"idle", "slot", "start"} => usql[w] = "none"
             /\ term[w] = "done" => usql[w] # "running"

\* Who has taken a slot of each limiter.
Users(l) == IF l = "web" THEN {w \in Web : Holds(w)}
            ELSE {c \in Conns : Serving(c) /\ LimiterOf(c) = l}
SlotsOK(l) == IsFiniteSet(Users(l)) /\ slots[l] = Cardinality(Users(l))
SlotsInv == \A l \in Limiters : SlotsOK(l)

Places == /\ \A c \in Clients : ClientOK(c)
          /\ \A c \in MySQL : CmdOK(c)
          /\ \A w \in Web : TermOK(w)
          /\ AuditIsHonest

IInv == TypeOK /\ SlotsInv /\ Places

-----------------------------------------------------------------------------
(* Slots: a sum for each limiter *)

LEMMA SlotsFrame ==
    ASSUME SlotsInv, UNCHANGED slots,
           \A c \in Conns : Serving(c)' <=> Serving(c),
           \A w \in Web : Holds(w)' <=> Holds(w)
    PROVE  SlotsInv'
  <1>1. ASSUME NEW l \in Limiters PROVE SlotsOK(l)'
    <2>1. Users(l)' = Users(l)
      BY DEF Users, LimiterOf
    <2> QED BY <2>1 DEF SlotsInv, SlotsOK
  <1> QED BY <1>1 DEF SlotsInv

\* One limiter's slots change with its users.
LEMMA SlotTaken ==
    ASSUME TypeOK, SlotsInv, NEW k \in Limiters, NEW x, x \notin Users(k),
           slots' = [slots EXCEPT ![k] = @ + 1],
           Users(k)' = Users(k) \union {x},
           \A l \in Limiters \ {k} : Users(l)' = Users(l)
    PROVE  SlotsInv'
  <1>1. ASSUME NEW l \in Limiters PROVE SlotsOK(l)'
    <2>1. CASE l = k
      <3>1. /\ IsFiniteSet(Users(k)) /\ slots[k] = Cardinality(Users(k))
            /\ slots'[k] = slots[k] + 1
        BY DEF SlotsInv, SlotsOK, TypeOK
      <3>2. /\ IsFiniteSet(Users(k) \union {x})
            /\ Cardinality(Users(k) \union {x}) = Cardinality(Users(k)) + 1
        BY <3>1, FS_AddElement
      <3> QED BY <2>1, <3>1, <3>2 DEF SlotsOK
    <2>2. CASE l # k
      BY <2>2 DEF SlotsInv, SlotsOK, TypeOK
    <2> QED BY <2>1, <2>2
  <1> QED BY <1>1 DEF SlotsInv

LEMMA SlotBelowLimit ==
    ASSUME TypeOK, NEW k \in Limiters, SlotFree(k),
           slots' = [slots EXCEPT ![k] = @ + 1]
    PROVE  slots' \in [Limiters -> Nat] /\ \A l \in Limiters : slots'[l] <= Limit[l]
  <1>1. /\ slots[k] \in Nat /\ Limit[k] \in Nat /\ slots[k] < Limit[k]
        /\ slots'[k] = slots[k] + 1
    BY BoundsType DEF TypeOK, SlotFree
  <1>2. slots'[k] \in Nat /\ slots'[k] <= Limit[k]
    BY <1>1
  <1>3. \A l \in Limiters \ {k} : slots'[l] = slots[l]
    BY DEF TypeOK
  <1> QED BY <1>2, <1>3 DEF TypeOK

LEMMA SlotGivenBack ==
    ASSUME TypeOK, SlotsInv, NEW k \in Limiters, NEW x \in Users(k),
           slots' = [slots EXCEPT ![k] = @ - 1],
           Users(k)' = Users(k) \ {x},
           \A l \in Limiters \ {k} : Users(l)' = Users(l)
    PROVE  SlotsInv' /\ slots'[k] \in 0..Limit[k]
  <1>1. /\ IsFiniteSet(Users(k) \ {x})
        /\ Cardinality(Users(k) \ {x}) = Cardinality(Users(k)) - 1
        /\ Cardinality(Users(k) \ {x}) \in Nat
    BY FS_RemoveElement, FS_CardinalityType DEF SlotsInv, SlotsOK
  <1>2. ASSUME NEW l \in Limiters PROVE SlotsOK(l)'
    <2>1. CASE l = k
      <3>1. slots[k] = Cardinality(Users(k)) /\ slots'[k] = slots[k] - 1
        BY DEF SlotsInv, SlotsOK, TypeOK
      <3> QED BY <1>1, <2>1, <3>1 DEF SlotsOK
    <2>2. CASE l # k
      BY <2>2 DEF SlotsInv, SlotsOK, TypeOK
    <2> QED BY <2>1, <2>2
  <1>3. slots'[k] \in 0..Limit[k]
    <2>1. slots[k] = Cardinality(Users(k)) /\ slots'[k] = slots[k] - 1
      BY DEF SlotsInv, SlotsOK, TypeOK
    <2>2. /\ slots[k] \in Nat /\ Limit[k] \in Nat /\ slots[k] <= Limit[k]
          /\ slots'[k] \in Nat
      BY <1>1, <2>1, BoundsType DEF TypeOK
    <2> QED BY <2>1, <2>2
  <1> QED BY <1>2, <1>3 DEF SlotsInv

-----------------------------------------------------------------------------
(* The handler of a connection, between its slot and its release *)

LEMMA KindsApart == /\ \A c \in MySQL : c \in Clients /\ c \notin Postgres
                    /\ \A c \in Postgres : c \in Clients /\ c \notin MySQL
                    /\ \A c \in Clients : c \in Conns /\ c \notin Cancel
                    /\ \A c \in Cancel : c \in Conns /\ c \notin Clients
  BY KindsDisjoint DEF Clients, Conns

\* Setting up.
LEMMA SetUpSteps ==
    ASSUME IInv, NEW c \in Clients, VerifyConnectionToken(c) \/ CreateSession(c) \/ OpenTarget(c) \/ SendOK(c)
    PROVE  IInv'
  <1> USE KindsApart DEF IInv, Goto, Fails, FailsUnder, conn, session, database, command, terminal, faults
  <1>1. CASE VerifyConnectionToken(c)
    <2>1. TypeOK'
      <3>1. failed' \subseteq Conns \union Web /\ failures' \in 0..MaxFailures
        BY <1>1, BoundsType DEF VerifyConnectionToken, Consume, TypeOK
      <3>2. spent' \subseteq {TokenOf[e] : e \in Clients}
        BY <1>1 DEF VerifyConnectionToken, Consume, TypeOK
      <3> QED BY <1>1, <3>1, <3>2 DEF VerifyConnectionToken, TypeOK, Points
    <2>2. SlotsInv'
      BY <1>1, SlotsFrame DEF VerifyConnectionToken, Consume, Serving, Holds, TypeOK
    <2>3. ASSUME NEW e \in Clients PROVE ClientOK(e)'
      BY <1>1 DEF VerifyConnectionToken, Consume, TypeOK, Places, ClientOK, Before, After
    <2>4. ASSUME NEW e \in MySQL PROVE CmdOK(e)'
      BY <1>1 DEF VerifyConnectionToken, Consume, TypeOK, Places, CmdOK, Done
    <2>5. (\A w \in Web : TermOK(w)') /\ AuditIsHonest'
      BY <1>1 DEF VerifyConnectionToken, Consume, Places, TermOK, AuditIsHonest,
         AuditedUnlessCut, LinesAreTrue
    <2> QED BY <2>1, <2>2, <2>3, <2>4, <2>5 DEF Places
  <1>2. CASE CreateSession(c)
    <2>1. TypeOK'
      <3>1. failed' \subseteq Conns \union Web /\ failures' \in 0..MaxFailures
        BY <1>2, BoundsType DEF CreateSession, TypeOK
      <3> QED BY <1>2, <3>1 DEF CreateSession, TypeOK, Points
    <2>2. SlotsInv'
      BY <1>2, SlotsFrame DEF CreateSession, Serving, Holds, TypeOK
    <2>3. ASSUME NEW e \in Clients PROVE ClientOK(e)'
      BY <1>2 DEF CreateSession, TypeOK, Places, ClientOK, Before, After
    <2>4. ASSUME NEW e \in MySQL PROVE CmdOK(e)'
      BY <1>2 DEF CreateSession, TypeOK, Places, CmdOK, Done
    <2>5. (\A w \in Web : TermOK(w)') /\ AuditIsHonest'
      BY <1>2 DEF CreateSession, Places, TermOK, AuditIsHonest,
         AuditedUnlessCut, LinesAreTrue
    <2> QED BY <2>1, <2>2, <2>3, <2>4, <2>5 DEF Places
  <1>3. CASE OpenTarget(c)
    <2>1. TypeOK'
      <3>1. failed' \subseteq Conns \union Web /\ failures' \in 0..MaxFailures
        BY <1>3, BoundsType DEF OpenTarget, AfterOpen, TypeOK
      <3> QED BY <1>3, <3>1 DEF OpenTarget, AfterOpen, TypeOK, Points
    <2>2. SlotsInv'
      BY <1>3, SlotsFrame DEF OpenTarget, AfterOpen, Serving, Holds, TypeOK
    <2>3. ASSUME NEW e \in Clients PROVE ClientOK(e)'
      BY <1>3 DEF OpenTarget, AfterOpen, TypeOK, Places, ClientOK, Before, After
    <2>4. ASSUME NEW e \in MySQL PROVE CmdOK(e)'
      BY <1>3 DEF OpenTarget, AfterOpen, TypeOK, Places, CmdOK, Done
    <2>5. (\A w \in Web : TermOK(w)') /\ AuditIsHonest'
      BY <1>3 DEF OpenTarget, AfterOpen, Places, TermOK, AuditIsHonest,
         AuditedUnlessCut, LinesAreTrue
    <2> QED BY <2>1, <2>2, <2>3, <2>4, <2>5 DEF Places
  <1>4. CASE SendOK(c)
    <2>1. TypeOK'
      BY <1>4 DEF SendOK, Ended, TypeOK, Points
    <2>2. SlotsInv'
      BY <1>4, SlotsFrame DEF SendOK, Ended, Serving, Holds, TypeOK
    <2>3. ASSUME NEW e \in Clients PROVE ClientOK(e)'
      BY <1>4 DEF SendOK, Ended, TypeOK, Places, ClientOK, Before, After
    <2>4. ASSUME NEW e \in MySQL PROVE CmdOK(e)'
      BY <1>4 DEF SendOK, Ended, TypeOK, Places, CmdOK, Done
    <2>5. (\A w \in Web : TermOK(w)') /\ AuditIsHonest'
      BY <1>4 DEF SendOK, Ended, Places, TermOK, AuditIsHonest,
         AuditedUnlessCut, LinesAreTrue
    <2> QED BY <2>1, <2>2, <2>3, <2>4, <2>5 DEF Places
  <1> QED BY <1>1, <1>2, <1>3, <1>4

\* The relay of PostgreSQL.
LEMMA RelaySteps ==
    ASSUME IInv, NEW c \in Clients, EndRelay(c) \/ LastMessage(c)
    PROVE  IInv'
  <1> USE KindsApart DEF IInv, Goto, Fails, FailsUnder, conn, session, database, command, terminal, faults
  <1>1. CASE EndRelay(c)
    <2>1. TypeOK'
      BY <1>1 DEF EndRelay, CloseRelay, Ended, TypeOK, Points
    <2>2. SlotsInv'
      BY <1>1, SlotsFrame DEF EndRelay, CloseRelay, Ended, Serving, Holds, TypeOK
    <2>3. ASSUME NEW e \in Clients PROVE ClientOK(e)'
      BY <1>1 DEF EndRelay, CloseRelay, Ended, TypeOK, Places, ClientOK, Before, After
    <2>4. ASSUME NEW e \in MySQL PROVE CmdOK(e)'
      BY <1>1 DEF EndRelay, CloseRelay, Ended, TypeOK, Places, CmdOK, Done
    <2>5. (\A w \in Web : TermOK(w)') /\ AuditIsHonest'
      BY <1>1 DEF EndRelay, CloseRelay, Ended, Places, TermOK, AuditIsHonest,
         AuditedUnlessCut, LinesAreTrue
    <2> QED BY <2>1, <2>2, <2>3, <2>4, <2>5 DEF Places
  <1>2. CASE LastMessage(c)
    <2>1. TypeOK'
      BY <1>2 DEF LastMessage, CloseRelay, Ended, TypeOK, Points
    <2>2. SlotsInv'
      BY <1>2, SlotsFrame DEF LastMessage, CloseRelay, Ended, Serving, Holds, TypeOK
    <2>3. ASSUME NEW e \in Clients PROVE ClientOK(e)'
      BY <1>2 DEF LastMessage, CloseRelay, Ended, TypeOK, Places, ClientOK, Before, After
    <2>4. ASSUME NEW e \in MySQL PROVE CmdOK(e)'
      BY <1>2 DEF LastMessage, CloseRelay, Ended, TypeOK, Places, CmdOK, Done
    <2>5. (\A w \in Web : TermOK(w)') /\ AuditIsHonest'
      BY <1>2 DEF LastMessage, CloseRelay, Ended, Places, TermOK, AuditIsHonest,
         AuditedUnlessCut, LinesAreTrue
    <2> QED BY <2>1, <2>2, <2>3, <2>4, <2>5 DEF Places
  <1> QED BY <1>1, <1>2

\* The command of one client changes, and an error-free one has run.
CmdMoves(c, rest) ==
    /\ cmd' \in [MySQL -> Cmds]
    /\ \A e \in MySQL \ {c} : cmd'[e] = cmd[e]
    /\ ~cmd'[c].err => (cmd'[c].ran \/ cmd'[c].kind = "blank") /\ rest

LEMMA OutcomeTyped ==
    ASSUME TypeOK, NEW c \in MySQL, NEW ran \in BOOLEAN, NEW err \in BOOLEAN,
           NEW broken \in BOOLEAN, Outcome(c, ran, err, broken), err \/ ran
    PROVE  CmdMoves(c, TRUE)
  <1>1. cmd[c] \in Cmds
    BY DEF TypeOK
  <1>2. cmd' = [cmd EXCEPT ![c].ran = ran, ![c].err = err]
    BY DEF Outcome
  <1>3. \A e \in MySQL \ {c} : cmd'[e] = cmd[e]
    BY <1>2 DEF TypeOK
  <1>4. cmd'[c] = [cmd[c] EXCEPT !.ran = ran, !.err = err]
    BY <1>2 DEF TypeOK
  <1>5. cmd'[c] \in Cmds /\ cmd'[c].ran = ran /\ cmd'[c].err = err
    BY <1>1, <1>4 DEF Cmds
  <1>6. cmd' \in [MySQL -> Cmds]
    BY <1>2, <1>3, <1>5 DEF TypeOK
  <1> QED BY <1>3, <1>5, <1>6 DEF CmdMoves

LEMMA ReplyTyped ==
    ASSUME TypeOK, NEW c \in MySQL, CmdOK(c), Reply(c)
    PROVE  CmdMoves(c, ~cmd'[c].asked)
  <1> DEFINE asked == cmd[c].asked /\ (Unreachable(c) \/ ~Answers(cmd[c].kind, cmd[c].err))
             err == Err(cmd[c].err, Unreachable(c))
  <1>1. cmd[c] \in Cmds
    BY DEF TypeOK
  <1>2. cmd' = [cmd EXCEPT ![c].asked = asked, ![c].err = err]
    BY DEF Reply
  <1>3. asked \in BOOLEAN /\ err \in BOOLEAN
    BY <1>1 DEF Cmds, Err, Unreachable
  <1> HIDE DEF asked, err
  <1>4. \A e \in MySQL \ {c} : cmd'[e] = cmd[e]
    BY <1>2 DEF TypeOK
  <1>5. cmd'[c] = [cmd[c] EXCEPT !.asked = asked, !.err = err]
    BY <1>2 DEF TypeOK
  <1>6. /\ cmd'[c] \in Cmds /\ cmd'[c].ran = cmd[c].ran
        /\ cmd'[c].kind = cmd[c].kind /\ cmd'[c].err = err /\ cmd'[c].asked = asked
    BY <1>1, <1>3, <1>5 DEF Cmds
  <1>7. cmd' \in [MySQL -> Cmds]
    BY <1>2, <1>4, <1>6 DEF TypeOK
  <1>8. ~err => ~cmd[c].err /\ ~asked
    BY DEF err, asked, Err, Answers
  <1>9. ~err => cmd[c].ran \/ cmd[c].kind = "blank"
    BY <1>8 DEF CmdOK, Done, Reply
  <1> QED BY <1>4, <1>6, <1>7, <1>8, <1>9 DEF CmdMoves

\* The command loop of MySQL.
LEMMA CommandSteps ==
    ASSUME IInv, NEW c \in MySQL,
           UseDatabase(c) \/ Run(c) \/ Reply(c) \/ Audit(c) \/ EndLoop(c)
    PROVE  IInv'
  <1> USE KindsApart DEF IInv, Goto, Fails, FailsUnder, conn, session, database, command, terminal, faults
  <1>1. CASE Run(c)
    <2>0. CmdMoves(c, TRUE)
      BY <1>1, OutcomeTyped DEF Run
    <2>1. TypeOK'
      <3>1. target' \in [Clients -> {"none", "open", "broken", "closed"}]
        BY <1>1 DEF Run, Outcome, TypeOK
      <3> QED BY <1>1, <2>0, <3>1 DEF CmdMoves, Run, TypeOK, Points
    <2>2. SlotsInv'
      BY <1>1, SlotsFrame DEF Run, Outcome, Cmds, Serving, Holds, TypeOK
    <2>3. ASSUME NEW e \in Clients PROVE ClientOK(e)'
      BY <1>1 DEF Run, Outcome, Cmds, TypeOK, Places, ClientOK, Before, After
    <2>4. ASSUME NEW e \in MySQL PROVE CmdOK(e)'
      BY <1>1, <2>0 DEF CmdMoves, Run, TypeOK, Places, CmdOK, Done
    <2>5. (\A w \in Web : TermOK(w)') /\ AuditIsHonest'
      BY <1>1 DEF Run, Outcome, Cmds, Places, TermOK, AuditIsHonest,
         AuditedUnlessCut, LinesAreTrue
    <2> QED BY <2>1, <2>2, <2>3, <2>4, <2>5 DEF Places
  <1>5. CASE UseDatabase(c)
    <2>0. missed \subseteq missed' /\ missed' \subseteq missed \union {<<c, "login">>}
      BY <1>5 DEF UseDatabase
    <2>1. TypeOK'
      <3>1. target' \in [Clients -> {"none", "open", "broken", "closed"}]
        BY <1>5 DEF UseDatabase, TypeOK
      <3>2. missed' \subseteq MySQL \X (Kinds \union {"none", "login"})
        BY <2>0 DEF TypeOK
      <3> QED BY <1>5, <3>1, <3>2 DEF UseDatabase, TypeOK, Points
    <2>2. SlotsInv'
      BY <1>5, SlotsFrame DEF UseDatabase, Serving, Holds, TypeOK
    <2>3. ASSUME NEW e \in Clients PROVE ClientOK(e)'
      BY <1>5 DEF UseDatabase, TypeOK, Places, ClientOK, Before, After
    <2>4. ASSUME NEW e \in MySQL PROVE CmdOK(e)'
      BY <1>5 DEF UseDatabase, TypeOK, Places, CmdOK, Done
    <2>5. (\A w \in Web : TermOK(w)') /\ AuditIsHonest'
      BY <1>5, <2>0 DEF UseDatabase, Places, TermOK, AuditIsHonest,
         AuditedUnlessCut, LinesAreTrue
    <2> QED BY <2>1, <2>2, <2>3, <2>4, <2>5 DEF Places
  <1>2. CASE Reply(c)
    <2>0. CmdMoves(c, ~cmd'[c].asked)
      BY <1>2, ReplyTyped DEF Places
    <2>1. TypeOK'
      BY <1>2, <2>0 DEF CmdMoves, Reply, TypeOK, Points
    <2>2. SlotsInv'
      BY <1>2, SlotsFrame DEF Reply, Answers, Err, Unreachable, Cmds, Serving, Holds, TypeOK
    <2>3. ASSUME NEW e \in Clients PROVE ClientOK(e)'
      BY <1>2 DEF Reply, Answers, Err, Unreachable, Cmds, TypeOK, Places, ClientOK, Before, After
    <2>4. ASSUME NEW e \in MySQL PROVE CmdOK(e)'
      BY <1>2, <2>0 DEF CmdMoves, Reply, TypeOK, Places, CmdOK, Done
    <2>5. (\A w \in Web : TermOK(w)') /\ AuditIsHonest'
      BY <1>2 DEF Reply, Answers, Err, Unreachable, Cmds, Places, TermOK, AuditIsHonest,
         AuditedUnlessCut, LinesAreTrue
    <2> QED BY <2>1, <2>2, <2>3, <2>4, <2>5 DEF Places
  <1>3. CASE Audit(c)
    <2>0. \E new \in Cmds : cmd' = [cmd EXCEPT ![c] = new]
      BY <1>3 DEF Audit, NoCmd, TypeOK, Cmds
    <2>1. TypeOK'
      <3>1. failed' \subseteq Conns \union Web /\ failures' \in 0..MaxFailures
        BY <1>3, BoundsType DEF Audit, HasLine, NoCmd, Cmds, TypeOK
      <3>2. missed' \subseteq MySQL \X (Kinds \union {"none", "login"})
        BY <1>3 DEF Audit, Cmds, TypeOK
      <3>3. lied' \subseteq MySQL
        BY <1>3 DEF Audit, TypeOK
      <3> QED BY <1>3, <2>0, <3>1, <3>2, <3>3 DEF Audit, TypeOK, Points
    <2>2. SlotsInv'
      BY <1>3, SlotsFrame DEF Audit, HasLine, NoCmd, Cmds, Serving, Holds, TypeOK
    <2>3. ASSUME NEW e \in Clients PROVE ClientOK(e)'
      BY <1>3 DEF Audit, HasLine, NoCmd, Cmds, TypeOK, Places, ClientOK, Before, After
    <2>4. ASSUME NEW e \in MySQL PROVE CmdOK(e)'
      BY <1>3, <2>0 DEF Audit, TypeOK, Places, CmdOK, Done
    <2>5. (\A w \in Web : TermOK(w)') /\ AuditIsHonest'
      <3>1. lied' = {}
        BY <1>3 DEF Audit, HasLine, Places, CmdOK, Done, AuditIsHonest, LinesAreTrue
      <3>2. ASSUME NEW m \in missed'
            PROVE  m[1] \in cut \union failed' \/ m[2] = "login"
        BY <1>3 DEF Audit, HasLine, Places, AuditIsHonest, AuditedUnlessCut
      <3> QED BY <1>3, <3>1, <3>2 DEF Audit, Places, TermOK, AuditIsHonest,
         AuditedUnlessCut, LinesAreTrue
    <2> QED BY <2>1, <2>2, <2>3, <2>4, <2>5 DEF Places
  <1>4. CASE EndLoop(c)
    <2>1. TypeOK'
      BY <1>4 DEF EndLoop, Ended, NoCmd, Cmds, TypeOK, Points
    <2>2. SlotsInv'
      BY <1>4, SlotsFrame DEF EndLoop, Ended, NoCmd, Cmds, Serving, Holds, TypeOK
    <2>3. ASSUME NEW e \in Clients PROVE ClientOK(e)'
      BY <1>4 DEF EndLoop, Ended, NoCmd, Cmds, TypeOK, Places, ClientOK, Before, After
    <2>4. ASSUME NEW e \in MySQL PROVE CmdOK(e)'
      BY <1>4 DEF EndLoop, Ended, NoCmd, Cmds, TypeOK, Places, CmdOK, Done
    <2>5. (\A w \in Web : TermOK(w)') /\ AuditIsHonest'
      BY <1>4 DEF EndLoop, Ended, NoCmd, Cmds, Places, TermOK, AuditIsHonest,
         AuditedUnlessCut, LinesAreTrue
    <2> QED BY <2>1, <2>2, <2>3, <2>4, <2>5 DEF Places
  <1> QED BY <1>1, <1>2, <1>3, <1>4, <1>5

\* The deferred calls but the release.
LEMMA DeferredSteps ==
    ASSUME IInv, NEW c \in Clients, Unregister(c) \/ CloseTarget(c) \/ FinishSession(c)
    PROVE  IInv'
  <1> USE KindsApart DEF IInv, Goto, Fails, FailsUnder, conn, session, database, command, terminal, faults
  <1>1. CASE Unregister(c)
    <2>1. TypeOK'
      BY <1>1 DEF Unregister, Unregistered, TypeOK, Points
    <2>2. SlotsInv'
      BY <1>1, SlotsFrame DEF Unregister, Unregistered, Serving, Holds, TypeOK
    <2>3. ASSUME NEW e \in Clients PROVE ClientOK(e)'
      BY <1>1 DEF Unregister, Unregistered, TypeOK, Places, ClientOK, Before, After
    <2>4. ASSUME NEW e \in MySQL PROVE CmdOK(e)'
      BY <1>1 DEF Unregister, Unregistered, TypeOK, Places, CmdOK, Done
    <2>5. (\A w \in Web : TermOK(w)') /\ AuditIsHonest'
      BY <1>1 DEF Unregister, Unregistered, Places, TermOK, AuditIsHonest,
         AuditedUnlessCut, LinesAreTrue
    <2> QED BY <2>1, <2>2, <2>3, <2>4, <2>5 DEF Places
  <1>2. CASE CloseTarget(c)
    <2>1. TypeOK'
      BY <1>2 DEF CloseTarget, TypeOK, Points
    <2>2. SlotsInv'
      BY <1>2, SlotsFrame DEF CloseTarget, Serving, Holds, TypeOK
    <2>3. ASSUME NEW e \in Clients PROVE ClientOK(e)'
      BY <1>2 DEF CloseTarget, TypeOK, Places, ClientOK, Before, After
    <2>4. ASSUME NEW e \in MySQL PROVE CmdOK(e)'
      BY <1>2 DEF CloseTarget, TypeOK, Places, CmdOK, Done
    <2>5. (\A w \in Web : TermOK(w)') /\ AuditIsHonest'
      BY <1>2 DEF CloseTarget, Places, TermOK, AuditIsHonest,
         AuditedUnlessCut, LinesAreTrue
    <2> QED BY <2>1, <2>2, <2>3, <2>4, <2>5 DEF Places
  <1>3. CASE FinishSession(c)
    <2>1. TypeOK'
      <3>1. failed' \subseteq Conns \union Web /\ failures' \in 0..MaxFailures
        BY <1>3, BoundsType DEF FinishSession, FinishFails, TypeOK
      <3> QED BY <1>3, <3>1 DEF FinishSession, FinishFails, TypeOK, Points
    <2>2. SlotsInv'
      BY <1>3, SlotsFrame DEF FinishSession, FinishFails, Serving, Holds, TypeOK
    <2>3. ASSUME NEW e \in Clients PROVE ClientOK(e)'
      BY <1>3 DEF FinishSession, FinishFails, TypeOK, Places, ClientOK, Before, After
    <2>4. ASSUME NEW e \in MySQL PROVE CmdOK(e)'
      BY <1>3 DEF FinishSession, FinishFails, TypeOK, Places, CmdOK, Done
    <2>5. (\A w \in Web : TermOK(w)') /\ AuditIsHonest'
      BY <1>3 DEF FinishSession, FinishFails, Places, TermOK, AuditIsHonest,
         AuditedUnlessCut, LinesAreTrue
    <2> QED BY <2>1, <2>2, <2>3, <2>4, <2>5 DEF Places
  <1> QED BY <1>1, <1>2, <1>3

\* CancelRequests.
LEMMA CancelSteps ==
    ASSUME IInv, NEW c \in Cancel, Lookup(c) \/ Forward(c)
    PROVE  IInv'
  <1> USE KindsApart DEF IInv, Goto, Fails, FailsUnder, conn, session, database, command, terminal, faults
  <1>1. CASE Lookup(c)
    <2>1. TypeOK'
      BY <1>1 DEF Lookup, TypeOK, Points
    <2>2. SlotsInv'
      BY <1>1, SlotsFrame DEF Lookup, Serving, Holds, TypeOK
    <2>3. ASSUME NEW e \in Clients PROVE ClientOK(e)'
      BY <1>1 DEF Lookup, TypeOK, Places, ClientOK, Before, After
    <2>4. ASSUME NEW e \in MySQL PROVE CmdOK(e)'
      BY <1>1 DEF Lookup, TypeOK, Places, CmdOK, Done
    <2>5. (\A w \in Web : TermOK(w)') /\ AuditIsHonest'
      BY <1>1 DEF Lookup, Places, TermOK, AuditIsHonest,
         AuditedUnlessCut, LinesAreTrue
    <2> QED BY <2>1, <2>2, <2>3, <2>4, <2>5 DEF Places
  <1>2. CASE Forward(c)
    <2>1. TypeOK'
      BY <1>2 DEF Forward, TypeOK, Points
    <2>2. SlotsInv'
      BY <1>2, SlotsFrame DEF Forward, Serving, Holds, TypeOK
    <2>3. ASSUME NEW e \in Clients PROVE ClientOK(e)'
      BY <1>2 DEF Forward, TypeOK, Places, ClientOK, Before, After
    <2>4. ASSUME NEW e \in MySQL PROVE CmdOK(e)'
      BY <1>2 DEF Forward, TypeOK, Places, CmdOK, Done
    <2>5. (\A w \in Web : TermOK(w)') /\ AuditIsHonest'
      BY <1>2 DEF Forward, Places, TermOK, AuditIsHonest,
         AuditedUnlessCut, LinesAreTrue
    <2> QED BY <2>1, <2>2, <2>3, <2>4, <2>5 DEF Places
  <1> QED BY <1>1, <1>2

-----------------------------------------------------------------------------
(* Around the handlers *)

\* The watch, administrators and databases.
LEMMA OutsideSteps ==
    ASSUME IInv, NEW c \in Clients, Poll(c) \/ ForceFinish(c) \/ TargetEnds(c)
    PROVE  IInv'
  <1> USE KindsApart DEF IInv, Goto, Fails, FailsUnder, conn, session, database, command, terminal, faults
  <1>1. CASE Poll(c)
    <2>1. TypeOK'
      BY <1>1 DEF Poll, Notices, TypeOK, Points
    <2>2. SlotsInv'
      BY <1>1, SlotsFrame DEF Poll, Notices, Serving, Holds, TypeOK
    <2>3. ASSUME NEW e \in Clients PROVE ClientOK(e)'
      BY <1>1 DEF Poll, Notices, TypeOK, Places, ClientOK, Before, After
    <2>4. ASSUME NEW e \in MySQL PROVE CmdOK(e)'
      BY <1>1 DEF Poll, Notices, TypeOK, Places, CmdOK, Done
    <2>5. (\A w \in Web : TermOK(w)') /\ AuditIsHonest'
      BY <1>1 DEF Poll, Notices, Places, TermOK, AuditIsHonest,
         AuditedUnlessCut, LinesAreTrue
    <2> QED BY <2>1, <2>2, <2>3, <2>4, <2>5 DEF Places
  <1>2. CASE ForceFinish(c)
    <2>1. TypeOK'
      BY <1>2 DEF ForceFinish, TypeOK, Points
    <2>2. SlotsInv'
      BY <1>2, SlotsFrame DEF ForceFinish, Serving, Holds, TypeOK
    <2>3. ASSUME NEW e \in Clients PROVE ClientOK(e)'
      BY <1>2 DEF ForceFinish, TypeOK, Places, ClientOK, Before, After
    <2>4. ASSUME NEW e \in MySQL PROVE CmdOK(e)'
      BY <1>2 DEF ForceFinish, TypeOK, Places, CmdOK, Done
    <2>5. (\A w \in Web : TermOK(w)') /\ AuditIsHonest'
      BY <1>2 DEF ForceFinish, Places, TermOK, AuditIsHonest,
         AuditedUnlessCut, LinesAreTrue
    <2> QED BY <2>1, <2>2, <2>3, <2>4, <2>5 DEF Places
  <1>3. CASE TargetEnds(c)
    <2>1. TypeOK'
      BY <1>3 DEF TargetEnds, TypeOK, Points
    <2>2. SlotsInv'
      BY <1>3, SlotsFrame DEF TargetEnds, Serving, Holds, TypeOK
    <2>3. ASSUME NEW e \in Clients PROVE ClientOK(e)'
      BY <1>3 DEF TargetEnds, TypeOK, Places, ClientOK, Before, After
    <2>4. ASSUME NEW e \in MySQL PROVE CmdOK(e)'
      BY <1>3 DEF TargetEnds, TypeOK, Places, CmdOK, Done
    <2>5. (\A w \in Web : TermOK(w)') /\ AuditIsHonest'
      BY <1>3 DEF TargetEnds, Places, TermOK, AuditIsHonest,
         AuditedUnlessCut, LinesAreTrue
    <2> QED BY <2>1, <2>2, <2>3, <2>4, <2>5 DEF Places
  <1> QED BY <1>1, <1>2, <1>3

LEMMA LeaveStep ==
    ASSUME IInv, NEW c \in Conns, Leave(c)
    PROVE  IInv'
  <1> USE DEF IInv, Leave, session, database, command, terminal, faults
  <1>1. TypeOK'
    BY DEF TypeOK
  <1>2. SlotsInv'
    BY SlotsFrame DEF Serving, Holds
  <1>3. Places'
    BY DEF Places, ClientOK, CmdOK, Done, TermOK, AuditIsHonest, AuditedUnlessCut,
           LinesAreTrue
  <1> QED BY <1>1, <1>2, <1>3

\* A client asks; what the context's end has forbidden is an error at once.
LEMMA AskStep ==
    ASSUME IInv, NEW c \in MySQL, NEW kind \in Kinds, Ask(c, kind)
    PROVE  IInv'
  <1> USE KindsApart DEF IInv, Goto, session, database, terminal, faults
  <1>1. \E new \in Cmds : /\ cmd' = [cmd EXCEPT ![c] = new]
                          /\ new.kind = kind /\ new.err = Refused(c, kind)
    <2> DEFINE new(e) == [NoCmd EXCEPT !.kind = kind, !.asked = TRUE, !.err = e]
    <2>1. \A e \in BOOLEAN : new(e) \in Cmds /\ new(e).kind = kind /\ new(e).err = e
      BY DEF NoCmd, Cmds
    <2>2. cmd' = [cmd EXCEPT ![c] = new(Refused(c, kind))]
      BY Zenon DEF Ask
    <2>3. Refused(c, kind) \in BOOLEAN
      BY DEF Refused
    <2> HIDE DEF new
    <2> QED BY <2>1, <2>2, <2>3, Zenon
  <1>2. TypeOK'
    BY <1>1 DEF Ask, IsRun, TypeOK, Points
  <1>3. SlotsInv'
    BY SlotsFrame DEF Ask, IsRun, Serving, Holds, TypeOK
  <1>4. ASSUME NEW e \in Clients PROVE ClientOK(e)'
    BY DEF Ask, IsRun, TypeOK, Places, ClientOK, Before, After
  <1>5. ASSUME NEW e \in MySQL PROVE CmdOK(e)'
    BY <1>1 DEF Ask, IsRun, Refused, TypeOK, Places, CmdOK, Done
  <1>6. (\A w \in Web : TermOK(w)') /\ AuditIsHonest'
    BY DEF Ask, Places, TermOK, AuditIsHonest, AuditedUnlessCut, LinesAreTrue
  <1> QED BY <1>2, <1>3, <1>4, <1>5, <1>6 DEF Places

LEMMA StopStep ==
    ASSUME IInv, Stop
    PROVE  IInv'
  <1> USE DEF IInv, Stop, database, command, terminal, faults
  <1>1. TypeOK'
    BY DEF TypeOK
  <1>2. SlotsInv'
    BY SlotsFrame DEF Serving, Holds
  <1>3. Places'
    BY DEF Places, ClientOK, CmdOK, Done, TermOK, AuditIsHonest, AuditedUnlessCut,
           LinesAreTrue
  <1> QED BY <1>1, <1>2, <1>3

\* A connection is counted from its acceptance to its release.
LEMMA ConnUsers ==
    ASSUME NEW c \in Conns, \A e \in Conns \ {c} : pc'[e] = pc[e],
           UNCHANGED term
    PROVE  /\ LimiterOf(c) \in Limiters
           /\ \A l \in Limiters \ {LimiterOf(c)} : Users(l)' = Users(l)
           /\ ~Serving(c) /\ Serving(c)' =>
                 /\ c \notin Users(LimiterOf(c))
                 /\ Users(LimiterOf(c))' = Users(LimiterOf(c)) \union {c}
           /\ Serving(c) /\ ~Serving(c)' =>
                 /\ c \in Users(LimiterOf(c))
                 /\ Users(LimiterOf(c))' = Users(LimiterOf(c)) \ {c}
  BY DEF Users, Serving, Holds, LimiterOf, Limiters

LEMMA AcceptStep ==
    ASSUME IInv, NEW c \in Conns, Accept(c)
    PROVE  IInv'
  <1> USE KindsApart DEF IInv, Goto, session, database, command, terminal, faults
  <1>0. /\ pc[c] = "idle" /\ \A e \in Conns \ {c} : pc'[e] = pc[e]
        /\ pc'[c] \in {"lookup", "verify", "done"} /\ UNCHANGED term
        /\ c \in Clients => pc'[c] \in {"verify", "done"}
    BY DEF Accept, TypeOK
  <1>1. /\ SlotsInv'
        /\ slots' \in [Limiters -> Nat] /\ \A l \in Limiters : slots'[l] <= Limit[l]
    <2>1. CASE /\ SlotFree(LimiterOf(c)) /\ pc'[c] # "done"
               /\ slots' = [slots EXCEPT ![LimiterOf(c)] = @ + 1]
      <3>1. SlotsInv'
        BY <1>0, <2>1, ConnUsers, SlotTaken DEF Serving
      <3>2. LimiterOf(c) \in Limiters
        BY <1>0, ConnUsers
      <3> QED BY <2>1, <3>1, <3>2, SlotBelowLimit
    <2>2. CASE pc'[c] = "done" /\ UNCHANGED slots
      <3>1. \A e \in Conns : Serving(e)' <=> Serving(e)
        BY <1>0, <2>2 DEF Serving
      <3> QED BY <1>0, <2>2, <3>1, SlotsFrame DEF TypeOK, Holds
    <2> QED BY <2>1, <2>2 DEF Accept, TypeOK
  <1>2. TypeOK'
    BY <1>1 DEF Accept, TypeOK, Points
  <1>3. ASSUME NEW e \in Clients PROVE ClientOK(e)'
    BY <1>0 DEF Accept, Places, ClientOK, Before, After
  <1>4. ASSUME NEW e \in MySQL PROVE CmdOK(e)'
    BY <1>0 DEF Accept, Places, CmdOK, Done
  <1>5. (\A w \in Web : TermOK(w)') /\ AuditIsHonest'
    BY DEF Accept, Places, TermOK, AuditIsHonest, AuditedUnlessCut, LinesAreTrue
  <1> QED BY <1>1, <1>2, <1>3, <1>4, <1>5 DEF Places

LEMMA ReleaseStep ==
    ASSUME IInv, NEW c \in Conns, Release(c)
    PROVE  IInv'
  <1> USE KindsApart DEF IInv, Goto, session, database, command, terminal, faults
  <1>0. /\ pc[c] = "release" /\ \A e \in Conns \ {c} : pc'[e] = pc[e]
        /\ pc'[c] = "done" /\ UNCHANGED term
    BY DEF Release, TypeOK
  <1>1. /\ SlotsInv'
        /\ slots' \in [Limiters -> Nat] /\ \A l \in Limiters : slots'[l] <= Limit[l]
    <2>1. /\ LimiterOf(c) \in Limiters /\ c \in Users(LimiterOf(c))
          /\ Users(LimiterOf(c))' = Users(LimiterOf(c)) \ {c}
          /\ \A l \in Limiters \ {LimiterOf(c)} : Users(l)' = Users(l)
      BY <1>0, ConnUsers DEF Serving
    <2>2. SlotsInv' /\ slots'[LimiterOf(c)] \in 0..Limit[LimiterOf(c)]
      BY <2>1, SlotGivenBack DEF Release, Freed
    <2> QED BY <2>1, <2>2, BoundsType DEF Release, Freed, TypeOK
  <1>2. TypeOK'
    BY <1>1 DEF Release, TypeOK, Points
  <1>3. ASSUME NEW e \in Clients PROVE ClientOK(e)'
    BY <1>0 DEF Release, Places, ClientOK, Before, After
  <1>4. ASSUME NEW e \in MySQL PROVE CmdOK(e)'
    BY <1>0 DEF Release, Places, CmdOK, Done
  <1>5. (\A w \in Web : TermOK(w)') /\ AuditIsHonest'
    BY DEF Release, Places, TermOK, AuditIsHonest, AuditedUnlessCut, LinesAreTrue
  <1> QED BY <1>1, <1>2, <1>3, <1>4, <1>5 DEF Places

-----------------------------------------------------------------------------
(* The web terminal *)

\* A terminal is counted from its slot to its leaving.
LEMMA TermUsers ==
    ASSUME NEW w \in Web, \A v \in Web \ {w} : term'[v] = term[v], UNCHANGED pc
    PROVE  /\ \A l \in Limiters \ {"web"} : Users(l)' = Users(l)
           /\ ~Holds(w) /\ Holds(w)' => /\ w \notin Users("web")
                                        /\ Users("web")' = Users("web") \union {w}
           /\ Holds(w) /\ ~Holds(w)' => /\ w \in Users("web")
                                        /\ Users("web")' = Users("web") \ {w}
  BY DEF Users, Serving, Holds, LimiterOf, Limiters

\* What a terminal's step leaves to be shown: it touches clients only by
\* ending their connections.
LEMMA TermFrame ==
    ASSUME IInv, NEW w \in Web,
           UNCHANGED <<listening, pc, hung, cut, session, database, command>>,
           gone' \in {gone, gone \union {UsqlOf[w]}},
           failed \subseteq failed',
           failed' \subseteq Conns \union Web, failures' \in 0..MaxFailures,
           left' \subseteq Web, TermOK(w)',
           term' \in [Web -> TermPoints], usql' \in [Web -> {"none", "running", "dead"}],
           \A v \in Web \ {w} : term'[v] = term[v] /\ usql'[v] = usql[v],
           slots' \in [Limiters -> Nat] /\ \A l \in Limiters : slots'[l] <= Limit[l],
           SlotsInv'
    PROVE  IInv'
  <1> USE DEF IInv, session, database, command
  <1>1. UsqlOf[w] \in Conns
    BY UsqlType DEF Conns
  <1>2. TypeOK'
    BY <1>1 DEF TypeOK
  <1>3. (\A c \in Clients : ClientOK(c)') /\ (\A c \in MySQL : CmdOK(c)')
    BY DEF Places, ClientOK, CmdOK, Done
  <1>4. \A v \in Web : TermOK(v)'
    BY DEF Places, TermOK
  <1>5. AuditIsHonest'
    BY DEF Places, AuditIsHonest, AuditedUnlessCut, LinesAreTrue
  <1> QED BY <1>2, <1>3, <1>4, <1>5 DEF Places

LEMMA TermSteps ==
    ASSUME IInv, NEW w \in Web,
           \/ Preflight(w) \/ StartUSQL(w) \/ SendUSQLConnectCommand(w)
           \/ EndBridge(w) \/ BrowserLeaves(w) \/ USQLExits(w)
    PROVE  IInv'
  <1> USE DEF IInv, GotoTerm, Fails, conn, faults
  <1>1. /\ UNCHANGED <<listening, pc, hung, cut, session, database, command, slots>>
        /\ gone' \in {gone, gone \union {UsqlOf[w]}} /\ left' \subseteq Web
    BY DEF Preflight, StartUSQL, SendUSQLConnectCommand, EndBridge, BrowserLeaves,
           USQLExits, TypeOK
  <1>2. /\ failed \subseteq failed' /\ failed' \subseteq Conns \union Web
        /\ failures' \in 0..MaxFailures
    BY BoundsType DEF Preflight, StartUSQL, SendUSQLConnectCommand, EndBridge,
       BrowserLeaves, USQLExits, TypeOK
  <1>3. /\ term' \in [Web -> TermPoints]
        /\ usql' \in [Web -> {"none", "running", "dead"}]
        /\ \A v \in Web \ {w} : term'[v] = term[v] /\ usql'[v] = usql[v]
        /\ \A v \in Web : Holds(v)' <=> Holds(v)
    BY DEF Preflight, StartUSQL, SendUSQLConnectCommand, EndBridge, BrowserLeaves,
           USQLExits, TypeOK, TermPoints, Holds
  <1>4. TermOK(w)'
    BY DEF Preflight, StartUSQL, SendUSQLConnectCommand, EndBridge, BrowserLeaves,
           USQLExits, TypeOK, Places, TermOK
  <1>5. SlotsInv'
    BY <1>1, <1>3, SlotsFrame DEF Serving
  <1>6. slots' \in [Limiters -> Nat] /\ \A l \in Limiters : slots'[l] <= Limit[l]
    BY <1>1 DEF TypeOK
  <1> QED BY <1>1, <1>2, <1>3, <1>4, <1>5, <1>6, TermFrame

LEMMA AcquireStep ==
    ASSUME IInv, NEW w \in Web, AcquireTerm(w)
    PROVE  IInv'
  <1> USE DEF IInv, GotoTerm, faults
  <1>1. /\ \A v \in Web \ {w} : term'[v] = term[v]
        /\ term' \in [Web -> TermPoints] /\ term[w] = "slot" /\ UNCHANGED pc
    BY DEF AcquireTerm, TypeOK, TermPoints
  <1>2. /\ SlotsInv'
        /\ slots' \in [Limiters -> Nat] /\ \A l \in Limiters : slots'[l] <= Limit[l]
    <2>0. "web" \in Limiters
      BY DEF Limiters
    <2>1. CASE /\ SlotFree("web") /\ term'[w] = "start"
               /\ slots' = [slots EXCEPT !["web"] = @ + 1]
      <3>1. SlotsInv'
        BY <1>1, <2>0, <2>1, TermUsers, SlotTaken DEF Holds
      <3> QED BY <2>0, <2>1, <3>1, SlotBelowLimit
    <2>2. CASE term'[w] = "done" /\ UNCHANGED slots
      <3>1. \A v \in Web : Holds(v)' <=> Holds(v)
        BY <1>1, <2>2 DEF Holds
      <3> QED BY <1>1, <2>2, <3>1, SlotsFrame DEF TypeOK, Serving
    <2> QED BY <2>1, <2>2 DEF AcquireTerm, TypeOK
  <1>3. TermOK(w)'
    BY DEF AcquireTerm, TypeOK, Places, TermOK
  <1> QED BY <1>1, <1>2, <1>3, TermFrame DEF AcquireTerm, TypeOK

LEMMA LeaveTermStep ==
    ASSUME IInv, NEW w \in Web, LeaveTerm(w)
    PROVE  IInv'
  <1> USE DEF IInv, GotoTerm, faults
  <1>1. /\ \A v \in Web \ {w} : term'[v] = term[v] /\ usql'[v] = usql[v]
        /\ term' \in [Web -> TermPoints] /\ UNCHANGED pc
        /\ term[w] = "leave" /\ term'[w] = "done"
        /\ usql' \in [Web -> {"none", "running", "dead"}]
    BY DEF LeaveTerm, TypeOK, TermPoints
  <1>2. /\ SlotsInv'
        /\ slots' \in [Limiters -> Nat] /\ \A l \in Limiters : slots'[l] <= Limit[l]
    <2>0. "web" \in Limiters
      BY DEF Limiters
    <2>1. /\ w \in Users("web") /\ Users("web")' = Users("web") \ {w}
          /\ \A l \in Limiters \ {"web"} : Users(l)' = Users(l)
      BY <1>1, TermUsers DEF Holds
    <2>2. SlotsInv' /\ slots'["web"] \in 0..Limit["web"]
      BY <2>0, <2>1, SlotGivenBack DEF LeaveTerm
    <2> QED BY <2>0, <2>2, BoundsType DEF LeaveTerm, TypeOK
  <1>3. TermOK(w)'
    BY <1>1 DEF LeaveTerm, Kills, TypeOK, TermOK
  <1> QED BY <1>1, <1>2, <1>3, TermFrame DEF LeaveTerm, TypeOK

-----------------------------------------------------------------------------
(* The invariant *)

LEMMA InitInv == ASSUME Init PROVE IInv
  <1>1. TypeOK
    BY BoundsType DEF Init, TypeOK, Points, TermPoints, NoCmd, Cmds
  <1>2. ASSUME NEW l \in Limiters PROVE SlotsOK(l)
    <2>1. Users(l) = {}
      BY DEF Init, Users, Serving, Holds
    <2> QED BY <2>1, FS_EmptySet DEF Init, SlotsOK
  <1>3. Places
    BY KindsApart DEF Init, Places, ClientOK, CmdOK, Done, TermOK, Before, After,
       AuditIsHonest, AuditedUnlessCut, LinesAreTrue
  <1> QED BY <1>1, <1>2, <1>3 DEF IInv, SlotsInv

LEMMA NextInv == ASSUME IInv, Next PROVE IInv'
  <1>1. ASSUME NEW c \in Conns, Accept(c) \/ Release(c) \/ Leave(c) PROVE IInv'
    BY <1>1, AcceptStep, ReleaseStep, LeaveStep
  <1>2. ASSUME NEW c \in Clients,
               Step(c) \/ LastMessage(c) \/ ForceFinish(c) \/ TargetEnds(c)
        PROVE  IInv'
    BY <1>2, SetUpSteps, RelaySteps, DeferredSteps, OutsideSteps DEF Step
  <1>3. ASSUME NEW c \in MySQL,
               MySQLStep(c) \/ \E kind \in Kinds : Ask(c, kind)
        PROVE  IInv'
    BY <1>3, CommandSteps, AskStep DEF MySQLStep
  <1>4. ASSUME NEW c \in Cancel, CancelStep(c) PROVE IInv'
    BY <1>4, CancelSteps DEF CancelStep
  <1>5. ASSUME NEW w \in Web,
               Preflight(w) \/ TermStep(w) \/ BrowserLeaves(w) \/ USQLExits(w)
        PROVE  IInv'
    BY <1>5, TermSteps, AcquireStep, LeaveTermStep DEF TermStep
  <1> QED BY <1>1, <1>2, <1>3, <1>4, <1>5, StopStep DEF Next

LEMMA StutterInv == ASSUME IInv, UNCHANGED vars PROVE IInv'
  <1> USE DEF IInv, vars, conn, session, database, command, terminal, faults
  <1>1. TypeOK'
    BY DEF TypeOK
  <1>2. SlotsInv'
    BY SlotsFrame DEF Serving, Holds
  <1>3. Places'
    BY DEF Places, ClientOK, CmdOK, Done, TermOK, AuditIsHonest, AuditedUnlessCut,
           LinesAreTrue
  <1> QED BY <1>1, <1>2, <1>3

LEMMA Invariance == Spec => []IInv
  <1>1. IInv /\ [Next]_vars => IInv'
    BY NextInv, StutterInv
  <1> QED BY InitInv, <1>1, PTL DEF Spec

\* Every variable keeps its type; no more slots are ever taken than there are.
THEOREM TypeCorrect == Spec => []TypeOK
  <1>1. IInv => TypeOK
    BY DEF IInv
  <1> QED BY <1>1, Invariance, PTL

\* Every slot in use has a user, and who is done holds nothing: no connection to
\* a database, no watch, no registry entry, no process (mysql_server.go:50-57,
\* postgres_server.go:183-189, web_terminal.go:109-128).
THEOREM AllGivenBack == Spec => []NothingLeft
  <1>1. IInv => NothingLeft
    <2>1. ASSUME IInv PROVE SlotsBalanced
      <3>1. \A l \in Limiters : slots[l] = Cardinality(Users(l))
        BY <2>1 DEF IInv, SlotsInv, SlotsOK
      <3>2. ASSUME NEW l \in {"mysql", "postgres"}
            PROVE  Users(l) = {c \in Conns : Serving(c) /\ LimiterOf(c) = l}
        BY DEF Users
      <3>3. Users("web") = {w \in Web : Holds(w)}
        BY DEF Users
      <3> QED BY <3>1, <3>2, <3>3 DEF SlotsBalanced, Limiters
    <2>2. ASSUME IInv PROVE NothingHeld
      BY <2>2 DEF IInv, Places, ClientOK, TermOK, NothingHeld, Before, After
    <2> QED BY <2>1, <2>2 DEF NothingLeft
  <1> QED BY <1>1, Invariance, PTL

\* A handler that has returned leaves its session finished, unless a request of
\* its own failed (mysql_server.go:136-138).
THEOREM SessionsEnd == Spec => []FinishedUnlessFailed
  <1>1. IInv => FinishedUnlessFailed
    BY DEF IInv, Places, ClientOK, FinishedUnlessFailed
  <1> QED BY <1>1, Invariance, PTL

\* What a client that is logged in had executed has its line, but for cut contexts
\* and failed requests, and no line calls a success what was none, a blank query
\* excepted, which is answered and not executed (mysql_server.go:266-319).
THEOREM AuditHonest == Spec => []AuditIsHonest
  <1>1. IInv => AuditIsHonest
    BY DEF IInv, Places
  <1> QED BY <1>1, Invariance, PTL

-----------------------------------------------------------------------------
(* EndIsNoticed: who waits for the end of a session *)

\* Of one client and of one terminal.  What has begun to serve stays known to
\* its watch until the deferred calls.
WatchedOK(c) ==
    pc[c] \notin Before \union After =>
       \/ c \in watch
       \/ c \in cut /\ c \in hung /\ row[c] = "finished"
       \/ c \in cut /\ ~listening
UsqlOK(w) ==
    /\ usql[w] = "none" => pc[UsqlOf[w]] = "idle"
    /\ usql[w] = "dead" => UsqlOf[w] \in gone

NoticedInv == /\ \A c \in Clients : WatchedOK(c)
              /\ \A w \in Web : UsqlOK(w)

\* A client's watch, row, connection and context stay as they are, and its
\* handler does not begin to serve.
StaysWatched(e) ==
    /\ pc'[e] \in Before \union After \/ pc[e] \notin Before \union After
    /\ e \in watch => e \in watch'
    /\ e \in cut => e \in cut'
    /\ e \in hung => e \in hung'
    /\ row[e] = "finished" => row'[e] = "finished"
    /\ listening' => listening

LEMMA WatchKept ==
    ASSUME NEW e \in Clients, WatchedOK(e), StaysWatched(e)
    PROVE  WatchedOK(e)'
  BY DEF WatchedOK, StaysWatched

\* A terminal's usql and what it is to its handler stay as they are.
LEMMA UsqlKept ==
    ASSUME IInv, NEW w \in Web, UsqlOK(w), UNCHANGED usql, gone \subseteq gone',
           pc'[UsqlOf[w]] = pc[UsqlOf[w]] \/ pc[UsqlOf[w]] # "idle"
    PROVE  UsqlOK(w)'
  BY DEF UsqlOK

LEMMA ConnNoticed ==
    ASSUME IInv, NoticedInv, NEW c \in Conns, Accept(c) \/ Release(c) \/ Leave(c)
    PROVE  NoticedInv'
  <1> USE KindsApart DEF Goto, session, database, command, terminal, faults
  <1>1. /\ UNCHANGED <<usql, watch, cut, row, listening>>
        /\ gone \subseteq gone' /\ hung \subseteq hung'
        /\ \A e \in Conns \ {c} : pc'[e] = pc[e]
        /\ pc'[c] = pc[c] \/ pc'[c] \in {"lookup", "verify", "done"}
      BY DEF Accept, Release, Leave, IInv, TypeOK
  <1>2. pc'[c] = "lookup" => pc[c] = "lookup" \/ c \notin Clients
      BY DEF Accept, Release, Leave, IInv, TypeOK
  <1>3. ASSUME NEW e \in Clients PROVE WatchedOK(e)'
    <2>1. StaysWatched(e)
        BY <1>1, <1>2 DEF StaysWatched, Before, After
    <2> QED BY <2>1, WatchKept DEF NoticedInv
  <1>4. ASSUME NEW w \in Web PROVE UsqlOK(w)'
    <2>1. UsqlOf[w] \in Conns
        BY UsqlType DEF Conns
    <2>2. CASE Accept(c) /\ UsqlOf[w] = c
      <3>1. usql[w] = "running"
          BY <2>2 DEF Accept, Comes
      <3> QED BY <1>1, <3>1 DEF UsqlOK
    <2>3. CASE Accept(c) /\ UsqlOf[w] # c
        BY <1>1, <2>1, <2>3, UsqlKept DEF NoticedInv
    <2>4. CASE Release(c) \/ Leave(c)
      <3>1. pc'[UsqlOf[w]] = pc[UsqlOf[w]] \/ pc[UsqlOf[w]] # "idle"
          BY <1>1, <2>1, <2>4 DEF Release, Leave
      <3> QED BY <1>1, <3>1, UsqlKept DEF NoticedInv
    <2> QED BY <2>2, <2>3, <2>4
  <1> QED BY <1>3, <1>4 DEF NoticedInv

\* What a handler does on its own.
LEMMA HandlerNoticed ==
    ASSUME IInv, NoticedInv, NEW c \in Conns,
           \A e \in Conns \ {c} : pc'[e] = pc[e], pc[c] # "idle",
           c \in Clients => WatchedOK(c)',
           \A e \in Clients \ {c} :
              /\ e \in watch => e \in watch'
              /\ row'[e] = row[e],
           UNCHANGED <<usql, gone, cut, listening>>, hung \subseteq hung'
    PROVE  NoticedInv'
  <1>1. ASSUME NEW e \in Clients PROVE WatchedOK(e)'
    <2>1. CASE e = c
        BY <2>1
    <2>2. CASE e # c
      <3>1. StaysWatched(e)
          BY <2>2 DEF StaysWatched, Conns
      <3> QED BY <3>1, WatchKept DEF NoticedInv
    <2> QED BY <2>1, <2>2
  <1>2. ASSUME NEW w \in Web PROVE UsqlOK(w)'
    <2>1. UsqlOf[w] \in Conns
        BY UsqlType DEF Conns
    <2> QED BY <2>1, UsqlKept DEF NoticedInv
  <1> QED BY <1>1, <1>2 DEF NoticedInv

LEMMA ServingNoticed ==
    ASSUME IInv, NoticedInv, NEW c \in Clients,
           \/ VerifyConnectionToken(c) \/ CreateSession(c) \/ OpenTarget(c)
           \/ SendOK(c) \/ EndRelay(c) \/ LastMessage(c)
           \/ Unregister(c) \/ CloseTarget(c) \/ FinishSession(c)
    PROVE  NoticedInv'
  <1> USE KindsApart DEF Goto, Fails, FailsUnder, session, database, command,
          terminal, faults
  <1>1. pc[c] # "idle" /\ \A e \in Conns \ {c} : pc'[e] = pc[e]
      BY DEF VerifyConnectionToken, CreateSession, OpenTarget, SendOK, EndRelay,
         LastMessage, CloseRelay, Unregister, CloseTarget, FinishSession, IInv, TypeOK
  <1>2. UNCHANGED <<usql, gone, cut, listening>> /\ hung \subseteq hung'
      BY DEF VerifyConnectionToken, CreateSession, OpenTarget, SendOK, EndRelay,
         LastMessage, CloseRelay, Unregister, CloseTarget, FinishSession
  <1>3. ASSUME NEW e \in Clients \ {c}
        PROVE  (e \in watch => e \in watch') /\ row'[e] = row[e]
    <2>1. e \in watch => e \in watch'
        BY DEF VerifyConnectionToken, CreateSession, OpenTarget, SendOK, EndRelay,
           LastMessage, CloseRelay, Unregister, CloseTarget, FinishSession
    <2>2. row'[e] = row[e]
        BY DEF VerifyConnectionToken, CreateSession, OpenTarget, SendOK, EndRelay,
           LastMessage, CloseRelay, Unregister, CloseTarget, FinishSession, IInv, TypeOK
    <2> QED BY <2>1, <2>2
  <1>4. WatchedOK(c)'
    <2>1. CASE \/ VerifyConnectionToken(c) \/ CloseTarget(c) \/ FinishSession(c)
      <3>1. pc'[c] \in {"create", "finish", "release"}
          BY <2>1 DEF VerifyConnectionToken, CloseTarget, FinishSession, IInv, TypeOK
      <3> QED BY <3>1 DEF WatchedOK, Before, After
    <2>2. CASE CreateSession(c)
      <3>1. pc'[c] = "release" \/ c \in watch'
          BY <2>2 DEF CreateSession, IInv, TypeOK
      <3> QED BY <3>1 DEF WatchedOK, After
    <2>3. CASE OpenTarget(c)
      <3>1. pc'[c] = "finish" \/ UNCHANGED watch
          BY <2>3 DEF OpenTarget, AfterOpen, IInv, TypeOK
      <3>2. pc[c] = "open" /\ UNCHANGED row
          BY <2>3 DEF OpenTarget
      <3>3. CASE pc'[c] = "finish"
          BY <3>3 DEF WatchedOK, After
      <3>4. CASE UNCHANGED watch
        <4>1. StaysWatched(c)
            BY <1>2, <3>2, <3>4 DEF StaysWatched, Before, After
        <4> QED BY <4>1, WatchKept DEF NoticedInv
      <3> QED BY <3>1, <3>3, <3>4
    <2>4. CASE SendOK(c) \/ EndRelay(c) \/ LastMessage(c) \/ Unregister(c)
      <3>1. UNCHANGED <<watch, row>> /\ pc[c] \in {"ok", "serve", "unregister"}
          BY <2>4 DEF SendOK, EndRelay, LastMessage, CloseRelay, Unregister
      <3>2. StaysWatched(c)
          BY <1>2, <3>1 DEF StaysWatched, Before, After
      <3> QED BY <3>2, WatchKept DEF NoticedInv
    <2> QED BY <2>1, <2>2, <2>3, <2>4
  <1>5. c \in Conns
      OBVIOUS
  <1> HIDE DEF Goto, Fails, FailsUnder, session, database, command, terminal, faults
  <1> QED BY <1>1, <1>2, <1>3, <1>4, <1>5, HandlerNoticed

LEMMA CommandNoticed ==
    ASSUME IInv, NoticedInv, NEW c \in MySQL,
           MySQLStep(c) \/ \E kind \in Kinds : Ask(c, kind)
    PROVE  NoticedInv'
  <1>1. c \in Clients /\ c \in Conns
      BY KindsApart
  <1>2. /\ pc[c] \in {"use", "serve", "run", "reply", "audit"}
        /\ \A e \in Conns \ {c} : pc'[e] = pc[e]
        /\ UNCHANGED <<usql, gone, cut, hung, listening, watch, row>>
      BY <1>1 DEF MySQLStep, UseDatabase, Run, Reply, Audit, EndLoop, Ask, Goto, session, terminal,
         IInv, TypeOK
  <1>3. StaysWatched(c)
      BY <1>2 DEF StaysWatched, Before, After
  <1>4. WatchedOK(c)'
      BY <1>1, <1>3, WatchKept DEF NoticedInv
  <1> QED BY <1>1, <1>2, <1>4, HandlerNoticed

LEMMA CancelNoticed ==
    ASSUME IInv, NoticedInv, NEW c \in Cancel, CancelStep(c)
    PROVE  NoticedInv'
  <1>1. c \in Conns /\ c \notin Clients
      BY KindsApart
  <1>2. /\ pc[c] # "idle" /\ \A e \in Conns \ {c} : pc'[e] = pc[e]
        /\ UNCHANGED <<usql, gone, cut, hung, listening, watch, row>>
      BY <1>1 DEF CancelStep, Lookup, Forward, Goto, session, terminal, IInv, TypeOK
  <1> QED BY <1>1, <1>2, HandlerNoticed

\* The watch notices, an administrator finishes, a database breaks down.
LEMMA OutsideNoticed ==
    ASSUME IInv, NoticedInv, NEW c \in Clients, Poll(c) \/ ForceFinish(c) \/ TargetEnds(c)
    PROVE  NoticedInv'
  <1> USE DEF conn, session, terminal
  <1>1. /\ UNCHANGED <<pc, usql, gone, listening>>
        /\ cut \subseteq cut' /\ hung \subseteq hung' /\ watch \ {c} \subseteq watch'
        /\ \A e \in Clients : row[e] = "finished" => row'[e] = "finished"
        /\ \/ c \in watch => c \in watch'
           \/ c \in cut' /\ c \in hung' /\ row'[c] = "finished"
      BY DEF Poll, Notices, ForceFinish, TargetEnds, IInv, TypeOK
  <1>2. ASSUME NEW e \in Clients PROVE WatchedOK(e)'
    <2>1. CASE e = c /\ c \in cut' /\ c \in hung' /\ row'[c] = "finished"
        BY <2>1 DEF WatchedOK
    <2>2. CASE e # c \/ (c \in watch => c \in watch')
      <3>1. StaysWatched(e)
          BY <1>1, <2>2 DEF StaysWatched
      <3> QED BY <3>1, WatchKept DEF NoticedInv
    <2> QED BY <1>1, <2>1, <2>2
  <1>3. ASSUME NEW w \in Web PROVE UsqlOK(w)'
      BY <1>1, UsqlKept DEF NoticedInv
  <1> QED BY <1>2, <1>3 DEF NoticedInv

\* Server.Stop takes every watch away, but cuts every handler.
LEMMA StopNoticed == ASSUME IInv, NoticedInv, Stop PROVE NoticedInv'
  <1> USE KindsApart DEF Stop, terminal
  <1>1. ASSUME NEW e \in Clients PROVE WatchedOK(e)'
      BY DEF WatchedOK, Before, After
  <1>2. ASSUME NEW w \in Web PROVE UsqlOK(w)'
      BY UsqlKept DEF NoticedInv
  <1> QED BY <1>1, <1>2 DEF NoticedInv

LEMMA TerminalNoticed ==
    ASSUME IInv, NoticedInv, NEW w \in Web,
           Preflight(w) \/ TermStep(w) \/ BrowserLeaves(w) \/ USQLExits(w)
    PROVE  NoticedInv'
  <1> USE DEF conn, session, faults
  <1>1. /\ UNCHANGED <<pc, cut, hung, listening, watch, row>> /\ gone \subseteq gone'
        /\ \A v \in Web \ {w} : usql'[v] = usql[v]
      BY DEF Preflight, TermStep, AcquireTerm, StartUSQL, SendUSQLConnectCommand,
         EndBridge, LeaveTerm, BrowserLeaves, USQLExits, IInv, TypeOK
  <1>2. \/ usql'[w] = usql[w] \/ usql'[w] = "running"
        \/ usql'[w] = "dead" /\ UsqlOf[w] \in gone'
      BY DEF Preflight, TermStep, AcquireTerm, StartUSQL, SendUSQLConnectCommand,
         EndBridge, LeaveTerm, BrowserLeaves, USQLExits, IInv, TypeOK
  <1>3. ASSUME NEW e \in Clients PROVE WatchedOK(e)'
    <2>1. StaysWatched(e)
        BY <1>1 DEF StaysWatched
    <2> QED BY <2>1, WatchKept DEF NoticedInv
  <1>4. ASSUME NEW v \in Web PROVE UsqlOK(v)'
      BY <1>1, <1>2 DEF NoticedInv, UsqlOK
  <1> QED BY <1>3, <1>4 DEF NoticedInv

\* EndIsNoticed, on which EndsReachTarget rests: as long as a handler serves,
\* somebody waits for the end of its session, and whatever usql a terminal has
\* started has the terminal behind it or has ended (mysql_server.go:139-140,
\* web_terminal.go:128, 147-167, 198-228).
THEOREM EndNoticed == Spec => []EndIsNoticed
  <1>1. Init => NoticedInv
      BY UsqlType DEF Init, NoticedInv, WatchedOK, UsqlOK, Before, Conns
  <1>2. ASSUME IInv, NoticedInv PROVE EndIsNoticed
    <2>1. ASSUME NEW w \in Web, Serving(UsqlOf[w])
          PROVE  (usql[w] = "running" /\ Holds(w)) \/ UsqlOf[w] \in gone
        BY <1>2, <2>1 DEF NoticedInv, UsqlOK, Serving, Holds, IInv, TypeOK, TermPoints,
           Places, TermOK
    <2> QED BY <1>2, <2>1 DEF NoticedInv, WatchedOK, EndIsNoticed, Before, After
  <1>3. ASSUME IInv, NoticedInv, [Next]_vars PROVE NoticedInv'
    <2>1. CASE UNCHANGED vars
        BY <1>3, <2>1 DEF vars, conn, session, terminal, NoticedInv, WatchedOK, UsqlOK
    <2>2. ASSUME NEW c \in Conns, Accept(c) \/ Release(c) \/ Leave(c) PROVE NoticedInv'
        BY <1>3, <2>2, ConnNoticed
    <2>3. ASSUME NEW c \in Clients,
                 Step(c) \/ LastMessage(c) \/ ForceFinish(c) \/ TargetEnds(c)
          PROVE  NoticedInv'
        BY <1>3, <2>3, ServingNoticed, OutsideNoticed DEF Step
    <2>4. ASSUME NEW c \in MySQL,
                 MySQLStep(c) \/ \E kind \in Kinds : Ask(c, kind)
          PROVE  NoticedInv'
        BY <1>3, <2>4, CommandNoticed
    <2>5. ASSUME NEW c \in Cancel, CancelStep(c) PROVE NoticedInv'
        BY <1>3, <2>5, CancelNoticed
    <2>6. ASSUME NEW w \in Web,
                 Preflight(w) \/ TermStep(w) \/ BrowserLeaves(w) \/ USQLExits(w)
          PROVE  NoticedInv'
        BY <1>3, <2>6, TerminalNoticed
    <2> QED BY <1>3, <2>1, <2>2, <2>3, <2>4, <2>5, <2>6, StopNoticed DEF Next
  <1> QED BY <1>1, <1>2, <1>3, Invariance, PTL DEF Spec
=============================================================================
