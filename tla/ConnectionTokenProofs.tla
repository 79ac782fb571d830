------------------------ MODULE ConnectionTokenProofs ------------------------
(***************************************************************************)
(* Proofs about ConnectionToken and about the instance of AssetGrants      *)
(* beside it, for any users, assets, accounts, tokens, permissions,        *)
(* workers and bounds.                                                     *)
(***************************************************************************)
EXTENDS ConnectionGrants, TLAPS

\* What a worker holds at each point of a request.
WorkerOK ==
    \A w \in Workers :
        /\ pc[w] \in IssuePoints => req[w] \in IssueRequests
        /\ pc[w] \in ReadPoints \union {"load"} => req[w] \in VerifyRequests
        /\ pc[w] \in ReadPoints =>
              /\ tok[w] \in Rows
              /\ minted[req[w].token] # "never"
              /\ tok[w].reusable <=> minted[req[w].token] = "many"
        /\ pc[w] = "consume" => MustConsume(w)

\* How a row and the history of its token fit together.
LedgerOK(t) ==
    /\ minted[t] = "never" => rows[t] = NoRow /\ grants[t] = 0
    /\ grants[t] <= 1
    /\ rows[t] # NoRow =>
          /\ rows[t].reusable <=> minted[t] = "many"
          /\ rows[t].usedAt # Unused <=> grants[t] > 0
          /\ rows[t].usedAt < rows[t].expiresAt
          /\ rows[t].reusable => rows[t].usedAt = Unused

Ledger == \A t \in Tokens : LedgerOK(t)

IInv == TypeOK /\ WorkerOK /\ Ledger

LEMMA InitIInv == Init => IInv
  <1> SUFFICES ASSUME Init PROVE IInv
      OBVIOUS
  <1>1. TypeOK
      BY DEF Init, TypeOK, Points
  <1>2. WorkerOK
      BY DEF Init, WorkerOK, IssuePoints, ReadPoints
  <1>3. Ledger
      BY DEF Init, Ledger, LedgerOK
  <1> QED BY <1>1, <1>2, <1>3 DEF IInv

\* An early return keeps the invariant whatever the point it leaves from.
LEMMA FailIInv ==
    ASSUME IInv, NEW w \in Workers, Fail(w)
    PROVE  IInv'
  <1> USE DEF IInv, Fail, Goto, env
  <1>1. TypeOK'
      BY DEF TypeOK, Points
  <1>2. WorkerOK'
      BY DEF TypeOK, WorkerOK, IssuePoints, ReadPoints, MustConsume
  <1>3. Ledger'
      BY DEF Ledger, LedgerOK
  <1> QED BY <1>1, <1>2, <1>3

\* A statement that only reads moves its worker, within the points of the
\* same kind of request.
LEMMA StepIInv ==
    ASSUME IInv, NEW w \in Workers, NEW from, NEW to,
           NEW STATE allowed,
           Step(w, from, to, allowed),
           \/ from \in IssuePoints /\ to \in IssuePoints
           \/ from \in ReadPoints /\ to \in ReadPoints \ {"consume"}
    PROVE  IInv'
  <1>1. CASE Fail(w)
      BY <1>1, FailIInv
  <1>2. CASE /\ pc[w] = from
             /\ Goto(w, to)
             /\ UNCHANGED <<env, rows, req, tok, history>>
    <2> USE <1>2 DEF IInv, Goto, env, history
    <2>1. TypeOK'
        BY DEF TypeOK, Points
    <2>2. WorkerOK'
        BY DEF TypeOK, WorkerOK, IssuePoints, ReadPoints, MustConsume
    <2>3. Ledger'
        BY DEF Ledger, LedgerOK
    <2> QED BY <2>1, <2>2, <2>3
  <1> QED BY <1>1, <1>2 DEF Step

LEMMA StartIssueIInv ==
    ASSUME IInv, NEW w \in Workers, NEW u \in Users, NEW s \in Assets,
           NEW a \in Accounts, NEW p \in Spellings, NEW r \in BOOLEAN,
           StartIssue(w, u, s, a, p, r)
    PROVE  IInv'
  <1> USE DEF IInv, StartIssue, Goto, env
  <1>1. canonicalConnectionProtocol(p) \in Protocols
      BY DEF Protocols, canonicalConnectionProtocol
  <1>2. TypeOK'
      BY <1>1 DEF TypeOK, Points, IssuePoints, IssueRequests
  <1>3. WorkerOK'
      BY <1>1 DEF TypeOK, WorkerOK, IssuePoints, ReadPoints, IssueRequests,
                  MustConsume
  <1>4. Ledger'
      BY DEF Ledger, LedgerOK
  <1> QED BY <1>2, <1>3, <1>4

LEMMA CreateIInv ==
    ASSUME IInv, NEW w \in Workers, CreateConnectionToken(w)
    PROVE  IInv'
  <1>1. CASE Fail(w)
      BY <1>1, FailIInv
  <1>2. ASSUME NEW t \in Tokens,
               NewValue(t),
               rows' = [rows EXCEPT ![t] =
                          [user |-> req[w].user, account |-> req[w].account,
                           protocol |-> req[w].protocol,
                           reusable |-> req[w].reusable,
                           expiresAt |-> now + TTL, usedAt |-> Unused]],
               minted' = [minted EXCEPT
                            ![t] = IF req[w].reusable THEN "many" ELSE "once"],
               pc[w] = "insert",
               Goto(w, "idle"),
               req' = [req EXCEPT ![w] = NoRow],
               UNCHANGED <<env, tok, grants, held>>
        PROVE  IInv'
    <2> USE <1>2 DEF IInv, Goto, env
    <2>1. req[w] \in IssueRequests
        BY DEF WorkerOK, IssuePoints
    <2>2. /\ rows'[t] \in Rows
          /\ rows'[t].reusable = req[w].reusable
          /\ rows'[t].usedAt = Unused
          /\ rows'[t].expiresAt = now + TTL
          /\ \A x \in Tokens \ {t} : rows'[x] = rows[x]
        BY <2>1, BoundsType DEF TypeOK, IssueRequests, Rows, Unused
    <2>3. TypeOK'
        BY <2>1, <2>2 DEF TypeOK, Points, IssueRequests
    <2>4. WorkerOK'
        BY <2>1 DEF TypeOK, WorkerOK, IssuePoints, ReadPoints, MustConsume,
                    NewValue, VerifyRequests
    <2>5. Ledger'
        BY <2>1, <2>2, BoundsType
           DEF TypeOK, Ledger, LedgerOK, NewValue, IssueRequests, Unused
    <2> QED BY <2>3, <2>4, <2>5
  <1> QED BY <1>1, <1>2 DEF CreateConnectionToken

LEMMA StartVerifyIInv ==
    ASSUME IInv, NEW w \in Workers, NEW t \in Tokens, NEW p \in Spellings,
           NEW consume \in BOOLEAN, NEW trusted \in BOOLEAN,
           StartVerify(w, t, p, consume, trusted)
    PROVE  IInv'
  <1>1. CASE Fail(w)
      BY <1>1, FailIInv
  <1>2. CASE ~Fail(w)
    <2> USE <1>2 DEF IInv, StartVerify, Goto, env
    <2>1. canonicalExpectedProtocol(p) \in Expectations
        BY DEF Expectations, Protocols, canonicalExpectedProtocol,
               canonicalConnectionProtocol
    <2>2. TypeOK'
        BY <2>1 DEF TypeOK, Points, VerifyRequests, Conditions
    <2>3. WorkerOK'
        BY <2>1 DEF TypeOK, WorkerOK, IssuePoints, ReadPoints, VerifyRequests,
                    MustConsume
    <2>4. Ledger'
        BY DEF Ledger, LedgerOK
    <2> QED BY <2>2, <2>3, <2>4
  <1> QED BY <1>1, <1>2

LEMMA LoadIInv ==
    ASSUME IInv, NEW w \in Workers, LoadToken(w)
    PROVE  IInv'
  <1>1. CASE Fail(w)
      BY <1>1, FailIInv
  <1>2. CASE ~Fail(w)
    <2> DEFINE t == req[w].token
    <2> USE <1>2 DEF IInv, LoadToken, Goto, env
    <2>1. req[w] \in VerifyRequests /\ t \in Tokens
        BY DEF WorkerOK, VerifyRequests
    <2>2. rows[t] \in Rows /\ rows[t] # NoRow
        BY <2>1 DEF TypeOK, Presentable
    <2>3. TypeOK'
        BY ZenonT(60), <2>2 DEF TypeOK, Points, ReadPoints, Holding
    <2>4. WorkerOK'
        BY <2>1, <2>2 DEF TypeOK, WorkerOK, IssuePoints, ReadPoints,
                          MustConsume, Ledger, LedgerOK
    <2>5. Ledger'
        BY DEF Ledger, LedgerOK
    <2> QED BY <2>3, <2>4, <2>5
  <1> QED BY <1>1, <1>2

LEMMA ResolveIInv ==
    ASSUME IInv, NEW w \in Workers, ResolveTarget(w)
    PROVE  IInv'
  <1>1. CASE Fail(w)
      BY <1>1, FailIInv
  <1>2. CASE /\ pc[w] = "target"
             /\ MustConsume(w)
             /\ Goto(w, "consume")
             /\ UNCHANGED <<env, rows, req, tok, history>>
    <2> USE <1>2 DEF IInv, Goto, env, history
    <2>1. TypeOK'
        BY DEF TypeOK, Points, ReadPoints
    <2>2. WorkerOK'
        BY DEF TypeOK, WorkerOK, IssuePoints, ReadPoints, MustConsume
    <2>3. Ledger'
        BY DEF Ledger, LedgerOK
    <2> QED BY <2>1, <2>2, <2>3
  <1>3. CASE pc[w] = "target" /\ ~MustConsume(w) /\ Answer(w) /\ UNCHANGED rows
    <2> USE <1>3 DEF IInv, Answer, Goto, env
    <2>1. /\ req[w] \in VerifyRequests
          /\ req[w].consume => minted[req[w].token] = "many"
        BY DEF WorkerOK, ReadPoints, MustConsume
    <2>2. UNCHANGED grants
        BY <2>1 DEF TypeOK, VerifyRequests
    <2>3. TypeOK'
        BY <2>2 DEF TypeOK, Points
    <2>4. WorkerOK'
        BY DEF TypeOK, WorkerOK, IssuePoints, ReadPoints, MustConsume
    <2>5. Ledger'
        BY <2>2 DEF Ledger, LedgerOK
    <2> QED BY <2>3, <2>4, <2>5
  <1> QED BY <1>1, <1>2, <1>3 DEF ResolveTarget

\* The only step that serves a one-time token, and the only one that spends it.
LEMMA ConsumeIInv ==
    ASSUME IInv, NEW w \in Workers, ConsumeConnectionToken(w)
    PROVE  IInv'
  <1>1. CASE Fail(w)
      BY <1>1, FailIInv
  <1>2. CASE ~Fail(w)
    <2> DEFINE t == req[w].token
    <2> USE <1>2 DEF IInv, ConsumeConnectionToken, Consumable
    <2>1. /\ req[w] \in VerifyRequests /\ t \in Tokens
          /\ req[w].consume
          /\ Answer(w)
        BY DEF WorkerOK, ReadPoints, VerifyRequests, MustConsume
    <2>2. /\ rows[t] \in Rows /\ rows[t] # NoRow
          /\ rows' = [rows EXCEPT ![t].usedAt = now]
          /\ rows[t].usedAt = Unused /\ ~rows[t].reusable
          /\ now < rows[t].expiresAt /\ now \in Nat
        BY <2>1 DEF TypeOK, Rows
    <2>3. /\ rows'[t] \in Rows
          /\ rows'[t].usedAt = now
          /\ rows'[t].reusable = rows[t].reusable
          /\ rows'[t].expiresAt = rows[t].expiresAt
          /\ \A x \in Tokens \ {t} : rows'[x] = rows[x]
        BY <2>1, <2>2 DEF TypeOK, Rows
    <2>4. grants[t] = 0 /\ minted[t] = "once"
        BY <2>1, <2>2 DEF TypeOK, Ledger, LedgerOK
    <2>5. grants' = [grants EXCEPT ![t] = 1]
        BY <2>1, <2>4 DEF Answer, TypeOK
    <2>6. TypeOK'
        BY <2>1, <2>3, <2>5 DEF Answer, Goto, env, TypeOK, Points
    <2>7. WorkerOK'
        BY <2>1 DEF Answer, Goto, env, TypeOK, WorkerOK, IssuePoints,
                    ReadPoints, MustConsume
    <2>8. Ledger'
        BY <2>1, <2>2, <2>3, <2>4, <2>5
           DEF Answer, TypeOK, Ledger, LedgerOK, Unused
    <2> QED BY <2>6, <2>7, <2>8
  <1> QED BY <1>1, <1>2

LEMMA AdminIInv ==
    ASSUME IInv, Admin
    PROVE  IInv'
  <1>1. ASSUME AdminStep, TypeOK,
               status' \in [Entities -> {"active", "inactive", "gone"}],
               connect' \subseteq Users \X Accounts,
               rows' \in [Tokens -> Rows \union {NoRow}],
               \A t \in Tokens : rows'[t] \in {rows[t], NoRow}
        PROVE  IInv'
    <2> USE <1>1 DEF IInv, AdminStep, local
    <2> \A w \in Workers : Holding(tok[w], req[w])' \subseteq Conditions
        BY DEF Holding
    <2>1. TypeOK'
        BY BoundsType DEF TypeOK, Observe
    <2>2. WorkerOK'
        BY DEF WorkerOK, MustConsume
    <2>3. Ledger'
        BY DEF Ledger, LedgerOK
    <2> QED BY <2>1, <2>2, <2>3
  <1>2. ASSUME NEW e \in Entities, NEW s \in {"active", "inactive"},
               SetActive(e, s)
        PROVE  IInv'
      BY <1>1, <1>2 DEF IInv, TypeOK, SetActive
  <1>3. ASSUME NEW e \in Entities, Delete(e)
        PROVE  IInv'
      BY <1>1, <1>3 DEF IInv, TypeOK, Delete
  <1>4. ASSUME NEW u \in Users, NEW a \in Accounts, ChangePermission(u, a)
        PROVE  IInv'
      BY <1>1, <1>4 DEF IInv, TypeOK, ChangePermission
  <1> QED BY <1>2, <1>3, <1>4 DEF Admin

LEMMA NextIInv == IInv /\ [Next]_vars => IInv'
  <1> SUFFICES ASSUME IInv, [Next]_vars PROVE IInv'
      OBVIOUS
  <1>1. ASSUME NEW w \in Workers, Issue(w)
        PROVE  IInv'
    <2>1. CASE IssueReadAsset(w)
        BY <2>1, StepIInv DEF IssueReadAsset, IssuePoints
    <2>2. CASE IssueReadAccount(w)
        BY <2>2, StepIInv DEF IssueReadAccount, IssuePoints
    <2>3. CASE IssueReadPermission(w)
        BY <2>3, StepIInv DEF IssueReadPermission, IssuePoints
    <2> QED BY <1>1, <2>1, <2>2, <2>3, StartIssueIInv, CreateIInv DEF Issue
  <1>2. ASSUME NEW w \in Workers, Verify(w)
        PROVE  IInv'
    <2>1. CASE VerifyReadUser(w)
        BY <2>1, StepIInv DEF VerifyReadUser, ReadPoints
    <2>2. CASE VerifyReadAsset(w)
        BY <2>2, StepIInv DEF VerifyReadAsset, ReadPoints
    <2>3. CASE VerifyReadAccount(w)
        BY <2>3, StepIInv DEF VerifyReadAccount, ReadPoints
    <2>4. CASE VerifyReadPermission(w)
        BY <2>4, StepIInv DEF VerifyReadPermission, ReadPoints
    <2> QED BY <1>2, <2>1, <2>2, <2>3, <2>4, StartVerifyIInv, LoadIInv,
               ResolveIInv, ConsumeIInv DEF Verify
  <1>3. CASE Admin
      BY <1>3, AdminIInv
  <1>4. CASE Tick
    <2> USE <1>4 DEF IInv, Tick, local, history
    <2>1. TypeOK'
        BY DEF TypeOK
    <2>2. WorkerOK'
        BY DEF WorkerOK, MustConsume
    <2>3. Ledger'
        BY DEF Ledger, LedgerOK
    <2> QED BY <2>1, <2>2, <2>3
  <1>5. CASE UNCHANGED vars
    <2> USE <1>5 DEF IInv, vars, env, local, history
    <2>1. TypeOK'
        BY DEF TypeOK
    <2>2. WorkerOK'
        BY DEF WorkerOK, MustConsume
    <2>3. Ledger'
        BY DEF Ledger, LedgerOK
    <2> QED BY <2>1, <2>2, <2>3
  <1> QED BY <1>1, <1>2, <1>3, <1>4, <1>5 DEF Next

THEOREM Invariance == Spec => []IInv
  BY InitIInv, NextIInv, PTL DEF Spec

\* The type invariant (TypeOK): every row, request and snapshot stays of its
\* type along every interleaving.
THEOREM TypeCorrect == Spec => []TypeOK
  BY Invariance, PTL DEF IInv

\* A one-time token pays for at most one connection (AtMostOneGrant), for any
\* number of API workers racing for it.
THEOREM SingleGrant == Spec => []AtMostOneGrant
  <1>1. IInv => AtMostOneGrant
      BY DEF IInv, Ledger, LedgerOK, AtMostOneGrant
  <1> QED BY <1>1, Invariance, PTL

\* used_at is set exactly when the token paid for a connection (SpentIffServed):
\* failed and preview verifications spend nothing.
THEOREM SpentExactlyWhenServed == Spec => []SpentIffServed
  <1>1. IInv => SpentIffServed
      BY DEF IInv, Ledger, LedgerOK, SpentIffServed
  <1> QED BY <1>1, Invariance, PTL

-----------------------------------------------------------------------------
(* No grant to a request one of whose conditions was false throughout *)

\* The conditions a verification has passed when it reaches a point, and those
\* that hold now, have held at some moment of the request.
HeldAt(w) ==
    /\ pc[w] = "load" => "proxy" \in held[w]
    /\ pc[w] \in ReadPoints =>
          /\ {"proxy", "unexpired", "protocol"} \subseteq held[w]
          /\ Holding(tok[w], req[w]) \subseteq held[w]
    /\ pc[w] \in ReadPoints \ {"user"} => "user" \in held[w]
    /\ pc[w] \in ReadPoints \ {"user", "asset"} => "asset" \in held[w]
    /\ pc[w] \in {"permission", "target", "consume"} => "account" \in held[w]
    /\ pc[w] \in {"target", "consume"} => "permission" \in held[w]
    /\ pc[w] = "granted" => held[w] = Conditions

HeldOK == \A w \in Workers : HeldAt(w)

\* A worker is not disturbed by a step of another one.
LEMMA HeldFrame ==
    ASSUME NEW x \in Workers, HeldAt(x), UNCHANGED env,
           pc'[x] = pc[x], tok'[x] = tok[x], req'[x] = req[x],
           held'[x] = held[x]
    PROVE  HeldAt(x)'
  BY DEF HeldAt, env, Holding

LEMMA FailHeld ==
    ASSUME TypeOK, HeldOK, NEW w \in Workers, Fail(w)
    PROVE  HeldOK'
  BY ZenonT(60) DEF TypeOK, HeldOK, HeldAt, Fail, Goto, env, Holding, ReadPoints

LEMMA IssueHeld ==
    ASSUME TypeOK, HeldOK, NEW w \in Workers, Issue(w)
    PROVE  HeldOK'
  <1>1. CASE Fail(w)
      BY <1>1, FailHeld
  <1>2. CASE ~Fail(w)
    <2>1. /\ pc' = [pc EXCEPT ![w] = pc'[w]]
          /\ pc'[w] \in IssuePoints \union {"idle"}
          /\ \A x \in Workers \ {w} :
                tok'[x] = tok[x] /\ req'[x] = req[x] /\ held'[x] = held[x]
          /\ UNCHANGED env
        BY <1>2 DEF Issue, StartIssue, IssueReadAsset, IssueReadAccount,
                    IssueReadPermission, CreateConnectionToken, Step, Goto,
                    TypeOK, IssuePoints, history
    <2>2. pc' \in [Workers -> Points \union IssuePoints \union {"idle"}]
        BY <2>1 DEF TypeOK
    <2>3. \A x \in Workers \ {w} : pc'[x] = pc[x]
        BY <2>1 DEF TypeOK
    <2> QED BY ZenonT(60), <2>1, <2>2, <2>3
               DEF TypeOK, HeldOK, HeldAt, env, Holding, ReadPoints,
                   IssuePoints
  <1> QED BY <1>1, <1>2

\* A read that found its condition true: it is among those that hold now.
LEMMA ReadHeld ==
    ASSUME TypeOK, HeldOK, NEW w \in Workers,
           \/ VerifyReadUser(w)
           \/ VerifyReadAsset(w)
           \/ VerifyReadAccount(w)
           \/ VerifyReadPermission(w)
    PROVE  HeldOK'
  <1>1. CASE Fail(w)
      BY <1>1, FailHeld
  <1>2. CASE ~Fail(w)
    <2>1. UNCHANGED <<env, rows, req, tok, history>>
        BY <1>2 DEF VerifyReadUser, VerifyReadAsset, VerifyReadAccount,
                    VerifyReadPermission, Step
    <2>2. \A x \in Workers : Holding(tok[x], req[x])' = Holding(tok[x], req[x])
        BY <2>1 DEF Holding, env
    <2>3. \A x \in Workers \ {w} : pc'[x] = pc[x]
        BY <1>2 DEF VerifyReadUser, VerifyReadAsset, VerifyReadAccount,
                    VerifyReadPermission, Step, Goto, TypeOK
    <2>4. /\ pc[w] \in ReadPoints
          /\ \/ /\ pc[w] = "user" /\ pc'[w] = "asset"
                /\ status[tok[w].user] = "active"
             \/ /\ pc[w] = "asset" /\ pc'[w] = "account"
                /\ status[AssetOf[tok[w].account]] = "active"
             \/ /\ pc[w] = "account" /\ pc'[w] = "permission"
                /\ status[tok[w].account] = "active"
             \/ /\ pc[w] = "permission" /\ pc'[w] = "target"
                /\ <<tok[w].user, tok[w].account>> \in connect
        BY <1>2 DEF VerifyReadUser, VerifyReadAsset, VerifyReadAccount,
                    VerifyReadPermission, Step, Goto, TypeOK, ReadPoints
    <2>5. /\ pc[w] = "user" => "user" \in Holding(tok[w], req[w])
          /\ pc[w] = "asset" => "asset" \in Holding(tok[w], req[w])
          /\ pc[w] = "account" => "account" \in Holding(tok[w], req[w])
          /\ pc[w] = "permission" => "permission" \in Holding(tok[w], req[w])
        BY <2>4 DEF Holding, Conditions
    <2> QED BY <2>1, <2>2, <2>3, <2>4, <2>5
            DEF HeldOK, HeldAt, ReadPoints, history
  <1> QED BY <1>1, <1>2

LEMMA VerifyHeld ==
    ASSUME TypeOK, WorkerOK, HeldOK, NEW w \in Workers, Verify(w)
    PROVE  HeldOK'
  <1>1. CASE Fail(w)
      BY <1>1, FailHeld
  <1>2. ASSUME NEW t \in Tokens, NEW p \in Spellings, NEW consume \in BOOLEAN,
               NEW trusted \in BOOLEAN,
               StartVerify(w, t, p, consume, trusted), ~Fail(w)
        PROVE  HeldOK'
    <2>1. /\ pc' = [pc EXCEPT ![w] = "load"]
          /\ "proxy" \in held'[w]
          /\ \A x \in Workers \ {w} : req'[x] = req[x] /\ held'[x] = held[x]
          /\ UNCHANGED <<env, tok>>
        BY <1>2 DEF TypeOK, StartVerify, Goto
    <2>2. HeldAt(w)'
        BY <2>1 DEF TypeOK, HeldAt, ReadPoints
    <2> QED BY <2>1, <2>2, HeldFrame DEF TypeOK, HeldOK
  <1>3. CASE LoadToken(w) /\ ~Fail(w)
    <2> DEFINE stored == rows[req[w].token]
    <2>1. /\ now <= stored.expiresAt
          /\ req[w].expected \in {"", stored.protocol}
          /\ pc[w] = "load"
          /\ pc' = [pc EXCEPT ![w] = "user"]
          /\ tok' = [tok EXCEPT ![w] = stored]
          /\ held' = [held EXCEPT ![w] = @ \union Holding(stored, req[w])]
          /\ UNCHANGED <<env, rows, req>>
      <3>1. /\ Presentable(stored, req[w])
            /\ pc[w] = "load"
            /\ pc' = [pc EXCEPT ![w] = "user"]
            /\ tok' = [tok EXCEPT ![w] = stored]
            /\ held' = [held EXCEPT ![w] = @ \union Holding(stored, req[w])]
            /\ UNCHANGED <<env, rows, req>>
          BY <1>3 DEF LoadToken, Goto
      <3>2. /\ now <= stored.expiresAt
            /\ req[w].expected = "" \/ stored.protocol = req[w].expected
          BY <3>1 DEF Presentable
      <3> QED BY <3>1, <3>2
    <2>2. {"unexpired", "protocol"} \subseteq Holding(stored, req[w])
        BY <2>1 DEF Holding, Conditions
    <2>3. Holding(tok[w], req[w])' = Holding(stored, req[w])
        BY <2>1 DEF TypeOK, env, Holding
    <2>4. /\ pc'[w] = "user"
          /\ held'[w] = held[w] \union Holding(stored, req[w])
          /\ "proxy" \in held[w]
        BY <2>1 DEF TypeOK, HeldOK, HeldAt
    <2>5. HeldAt(w)'
        BY <2>2, <2>3, <2>4 DEF HeldAt, ReadPoints
    <2> QED BY <2>1, <2>5, HeldFrame DEF TypeOK, HeldOK
  <1>4. CASE (ResolveTarget(w) \/ ConsumeConnectionToken(w)) /\ ~Fail(w)
    <2>1. Holding(tok[w], req[w]) \subseteq held[w] /\ held[w] = Conditions
        BY <1>4
           DEF TypeOK, HeldOK, HeldAt, ResolveTarget, ConsumeConnectionToken,
                    ReadPoints, Conditions
    <2>2. /\ pc' = [pc EXCEPT ![w] = pc'[w]]
          /\ \/ pc'[w] = "granted"
             \/ pc'[w] = "consume" /\ UNCHANGED <<req, tok>>
          /\ \A x \in Workers \ {w} : tok'[x] = tok[x] /\ req'[x] = req[x]
          /\ UNCHANGED <<env, held>>
        BY <1>4 DEF ResolveTarget, ConsumeConnectionToken, Answer, Goto,
                    TypeOK, history
    <2>3. /\ pc'[w] = "granted" => HeldAt(w)'
          /\ pc'[w] = "consume" => HeldAt(w)'
        BY <2>1, <2>2 DEF HeldAt, ReadPoints, env, Holding, Conditions
    <2> QED BY <2>2, <2>3, HeldFrame DEF TypeOK, HeldOK
  <1> QED BY <1>1, <1>2, <1>3, <1>4, ReadHeld DEF Verify

LEMMA NextHeld == IInv /\ HeldOK /\ [Next]_vars => HeldOK'
  <1> SUFFICES ASSUME TypeOK, WorkerOK, HeldOK, [Next]_vars PROVE HeldOK'
      BY DEF IInv
  <1>1. ASSUME NEW w \in Workers, Issue(w) \/ Verify(w)
        PROVE  HeldOK'
      BY <1>1, IssueHeld, VerifyHeld
  <1>2. CASE Admin
    <2>1. AdminStep
        BY <1>2 DEF Admin, SetActive, Delete, ChangePermission
    <2> QED BY <2>1
            DEF AdminStep, Observe, local, HeldOK, HeldAt, TypeOK, ReadPoints
  <1>3. CASE Tick
    <2>1. \A w \in Workers : pc[w] \in ReadPoints =>
             Holding(tok[w], req[w])' \subseteq Holding(tok[w], req[w])
      <3> SUFFICES ASSUME NEW w \in Workers, pc[w] \in ReadPoints
                   PROVE  Holding(tok[w], req[w])' \subseteq
                             Holding(tok[w], req[w])
          OBVIOUS
      <3>1. tok[w].expiresAt \in Nat /\ now \in Nat
          BY DEF WorkerOK, Rows, TypeOK
      <3>2. /\ now' = now + 1
            /\ UNCHANGED <<status, connect, tok, req>>
          BY <1>3 DEF Tick, local
      <3>3. now' <= tok[w].expiresAt => now <= tok[w].expiresAt
          BY <3>1, <3>2
      <3> QED BY <3>2, <3>3 DEF Holding
    <2> QED BY <1>3, <2>1 DEF Tick, HeldOK, HeldAt, local, history
  <1>4. CASE UNCHANGED vars
      BY <1>4 DEF vars, env, local, history, HeldOK, HeldAt, Holding
  <1> QED BY <1>1, <1>2, <1>3, <1>4 DEF Next

\* NoGrantWhileDenied: a verification is never answered with a secret if the
\* user, the asset, the account or the permission was denied for the whole of
\* it, whatever the other workers and the administrators do meanwhile.
THEOREM DenialIsFinal == Spec => []NoGrantWhileDenied
  <1>1. Init => HeldOK
      BY DEF Init, HeldOK, HeldAt, ReadPoints
  <1>2. HeldOK => NoGrantWhileDenied
      BY DEF HeldOK, HeldAt, NoGrantWhileDenied
  <1> QED BY <1>1, <1>2, NextHeld, Invariance, PTL DEF Spec

-----------------------------------------------------------------------------
(* The code implements the promise *)

LEMMA TokenStateFrame ==
    ASSUME NEW t \in Tokens, minted'[t] = minted[t], rows'[t] = rows[t]
    PROVE  TokenState(t)' = TokenState(t)
  BY DEF TokenState

\* A step that leaves the rows and the history alone is not seen.
LEMMA Stutter ==
    ASSUME UNCHANGED <<rows, minted, grants>>
    PROVE  UNCHANGED Promise!vars
  <1>1. \A t \in Tokens : TokenState(t)' = TokenState(t)
      BY TokenStateFrame
  <1> QED BY <1>1 DEF Promise!vars

\* ImplementsPromise: inserting a row is minting, the conditional UPDATE is
\* the redemption, a cascading delete withdraws; everything else stutters.
THEOREM Implementation == Spec => ImplementsPromise
  <1>1. Init => Promise!Init
    <2> SUFFICES ASSUME Init PROVE Promise!Init
        OBVIOUS
    <2>1. \A t \in Tokens : TokenState(t) = "unminted"
        BY DEF Init, TokenState
    <2> QED BY <2>1 DEF Init, Promise!Init
  <1>2. IInv /\ [Next]_vars => [Promise!Next]_Promise!vars
    <2> SUFFICES ASSUME IInv, [Next]_vars,
                        ~ UNCHANGED <<rows, minted, grants>>
                 PROVE  Promise!Next
        BY Stutter
    <2>1. CASE \E w \in Workers : CreateConnectionToken(w)
      <3>1. PICK w \in Workers : CreateConnectionToken(w)
          BY <2>1
      <3>2. PICK t \in Tokens :
               /\ NewValue(t)
               /\ rows' = [rows EXCEPT ![t] =
                     [user |-> req[w].user, account |-> req[w].account,
                      protocol |-> req[w].protocol,
                      reusable |-> req[w].reusable,
                      expiresAt |-> now + TTL, usedAt |-> Unused]]
               /\ minted' = [minted EXCEPT
                               ![t] = IF req[w].reusable THEN "many" ELSE "once"]
               /\ UNCHANGED grants
          BY <3>1 DEF CreateConnectionToken, Fail
      <3> DEFINE kind == IF req[w].reusable THEN "many" ELSE "open"
      <3>4. TokenState(t) = "unminted"
          BY <3>2 DEF NewValue, TokenState
      <3>5. /\ rows'[t].usedAt = Unused
            /\ minted'[t] = IF req[w].reusable THEN "many" ELSE "once"
          BY <3>2 DEF IInv, TypeOK
      <3>6. rows'[t] # NoRow
        <4>1. req[w] \in IssueRequests
            BY <3>1 DEF IInv, WorkerOK, IssuePoints, CreateConnectionToken
        <4>2. rows'[t] \in Rows
            BY <3>2, <4>1, BoundsType DEF IInv, TypeOK, IssueRequests, Rows
        <4> QED BY <4>2, NoRowType
      <3>7. TokenState(t)' = kind
          BY <3>5, <3>6 DEF TokenState
      <3>8. \A x \in Tokens \ {t} : TokenState(x)' = TokenState(x)
          BY <3>2, TokenStateFrame DEF IInv, TypeOK
      <3>9. Promise!Mint(t, kind)
          BY <3>2, <3>4, <3>7, <3>8 DEF Promise!Mint
      <3> QED BY <3>9 DEF Promise!Next
    <2>2. CASE \E w \in Workers : ConsumeConnectionToken(w)
      <3>1. PICK w \in Workers : ConsumeConnectionToken(w)
          BY <2>2
      <3>2. PICK t \in Tokens :
               /\ t = req[w].token
               /\ Consumable(rows[t])
               /\ rows' = [rows EXCEPT ![t].usedAt = now]
               /\ Answer(w)
               /\ MustConsume(w) /\ minted[t] # "never"
          BY <3>1 DEF IInv, WorkerOK, ReadPoints, VerifyRequests, Fail,
                      ConsumeConnectionToken
      <3>3. rows[t] \in Rows /\ now \in Nat
          BY <3>2 DEF IInv, TypeOK, Consumable
      <3>4. minted[t] = "once" /\ UNCHANGED minted
          BY <3>2 DEF IInv, TypeOK, Ledger, LedgerOK, Consumable, Answer
      <3>5. grants' = [grants EXCEPT ![t] = @ + 1]
          BY <3>2, <3>4 DEF Answer, MustConsume
      <3>6. rows'[t].usedAt = now /\ \A x \in Tokens \ {t} : rows'[x] = rows[x]
          BY <3>2, <3>3 DEF IInv, TypeOK, Rows
      <3>7. rows'[t] # NoRow
        <4>1. rows'[t] \in Rows
            BY <3>2, <3>3 DEF IInv, TypeOK, Rows
        <4> QED BY <4>1, NoRowType
      <3>8. TokenState(t) = "open"
          BY <3>2, <3>4 DEF TokenState, Consumable
      <3>9. TokenState(t)' = "spent"
          BY <3>3, <3>4, <3>6, <3>7 DEF TokenState, Unused
      <3>10. \A x \in Tokens \ {t} : TokenState(x)' = TokenState(x)
          BY <3>4, <3>6, TokenStateFrame
      <3>11. Promise!Redeem(t)
          BY <3>2, <3>5, <3>8, <3>9, <3>10 DEF Promise!Redeem
      <3> QED BY <3>2, <3>11 DEF Promise!Next
    <2>3. CASE \E e \in Entities : Delete(e)
      <3>1. PICK e \in Entities : Delete(e)
          BY <2>3
      <3> DEFINE S == {t \in Tokens : rows[t] # NoRow /\ rows'[t] = NoRow}
      <3>2. /\ UNCHANGED <<minted, grants>>
            /\ \A t \in Tokens : rows'[t] \in {rows[t], NoRow}
          BY <3>1 DEF Delete, AdminStep
      <3>3. \A t \in S : /\ minted[t] # "never"
                         /\ TokenState(t) # "unminted"
                         /\ TokenState(t)' = "withdrawn"
          BY <3>2 DEF IInv, TypeOK, Ledger, LedgerOK, TokenState
      <3>4. \A t \in Tokens \ S : TokenState(t)' = TokenState(t)
          BY <3>2, TokenStateFrame
      <3>5. Promise!Withdraw(S)
          BY <3>2, <3>3, <3>4 DEF Promise!Withdraw
      <3> QED BY <3>5 DEF Promise!Next
    <2>4. CASE \E w \in Workers : ResolveTarget(w)
      <3>1. PICK w \in Workers : ResolveTarget(w)
          BY <2>4
      <3>2. Answer(w) /\ ~MustConsume(w) /\ UNCHANGED <<rows, minted>>
          BY <3>1 DEF ResolveTarget, Fail, history, Answer
      <3>3. /\ req[w] \in VerifyRequests
            /\ req[w].consume => minted[req[w].token] = "many"
          BY <3>1, <3>2
             DEF ResolveTarget, IInv, WorkerOK, ReadPoints, MustConsume
      <3>4. UNCHANGED grants
          BY <3>2, <3>3 DEF Answer, IInv, TypeOK, VerifyRequests
      <3> QED BY <3>2, <3>4
    <2> QED BY ZenonT(60), <2>1, <2>2, <2>3, <2>4
            DEF Next, Issue, Verify, Admin, Tick, StartIssue, IssueReadAsset,
                IssueReadAccount, IssueReadPermission, StartVerify, LoadToken,
                VerifyReadUser, VerifyReadAsset, VerifyReadAccount,
                VerifyReadPermission, Step, Fail, SetActive, ChangePermission,
                AdminStep, history, vars
  <1> QED BY <1>1, <1>2, Invariance, PTL
          DEF Spec, Promise!Spec, ImplementsPromise

-----------------------------------------------------------------------------
(* AssetGrants: what permissions are linked with *)

\* What a worker holds fits the update it is doing.
UpdateOK(w) ==
    /\ doing[w] = "asset" =>
          /\ request[w].id \in Assets
          /\ request[w].node \in Nodes \union {NoRow}
    /\ doing[w] = "account" =>
          /\ request[w].id \in NamedAccounts
          /\ request[w].active \in Tables!Given
          /\ row[w] \in Tables!AccountRows /\ row[w].secret <= secrets
    /\ doing[w] = "permission" =>
          /\ request[w].id \in Permissions /\ request[w].in \in PermissionInputs
          /\ row[w].active \in BOOLEAN

RuleTyped(r) == r.active \in BOOLEAN /\ r.from \in Int /\ r.until \in Int
RulesTyped ==
    /\ DOMAIN rule = Permissions
    /\ \A p \in Permissions : rule[p] # NoRow => RuleTyped(rule[p])

RowsTyped ==
    /\ assets \in [Assets -> Tables!AssetRows \union {NoRow}]
    /\ accounts \in [NamedAccounts -> Tables!AccountRows \union {NoRow}]
    /\ RulesTyped
    /\ links \in [Permissions -> Tables!Links]
    /\ asked \in [Permissions -> Tables!Links]
    /\ users \subseteq Users
    /\ created \subseteq Assets \union NamedAccounts \union Permissions
    /\ today \in 0..LastDay
    /\ secrets \in Nat \ {0}

WorkersTyped ==
    /\ doing \in [Workers -> {"idle", "asset", "account", "permission"}]
    /\ DOMAIN request = Workers /\ DOMAIN row = Workers
    /\ requests \in 0..MaxEdits
    /\ \A w \in Workers : UpdateOK(w)

\* No id is given twice: what lives or is asked for was created; no secret is
\* newer than the latest.
IdsGiven ==
    /\ Tables!LivingAssets \union Tables!LivingAccounts \subseteq created
    /\ \A p \in Permissions :
          asked[p].assets \union asked[p].accounts \subseteq created
    /\ \A c \in NamedAccounts : accounts[c] # NoRow => accounts[c].secret <= secrets

\* LinkedAsAsked, field by field.
Linked(p) ==
    rule[p] # NoRow =>
       /\ links[p].users = asked[p].users \intersect users
       /\ links[p].groups = asked[p].groups
       /\ links[p].assets = asked[p].assets \intersect Tables!LivingAssets
       /\ links[p].nodes = asked[p].nodes
       /\ links[p].accounts = asked[p].accounts \intersect Tables!LivingAccounts

GrantsInv == /\ RowsTyped /\ WorkersTyped /\ IdsGiven
             /\ \A p \in Permissions : Linked(p)

\* What a step may not do, whichever it is: nothing that was deleted returns.
NothingReturns ==
    /\ users' \subseteq users
    /\ today' \in {today, today + 1}
    /\ Tables!LivingAssets' \intersect created \subseteq Tables!LivingAssets
    /\ Tables!LivingAccounts' \intersect created \subseteq Tables!LivingAccounts

\* ... and only an update changes the row of an account.
AccountsKept ==
    \A c \in NamedAccounts :
       accounts[c] # NoRow /\ accounts'[c] # NoRow => accounts'[c] = accounts[c]


-----------------------------------------------------------------------------
(* The parts a step of AssetGrants is made of *)

LEMMA ChosenBoolean ==
    ASSUME NEW given, NEW kept \in BOOLEAN
    PROVE  Tables!Chosen(given, kept) \in BOOLEAN
  <1>1. CASE given = "absent"
    BY <1>1, Zenon DEF Tables!Chosen
  <1>2. CASE given # "absent"
    BY <1>2, Zenon DEF Tables!Chosen
  <1> QED BY <1>1, <1>2

LEMMA RevisionTyped ==
    ASSUME NEW in \in PermissionInputs, NEW active \in BOOLEAN
    PROVE  RuleTyped(Tables!Revision(in, active))
  <1> DEFINE actions == Tables!NormalizeActions(in.actions)
             new == [active |-> active, actions |-> actions,
                     from |-> in.from, until |-> in.until]
  <1> HIDE DEF actions
  <1>1. new.active = active /\ new.from = in.from /\ new.until = in.until
    OBVIOUS
  <1>2. Tables!Revision(in, active) = new
    BY DEF Tables!Revision, actions
  <1>3. in.from \in Int /\ in.until \in Int
    BY InputsType
  <1> HIDE DEF new
  <1> QED BY <1>1, <1>2, <1>3, Zenon DEF RuleTyped

\* Deleting what is linked takes the links with it, and nothing else.
LEMMA UnlinkTyped ==
    ASSUME links \in [Permissions -> Tables!Links], NEW Us, NEW Ss, NEW Cs,
           Tables!Unlink(Us, Ss, Cs)
    PROVE  /\ links' \in [Permissions -> Tables!Links]
           /\ \A p \in Permissions :
                 /\ links'[p].users = links[p].users \ Us
                 /\ links'[p].assets = links[p].assets \ Ss
                 /\ links'[p].accounts = links[p].accounts \ Cs
                 /\ links'[p].groups = links[p].groups
                 /\ links'[p].nodes = links[p].nodes
  BY DEF Tables!Unlink, Tables!Links

\* An edit that is accepted links all it asks for, and asks for what lives.
LEMMA WriteTyped ==
    ASSUME RowsTyped, NEW p \in Permissions,
           NEW in \in PermissionInputs, NEW revision, RuleTyped(revision),
           Tables!WritePermission(p, in, revision)
    PROVE  /\ RulesTyped'
           /\ links' \in [Permissions -> Tables!Links]
           /\ asked' \in [Permissions -> Tables!Links]
           /\ \A q \in Permissions : q # p =>
                 rule'[q] = rule[q] /\ links'[q] = links[q] /\ asked'[q] = asked[q]
           /\ \/ /\ links'[p] = asked'[p]
                 /\ asked'[p].users \subseteq users
                 /\ asked'[p].assets \subseteq Tables!LivingAssets
                 /\ asked'[p].accounts \subseteq Tables!LivingAccounts
              \/ UNCHANGED <<rule, links, asked>>
  <1>1. Tables!permissionLinks(in) \in Tables!Links
    BY InputsType
  <1>2. CASE Tables!ReferencesHold(in)
    <2> DEFINE new == Tables!permissionLinks(in)
    <2>1. /\ rule' = [rule EXCEPT ![p] = revision]
          /\ links' = [links EXCEPT ![p] = new]
          /\ asked' = [asked EXCEPT ![p] = new]
      BY <1>2 DEF Tables!WritePermission
    <2>2. /\ new.users \subseteq users /\ new.assets \subseteq Tables!LivingAssets
          /\ new.accounts \subseteq Tables!LivingAccounts
      BY <1>2 DEF Tables!ReferencesHold, Tables!permissionLinks
    <2>3. new \in Tables!Links
      BY <1>1
    <2> HIDE DEF new
    <2> QED BY <2>1, <2>2, <2>3 DEF RowsTyped, RulesTyped
  <1>3. CASE ~Tables!ReferencesHold(in)
    BY <1>3 DEF Tables!WritePermission, RowsTyped, RulesTyped
  <1> QED BY <1>2, <1>3

\* A worker that goes on with its update is as it was.
SecretsGrow == secrets \in Nat /\ secrets' \in Nat /\ secrets <= secrets'

LEMMA SecretsStay ==
    ASSUME RowsTyped, UNCHANGED secrets
    PROVE  SecretsGrow
  BY DEF RowsTyped, SecretsGrow

LEMMA UpdateFrame ==
    ASSUME SecretsGrow, NEW v \in Workers, UpdateOK(v),
           doing'[v] = doing[v], request'[v] = request[v], row'[v] = row[v]
    PROVE  UpdateOK(v)'
  BY DEF UpdateOK, SecretsGrow, Tables!AccountRows

\* An update that reads ...
LEMMA ReadTyped ==
    ASSUME WorkersTyped, SecretsGrow, NEW w \in Workers, NEW in, NEW r,
           NEW what \in {"asset", "account", "permission"},
           Tables!Read(w, what, in, r),
           what = "asset" => in.id \in Assets /\ in.node \in Nodes \union {NoRow},
           what = "account" =>
              /\ in.id \in NamedAccounts /\ in.active \in Tables!Given
              /\ r \in Tables!AccountRows /\ r.secret <= secrets,
           what = "permission" =>
              /\ in.id \in Permissions /\ in.in \in PermissionInputs
              /\ r.active \in BOOLEAN
    PROVE  WorkersTyped'
  <1>1. /\ doing' = [doing EXCEPT ![w] = what]
        /\ request' = [request EXCEPT ![w] = in]
        /\ row' = [row EXCEPT ![w] = r]
    BY DEF Tables!Read
  <1>2. /\ doing' \in [Workers -> {"idle", "asset", "account", "permission"}]
        /\ DOMAIN request' = Workers /\ DOMAIN row' = Workers
    BY <1>1 DEF WorkersTyped
  <1>3. requests' \in 0..MaxEdits
    BY EditsType DEF WorkersTyped, Tables!Read, Tables!Ask
  <1>4. ASSUME NEW v \in Workers PROVE UpdateOK(v)'
    <2>1. CASE v # w
      <3>1. doing'[v] = doing[v] /\ request'[v] = request[v] /\ row'[v] = row[v]
        BY <1>1, <2>1 DEF WorkersTyped
      <3> QED BY <3>1, UpdateFrame DEF WorkersTyped
    <2>2. CASE v = w
      <3>1. doing'[v] = what /\ request'[v] = in /\ row'[v] = r
        BY <1>1, <2>2 DEF WorkersTyped
      <3> QED BY <3>1 DEF UpdateOK, Tables!Read
    <2> QED BY <2>1, <2>2
  <1> QED BY <1>2, <1>3, <1>4 DEF WorkersTyped

\* ... and one that returns.
LEMMA ReturnTyped ==
    ASSUME WorkersTyped, SecretsGrow, NEW w \in Workers, Tables!Return(w)
    PROVE  /\ WorkersTyped' /\ doing'[w] = "idle"
           /\ created' = created /\ today' = today /\ users' = users
  <1>1. /\ doing' = [doing EXCEPT ![w] = "idle"]
        /\ request' = [request EXCEPT ![w] = NoRow]
        /\ row' = [row EXCEPT ![w] = NoRow]
    BY DEF Tables!Return
  <1>2. ASSUME NEW v \in Workers PROVE UpdateOK(v)'
    <2>1. CASE v # w
      <3>1. doing'[v] = doing[v] /\ request'[v] = request[v] /\ row'[v] = row[v]
        BY <1>1, <2>1 DEF WorkersTyped
      <3> QED BY <3>1, UpdateFrame DEF WorkersTyped
    <2>2. CASE v = w
      <3>1. doing'[v] = "idle"
        BY <1>1, <2>2 DEF WorkersTyped
      <3> QED BY <3>1 DEF UpdateOK
    <2> QED BY <2>1, <2>2
  <1> QED BY <1>1, <1>2 DEF WorkersTyped, Tables!Return

\* A request of one statement leaves the workers alone.
LEMMA AskTyped ==
    ASSUME WorkersTyped, SecretsGrow, Tables!Ask, UNCHANGED Tables!local
    PROVE  WorkersTyped'
  <1>1. doing' = doing /\ request' = request /\ row' = row
    BY DEF Tables!local
  <1>2. requests' \in 0..MaxEdits
    BY EditsType DEF WorkersTyped, Tables!Ask
  <1>3. ASSUME NEW v \in Workers PROVE UpdateOK(v)'
    BY <1>1, UpdateFrame DEF WorkersTyped
  <1> QED BY <1>1, <1>2, <1>3 DEF WorkersTyped

LEMMA AtOnceTyped ==
    ASSUME WorkersTyped, SecretsGrow, Tables!AtOnce
    PROVE  WorkersTyped' /\ today' = today /\ users' = users
  BY AskTyped DEF Tables!AtOnce, Tables!Quiet

\* Nothing is written.
LEMMA RowsKept ==
    ASSUME RowsTyped, IdsGiven, \A p \in Permissions : Linked(p),
           UNCHANGED <<assets, accounts, rule, links, users, created, secrets,
                       asked>>,
           today' \in 0..LastDay, today' \in {today, today + 1}
    PROVE  /\ RowsTyped' /\ IdsGiven' /\ \A p \in Permissions : Linked(p)'
           /\ NothingReturns /\ AccountsKept
  <1>1. RowsTyped'
    BY DEF RowsTyped, RulesTyped
  <1>2. /\ Tables!LivingAssets' = Tables!LivingAssets
        /\ Tables!LivingAccounts' = Tables!LivingAccounts
    BY DEF Tables!LivingAssets, Tables!LivingAccounts
  <1>3. IdsGiven'
    BY <1>2 DEF IdsGiven
  <1>4. ASSUME NEW p \in Permissions PROVE Linked(p)'
    BY <1>2 DEF Linked
  <1> QED BY <1>1, <1>2, <1>3, <1>4 DEF NothingReturns, AccountsKept

\* What is deleted takes its links with it.
LEMMA LinkedKept ==
    ASSUME NEW p \in Permissions, Linked(p),
           rule'[p] = rule[p], asked'[p] = asked[p],
           NEW Us, NEW Ss, NEW Cs,
           users' = users \ Us,
           asked[p].assets \intersect Tables!LivingAssets'
              = asked[p].assets \intersect (Tables!LivingAssets \ Ss),
           asked[p].accounts \intersect Tables!LivingAccounts'
              = asked[p].accounts \intersect (Tables!LivingAccounts \ Cs),
           links'[p].users = links[p].users \ Us,
           links'[p].assets = links[p].assets \ Ss,
           links'[p].accounts = links[p].accounts \ Cs,
           links'[p].groups = links[p].groups,
           links'[p].nodes = links[p].nodes
    PROVE  Linked(p)'
  BY Zenon DEF Linked

-----------------------------------------------------------------------------
(* One lemma for each action of AssetGrants *)

StepKeeps == GrantsInv' /\ NothingReturns

LEMMA GrantsStutter ==
    ASSUME GrantsInv, UNCHANGED Tables!vars
    PROVE  StepKeeps /\ AccountsKept
  <1>1. /\ UNCHANGED <<assets, accounts, rule, links, users, created, secrets,
                       asked>>
        /\ UNCHANGED <<doing, request, row, requests, today>>
    BY DEF Tables!vars, Tables!tables, Tables!local
  <1>2. today' \in 0..LastDay /\ today' \in {today, today + 1}
    BY <1>1 DEF GrantsInv, RowsTyped
  <1>3. WorkersTyped'
    BY <1>1 DEF GrantsInv, WorkersTyped, UpdateOK
  <1> QED BY <1>1, <1>2, <1>3, RowsKept DEF GrantsInv, StepKeeps

LEMMA TickKeeps ==
    ASSUME GrantsInv, Tables!Tick
    PROVE  StepKeeps /\ AccountsKept
  <1>1. /\ UNCHANGED <<assets, accounts, rule, links, users, created, secrets,
                       asked>>
        /\ UNCHANGED <<doing, request, row, requests>>
    BY DEF Tables!Tick, Tables!tables, Tables!local
  <1>2. today' \in 0..LastDay /\ today' \in {today, today + 1}
    BY EditsType DEF GrantsInv, RowsTyped, Tables!Tick
  <1>3. WorkersTyped'
    BY <1>1 DEF GrantsInv, WorkersTyped, UpdateOK
  <1> QED BY <1>1, <1>2, <1>3, RowsKept DEF GrantsInv, StepKeeps

LEMMA ReadKeeps ==
    ASSUME GrantsInv, NEW w \in Workers, NEW what, NEW in, NEW r,
           Tables!Read(w, what, in, r), WorkersTyped'
    PROVE  StepKeeps /\ AccountsKept
  <1>1. UNCHANGED <<assets, accounts, rule, links, users, created, secrets,
                    asked, today>>
    BY DEF Tables!Read, Tables!tables
  <1>2. today' \in 0..LastDay /\ today' \in {today, today + 1}
    BY <1>1 DEF GrantsInv, RowsTyped
  <1> QED BY <1>1, <1>2, RowsKept DEF GrantsInv, StepKeeps

LEMMA StartUpdateAssetKeeps ==
    ASSUME GrantsInv, NEW w \in Workers, NEW s \in Assets,
           NEW in \in AssetInputs, Tables!StartUpdateAsset(w, s, in)
    PROVE  StepKeeps /\ AccountsKept
  <1> DEFINE ask == [id |-> s, node |-> in.node, active |-> in.active]
  <1>1. Tables!Read(w, "asset", ask, assets[s])
    BY DEF Tables!StartUpdateAsset
  <1>2. ask.id \in Assets /\ ask.node \in Nodes \union {NoRow}
    BY AssetInputsType
  <1> HIDE DEF ask
  <1>3. WorkersTyped'
    BY <1>1, <1>2, ReadTyped, SecretsStay DEF GrantsInv, Tables!Read
  <1> QED BY <1>1, <1>3, ReadKeeps

LEMMA StartUpdateAccountKeeps ==
    ASSUME GrantsInv, NEW w \in Workers, NEW c \in NamedAccounts,
           NEW given \in Tables!Given, NEW rotates \in BOOLEAN,
           Tables!StartUpdateAccount(w, c, given, rotates)
    PROVE  StepKeeps /\ AccountsKept
  <1> DEFINE ask == [id |-> c, active |-> given, rotates |-> rotates]
  <1>1. Tables!Read(w, "account", ask, accounts[c])
    BY DEF Tables!StartUpdateAccount
  <1>2. ask.id \in NamedAccounts /\ ask.active \in Tables!Given
    OBVIOUS
  <1>3. accounts[c] \in Tables!AccountRows /\ accounts[c].secret <= secrets
    BY <1>1 DEF GrantsInv, RowsTyped, IdsGiven, Tables!Read
  <1> HIDE DEF ask
  <1>4. WorkersTyped'
    BY <1>1, <1>2, <1>3, ReadTyped, SecretsStay DEF GrantsInv, Tables!Read
  <1> QED BY <1>1, <1>4, ReadKeeps

LEMMA StartUpdatePermissionKeeps ==
    ASSUME GrantsInv, NEW w \in Workers, NEW p \in Permissions,
           NEW in \in PermissionInputs, Tables!StartUpdatePermission(w, p, in)
    PROVE  StepKeeps /\ AccountsKept
  <1> DEFINE ask == [id |-> p, in |-> in]
  <1>1. Tables!Read(w, "permission", ask, rule[p])
    BY DEF Tables!StartUpdatePermission
  <1>2. ask.id \in Permissions /\ ask.in \in PermissionInputs
    OBVIOUS
  <1>3. rule[p].active \in BOOLEAN
    BY <1>1 DEF GrantsInv, RowsTyped, RulesTyped, RuleTyped, Tables!Read
  <1> HIDE DEF ask
  <1>4. WorkersTyped'
    BY <1>1, <1>2, <1>3, ReadTyped, SecretsStay DEF GrantsInv, Tables!Read
  <1> QED BY <1>1, <1>4, ReadKeeps

LEMMA FailKeeps ==
    ASSUME GrantsInv, NEW w \in Workers, Tables!Fail(w)
    PROVE  StepKeeps /\ AccountsKept
  <1>1. WorkersTyped' /\ today' = today
    BY ReturnTyped, SecretsStay DEF GrantsInv, Tables!Fail
  <1>2. UNCHANGED <<assets, accounts, rule, links, users, created, secrets,
                    asked>>
    BY ReturnTyped, SecretsStay DEF GrantsInv, Tables!Fail, Tables!tables
  <1>3. today' \in 0..LastDay /\ today' \in {today, today + 1}
    BY <1>1 DEF GrantsInv, RowsTyped
  <1> QED BY <1>1, <1>2, <1>3, RowsKept DEF GrantsInv, StepKeeps

\* The rows the code writes are rows.
LEMMA AssetRowTyped ==
    ASSUME NEW n \in Nodes \union {NoRow}, NEW active \in BOOLEAN
    PROVE  /\ [node |-> n, active |-> active] \in Tables!AssetRows
           /\ [node |-> n, active |-> active] # NoRow
  BY RowsType DEF Tables!AssetRows

LEMMA AccountRowTyped ==
    ASSUME NEW secret \in Nat, NEW active \in BOOLEAN
    PROVE  /\ [secret |-> secret, active |-> active] \in Tables!AccountRows
           /\ [secret |-> secret, active |-> active] # NoRow
  BY RowsType DEF Tables!AccountRows

LEMMA CreateAssetKeeps ==
    ASSUME GrantsInv, NEW s \in Assets, NEW in \in AssetInputs,
           Tables!CreateAsset(s, in)
    PROVE  StepKeeps /\ AccountsKept
  <1> DEFINE new == [node |-> in.node, active |-> Tables!Chosen(in.active, TRUE)]
  <1>1. new \in Tables!AssetRows /\ new # NoRow
    BY AssetInputsType, ChosenBoolean, AssetRowTyped
  <1>2. assets' = [assets EXCEPT ![s] = new]
    BY DEF Tables!CreateAsset
  <1> HIDE DEF new
  <1>3. /\ WorkersTyped' /\ today' = today /\ users' = users
        /\ created' = created \union {s} /\ s \notin created
        /\ UNCHANGED <<accounts, rule, links, secrets, asked>>
    BY AtOnceTyped, SecretsStay DEF Tables!CreateAsset, GrantsInv
  <1>4. RowsTyped'
    BY <1>1, <1>2, <1>3 DEF GrantsInv, RowsTyped, RulesTyped
  <1>5. /\ Tables!LivingAssets' = Tables!LivingAssets \union {s}
        /\ Tables!LivingAccounts' = Tables!LivingAccounts
    BY <1>1, <1>2, <1>3
       DEF GrantsInv, RowsTyped, Tables!LivingAssets, Tables!LivingAccounts
  <1>6. IdsGiven'
    BY <1>3, <1>5 DEF GrantsInv, IdsGiven
  <1>7. ASSUME NEW p \in Permissions PROVE Linked(p)'
    <2>1. s \notin asked[p].assets
      BY <1>3 DEF GrantsInv, IdsGiven
    <2> QED BY <2>1, <1>3, <1>5 DEF GrantsInv, Linked
  <1> QED BY <1>3, <1>4, <1>5, <1>6, <1>7
          DEF GrantsInv, StepKeeps, NothingReturns, AccountsKept

LEMMA UpdateAssetKeeps ==
    ASSUME GrantsInv, NEW w \in Workers, Tables!UpdateAsset(w)
    PROVE  StepKeeps /\ AccountsKept
  <1> DEFINE s == request[w].id
             new == [node |-> request[w].node,
                     active |-> request[w].active = "on"]
  <1>1. s \in Assets /\ request[w].node \in Nodes \union {NoRow}
    BY DEF GrantsInv, WorkersTyped, UpdateOK, Tables!UpdateAsset
  <1>2. new \in Tables!AssetRows /\ new # NoRow
    BY <1>1, AssetRowTyped
  <1>3. assets' = [assets EXCEPT ![s] = IF @ = NoRow THEN NoRow ELSE new]
    BY DEF Tables!UpdateAsset
  <1> HIDE DEF new, s
  <1>4. /\ WorkersTyped' /\ today' = today /\ users' = users
        /\ created' = created
        /\ UNCHANGED <<accounts, rule, links, secrets, asked>>
    BY ReturnTyped, SecretsStay DEF Tables!UpdateAsset, GrantsInv
  <1>5. RowsTyped'
    BY <1>1, <1>2, <1>3, <1>4 DEF GrantsInv, RowsTyped, RulesTyped
  <1>6. /\ Tables!LivingAssets' = Tables!LivingAssets
        /\ Tables!LivingAccounts' = Tables!LivingAccounts
    BY <1>1, <1>2, <1>3, <1>4
       DEF GrantsInv, RowsTyped, Tables!LivingAssets, Tables!LivingAccounts
  <1>7. IdsGiven'
    BY <1>4, <1>6 DEF GrantsInv, IdsGiven
  <1>8. ASSUME NEW p \in Permissions PROVE Linked(p)'
    BY <1>4, <1>6 DEF GrantsInv, Linked
  <1> QED BY <1>4, <1>5, <1>6, <1>7, <1>8
          DEF GrantsInv, StepKeeps, NothingReturns, AccountsKept

LEMMA DeleteAssetKeeps ==
    ASSUME GrantsInv, NEW s \in Assets, Tables!DeleteAsset(s)
    PROVE  StepKeeps /\ AccountsKept
  <1> DEFINE Gone == {c \in NamedAccounts : AccountAsset[c] = s}
  <1>1. /\ assets' = [assets EXCEPT ![s] = NoRow]
        /\ accounts' = [c \in NamedAccounts |->
                           IF c \in Gone THEN NoRow ELSE accounts[c]]
        /\ Tables!Unlink({}, {s}, Gone)
    BY DEF Tables!DeleteAsset
  <1>2. Gone \subseteq NamedAccounts
    OBVIOUS
  <1> HIDE DEF Gone
  <1>3. /\ WorkersTyped' /\ today' = today /\ users' = users
        /\ UNCHANGED <<rule, created, secrets, asked>>
    BY AtOnceTyped, SecretsStay DEF Tables!DeleteAsset, GrantsInv
  <1>4. /\ links' \in [Permissions -> Tables!Links]
        /\ \A p \in Permissions :
              /\ links'[p].users = links[p].users \ {}
              /\ links'[p].assets = links[p].assets \ {s}
              /\ links'[p].accounts = links[p].accounts \ Gone
              /\ links'[p].groups = links[p].groups
              /\ links'[p].nodes = links[p].nodes
    BY <1>1, UnlinkTyped DEF GrantsInv, RowsTyped
  <1>5. RowsTyped'
    BY <1>1, <1>3, <1>4 DEF GrantsInv, RowsTyped, RulesTyped
  <1>6. Tables!LivingAssets' = Tables!LivingAssets \ {s}
    BY <1>1 DEF GrantsInv, RowsTyped, Tables!LivingAssets
  <1>7. Tables!LivingAccounts' = Tables!LivingAccounts \ Gone
    BY <1>1 DEF Tables!LivingAccounts
  <1>8. IdsGiven'
    BY <1>1, <1>3, <1>6, <1>7 DEF GrantsInv, IdsGiven
  <1>9. ASSUME NEW p \in Permissions PROVE Linked(p)'
    <2>1. users' = users \ {}
      BY <1>3
    <2>2. Linked(p) /\ rule'[p] = rule[p] /\ asked'[p] = asked[p]
      BY <1>3 DEF GrantsInv
    <2> QED BY <1>4, <1>6, <1>7, <2>1, <2>2, LinkedKept
  <1>10. NothingReturns /\ AccountsKept
    BY <1>1, <1>3, <1>6, <1>7 DEF NothingReturns, AccountsKept
  <1> QED BY <1>3, <1>5, <1>8, <1>9, <1>10 DEF GrantsInv, StepKeeps

LEMMA CreateAccountKeeps ==
    ASSUME GrantsInv, NEW c \in NamedAccounts, Tables!CreateAccount(c)
    PROVE  StepKeeps /\ AccountsKept
  <1> DEFINE new == [secret |-> secrets + 1, active |-> TRUE]
  <1>1. new \in Tables!AccountRows /\ new # NoRow /\ new.secret = secrets + 1
    <2>1. secrets + 1 \in Nat /\ TRUE \in BOOLEAN
      BY DEF GrantsInv, RowsTyped
    <2>2. new.secret = secrets + 1
      OBVIOUS
    <2> QED BY <2>1, <2>2, AccountRowTyped
  <1>2. accounts' = [accounts EXCEPT ![c] = new] /\ secrets' = secrets + 1
    BY DEF Tables!CreateAccount
  <1> HIDE DEF new
  <1>11. SecretsGrow
    BY <1>2 DEF GrantsInv, RowsTyped, SecretsGrow
  <1>3. /\ WorkersTyped' /\ today' = today /\ users' = users
        /\ created' = created \union {c} /\ c \notin created
        /\ UNCHANGED <<assets, rule, links, asked>>
    BY <1>11, AtOnceTyped DEF Tables!CreateAccount, GrantsInv
  <1>4. RowsTyped'
    BY <1>1, <1>2, <1>3 DEF GrantsInv, RowsTyped, RulesTyped
  <1>5. /\ Tables!LivingAssets' = Tables!LivingAssets
        /\ Tables!LivingAccounts' = Tables!LivingAccounts \union {c}
    BY <1>1, <1>2, <1>3
       DEF GrantsInv, RowsTyped, Tables!LivingAssets, Tables!LivingAccounts
  <1>6. ASSUME NEW d \in NamedAccounts, accounts'[d] # NoRow
        PROVE  accounts'[d].secret <= secrets'
    <2>1. CASE d = c
      BY <1>1, <1>2, <2>1 DEF GrantsInv, RowsTyped
    <2>2. CASE d # c
      <3>1. accounts'[d] = accounts[d] /\ accounts[d].secret <= secrets
        BY <1>2, <1>6, <2>2 DEF GrantsInv, RowsTyped, IdsGiven
      <3>2. accounts[d].secret \in Nat
        BY <1>6, <3>1 DEF GrantsInv, RowsTyped, Tables!AccountRows
      <3> QED BY <1>2, <3>1, <3>2 DEF GrantsInv, RowsTyped
    <2> QED BY <2>1, <2>2
  <1>7. IdsGiven'
    BY <1>3, <1>5, <1>6 DEF GrantsInv, IdsGiven
  <1>8. ASSUME NEW p \in Permissions PROVE Linked(p)'
    <2>1. c \notin asked[p].accounts
      BY <1>3 DEF GrantsInv, IdsGiven
    <2> QED BY <2>1, <1>3, <1>5 DEF GrantsInv, Linked
  <1>9. c \notin Tables!LivingAccounts
    BY <1>3 DEF GrantsInv, IdsGiven
  <1>10. NothingReturns /\ AccountsKept
    BY <1>2, <1>3, <1>5, <1>9
       DEF NothingReturns, AccountsKept, Tables!LivingAccounts, GrantsInv,
           RowsTyped
  <1> QED BY <1>3, <1>4, <1>7, <1>8, <1>10 DEF GrantsInv, StepKeeps

\* What an update of an account writes.
LEMMA RevisedTyped ==
    ASSUME GrantsInv, NEW w \in Workers, Tables!UpdateAccount(w)
    PROVE  /\ request[w].id \in NamedAccounts
           /\ Tables!Revised(w) \in Tables!AccountRows
           /\ Tables!Revised(w) # NoRow
           /\ Tables!Revised(w).secret
                 = IF request[w].rotates THEN secrets + 1 ELSE row[w].secret
           /\ Tables!Revised(w).active
                 = Tables!Chosen(request[w].active, row[w].active)
           /\ row[w] \in Tables!AccountRows
           /\ request[w].active \in Tables!Given
  <1>1. /\ request[w].id \in NamedAccounts /\ row[w] \in Tables!AccountRows
        /\ request[w].active \in Tables!Given
    BY DEF GrantsInv, WorkersTyped, UpdateOK, Tables!UpdateAccount
  <1> DEFINE secret == IF request[w].rotates THEN secrets + 1 ELSE row[w].secret
             active == Tables!Chosen(request[w].active, row[w].active)
  <1>2. secret \in Nat
    BY <1>1 DEF GrantsInv, RowsTyped, Tables!AccountRows
  <1>3. active \in BOOLEAN
    BY <1>1, ChosenBoolean DEF Tables!AccountRows
  <1>4. Tables!Revised(w) = [secret |-> secret, active |-> active]
    BY DEF Tables!Revised
  <1> HIDE DEF secret, active
  <1>5. /\ [secret |-> secret, active |-> active].secret = secret
        /\ [secret |-> secret, active |-> active].active = active
    OBVIOUS
  <1>6. /\ Tables!Revised(w) \in Tables!AccountRows
        /\ Tables!Revised(w) # NoRow
    BY <1>2, <1>3, <1>4, AccountRowTyped
  <1>7. Tables!Revised(w).secret = secret
    BY <1>4, <1>5, Zenon
  <1>8. Tables!Revised(w).active = active
    BY <1>4, <1>5, Zenon
  <1> QED BY <1>1, <1>6, <1>7, <1>8, Zenon DEF secret, active

LEMMA UpdateAccountKeeps ==
    ASSUME GrantsInv, NEW w \in Workers, Tables!UpdateAccount(w)
    PROVE  StepKeeps
  <1> DEFINE c == request[w].id
             new == Tables!Revised(w)
  <1>1. /\ c \in NamedAccounts /\ new \in Tables!AccountRows /\ new # NoRow
        /\ row[w] \in Tables!AccountRows
    BY RevisedTyped
  <1>2. /\ accounts' = [accounts EXCEPT ![c] = IF @ = NoRow THEN NoRow ELSE new]
        /\ secrets' = IF request[w].rotates THEN secrets + 1 ELSE secrets
    BY DEF Tables!UpdateAccount
  <1>3. row[w].secret <= secrets
    BY DEF GrantsInv, WorkersTyped, UpdateOK, Tables!UpdateAccount
  <1>4. new.secret <= secrets'
    <2>1. CASE request[w].rotates
      BY <1>2, <2>1, RevisedTyped DEF GrantsInv, RowsTyped
    <2>2. CASE ~request[w].rotates
      BY <1>2, <1>3, <2>2, RevisedTyped DEF GrantsInv, RowsTyped
    <2> QED BY <2>1, <2>2
  <1>12. SecretsGrow
    BY <1>2 DEF GrantsInv, RowsTyped, SecretsGrow
  <1> HIDE DEF c, new
  <1>5. /\ WorkersTyped' /\ today' = today /\ users' = users
        /\ created' = created
        /\ UNCHANGED <<assets, rule, links, asked>>
    BY <1>12, ReturnTyped DEF Tables!UpdateAccount, GrantsInv
  <1>6. secrets' \in Nat \ {0} /\ secrets <= secrets'
    BY <1>2 DEF GrantsInv, RowsTyped
  <1>7. RowsTyped'
    BY <1>1, <1>2, <1>5, <1>6 DEF GrantsInv, RowsTyped, RulesTyped
  <1>8. /\ Tables!LivingAssets' = Tables!LivingAssets
        /\ Tables!LivingAccounts' = Tables!LivingAccounts
    BY <1>1, <1>2, <1>5
       DEF GrantsInv, RowsTyped, Tables!LivingAssets, Tables!LivingAccounts
  <1>9. ASSUME NEW d \in NamedAccounts, accounts'[d] # NoRow
        PROVE  accounts'[d].secret <= secrets'
    <2>1. CASE d = c
      BY <1>2, <1>4, <1>9, <2>1 DEF GrantsInv, RowsTyped
    <2>2. CASE d # c
      <3>1. accounts'[d] = accounts[d] /\ accounts[d].secret <= secrets
        BY <1>2, <1>9, <2>2 DEF GrantsInv, RowsTyped, IdsGiven
      <3>2. accounts[d].secret \in Nat
        BY <1>9, <3>1 DEF GrantsInv, RowsTyped, Tables!AccountRows
      <3> QED BY <1>6, <3>1, <3>2 DEF GrantsInv, RowsTyped
    <2> QED BY <2>1, <2>2
  <1>10. IdsGiven'
    BY <1>5, <1>8, <1>9 DEF GrantsInv, IdsGiven
  <1>11. ASSUME NEW p \in Permissions PROVE Linked(p)'
    BY <1>5, <1>8 DEF GrantsInv, Linked
  <1> QED BY <1>5, <1>7, <1>8, <1>10, <1>11
          DEF GrantsInv, StepKeeps, NothingReturns

LEMMA DeleteAccountKeeps ==
    ASSUME GrantsInv, NEW c \in NamedAccounts, Tables!DeleteAccount(c)
    PROVE  StepKeeps /\ AccountsKept
  <1>1. /\ accounts' = [accounts EXCEPT ![c] = NoRow]
        /\ Tables!Unlink({}, {}, {c})
    BY DEF Tables!DeleteAccount
  <1>2. /\ WorkersTyped' /\ today' = today /\ users' = users
        /\ UNCHANGED <<assets, rule, created, secrets, asked>>
    BY AtOnceTyped, SecretsStay DEF Tables!DeleteAccount, GrantsInv
  <1>3. /\ links' \in [Permissions -> Tables!Links]
        /\ \A p \in Permissions :
              /\ links'[p].users = links[p].users \ {}
              /\ links'[p].assets = links[p].assets \ {}
              /\ links'[p].accounts = links[p].accounts \ {c}
              /\ links'[p].groups = links[p].groups
              /\ links'[p].nodes = links[p].nodes
    BY <1>1, UnlinkTyped DEF GrantsInv, RowsTyped
  <1>4. RowsTyped'
    BY <1>1, <1>2, <1>3 DEF GrantsInv, RowsTyped, RulesTyped
  <1>5. /\ Tables!LivingAssets' = Tables!LivingAssets \ {}
        /\ Tables!LivingAccounts' = Tables!LivingAccounts \ {c}
    BY <1>1, <1>2
       DEF GrantsInv, RowsTyped, Tables!LivingAssets, Tables!LivingAccounts
  <1>6. IdsGiven'
    BY <1>1, <1>2, <1>5 DEF GrantsInv, IdsGiven, RowsTyped
  <1>7. ASSUME NEW p \in Permissions PROVE Linked(p)'
    <2>1. users' = users \ {}
      BY <1>2
    <2>2. Linked(p) /\ rule'[p] = rule[p] /\ asked'[p] = asked[p]
      BY <1>2 DEF GrantsInv
    <2> QED BY <1>3, <1>5, <2>1, <2>2, LinkedKept
  <1>8. NothingReturns /\ AccountsKept
    BY <1>1, <1>2, <1>5 DEF GrantsInv, RowsTyped, NothingReturns, AccountsKept
  <1> QED BY <1>2, <1>4, <1>6, <1>7, <1>8 DEF GrantsInv, StepKeeps

LEMMA DeleteUserKeeps ==
    ASSUME GrantsInv, NEW u \in Users, Tables!DeleteUser(u)
    PROVE  StepKeeps /\ AccountsKept
  <1>1. users' = users \ {u} /\ Tables!Unlink({u}, {}, {})
    BY DEF Tables!DeleteUser
  <1>2. /\ WorkersTyped'
        /\ UNCHANGED <<assets, accounts, rule, created, today, secrets, asked>>
    BY AskTyped, SecretsStay DEF Tables!DeleteUser, GrantsInv
  <1>3. /\ links' \in [Permissions -> Tables!Links]
        /\ \A p \in Permissions :
              /\ links'[p].users = links[p].users \ {u}
              /\ links'[p].assets = links[p].assets \ {}
              /\ links'[p].accounts = links[p].accounts \ {}
              /\ links'[p].groups = links[p].groups
              /\ links'[p].nodes = links[p].nodes
    BY <1>1, UnlinkTyped DEF GrantsInv, RowsTyped
  <1>4. RowsTyped'
    BY <1>1, <1>2, <1>3 DEF GrantsInv, RowsTyped, RulesTyped
  <1>5. /\ Tables!LivingAssets' = Tables!LivingAssets \ {}
        /\ Tables!LivingAccounts' = Tables!LivingAccounts \ {}
    BY <1>2 DEF Tables!LivingAssets, Tables!LivingAccounts
  <1>6. IdsGiven'
    BY <1>2, <1>5 DEF GrantsInv, IdsGiven
  <1>7. ASSUME NEW p \in Permissions PROVE Linked(p)'
    <2>1. Linked(p) /\ rule'[p] = rule[p] /\ asked'[p] = asked[p]
      BY <1>2 DEF GrantsInv
    <2> QED BY <1>1, <1>3, <1>5, <2>1, LinkedKept
  <1>8. NothingReturns /\ AccountsKept
    BY <1>1, <1>2, <1>5 DEF NothingReturns, AccountsKept
  <1> QED BY <1>2, <1>4, <1>6, <1>7, <1>8 DEF GrantsInv, StepKeeps

\* Writing a permission, with what the request leaves alone.
LEMMA WriteKeeps ==
    ASSUME GrantsInv, NEW p \in Permissions, NEW in \in PermissionInputs,
           NEW revision, RuleTyped(revision),
           Tables!WritePermission(p, in, revision),
           UNCHANGED <<assets, accounts, secrets, users, today>>,
           created \subseteq created', created' \subseteq created \union {p},
           WorkersTyped'
    PROVE  StepKeeps /\ AccountsKept
  <1>1. /\ RulesTyped'
        /\ links' \in [Permissions -> Tables!Links]
        /\ asked' \in [Permissions -> Tables!Links]
        /\ \A q \in Permissions : q # p =>
              rule'[q] = rule[q] /\ links'[q] = links[q] /\ asked'[q] = asked[q]
        /\ \/ /\ links'[p] = asked'[p]
              /\ asked'[p].users \subseteq users
              /\ asked'[p].assets \subseteq Tables!LivingAssets
              /\ asked'[p].accounts \subseteq Tables!LivingAccounts
           \/ UNCHANGED <<rule, links, asked>>
    BY WriteTyped DEF GrantsInv
  <1>2. RowsTyped'
    BY <1>1 DEF GrantsInv, RowsTyped
  <1>3. /\ Tables!LivingAssets' = Tables!LivingAssets
        /\ Tables!LivingAccounts' = Tables!LivingAccounts
    BY DEF Tables!LivingAssets, Tables!LivingAccounts
  <1>4. ASSUME NEW q \in Permissions
        PROVE  asked'[q].assets \union asked'[q].accounts \subseteq created'
    <2>1. CASE q # p
      BY <1>1, <2>1 DEF GrantsInv, IdsGiven
    <2>2. CASE q = p
      BY <1>1, <2>2 DEF GrantsInv, IdsGiven
    <2> QED BY <2>1, <2>2
  <1>5. IdsGiven'
    BY <1>3, <1>4 DEF GrantsInv, IdsGiven
  <1>6. ASSUME NEW q \in Permissions PROVE Linked(q)'
    <2>1. CASE q # p
      <3>1. Linked(q) /\ rule'[q] = rule[q] /\ links'[q] = links[q]
                      /\ asked'[q] = asked[q]
        BY <1>1, <2>1 DEF GrantsInv
      <3> QED BY <1>3, <3>1 DEF Linked
    <2>2. CASE q = p
      <3>1. CASE UNCHANGED <<rule, links, asked>>
        <4>1. Linked(q)
          BY DEF GrantsInv
        <4> QED BY <1>3, <3>1, <4>1 DEF Linked
      <3>2. CASE /\ links'[p] = asked'[p]
                 /\ asked'[p].users \subseteq users
                 /\ asked'[p].assets \subseteq Tables!LivingAssets
                 /\ asked'[p].accounts \subseteq Tables!LivingAccounts
        BY <1>3, <2>2, <3>2 DEF Linked
      <3> QED BY <1>1, <3>1, <3>2
    <2> QED BY <2>1, <2>2
  <1> QED BY <1>2, <1>3, <1>5, <1>6
          DEF GrantsInv, StepKeeps, NothingReturns, AccountsKept

LEMMA CreatePermissionKeeps ==
    ASSUME GrantsInv, NEW p \in Permissions, NEW in \in PermissionInputs,
           Tables!CreatePermission(p, in)
    PROVE  StepKeeps /\ AccountsKept
  <1> DEFINE new == Tables!Revision(in, Tables!Chosen(in.active, TRUE))
  <1>1. RuleTyped(new)
    BY ChosenBoolean, RevisionTyped
  <1>2. Tables!WritePermission(p, in, new)
    BY DEF Tables!CreatePermission
  <1>3. /\ created \subseteq created' /\ created' \subseteq created \union {p}
        /\ UNCHANGED <<assets, accounts, secrets>>
    BY DEF Tables!CreatePermission
  <1> HIDE DEF new
  <1>4. WorkersTyped' /\ today' = today /\ users' = users
    BY AtOnceTyped, SecretsStay DEF Tables!CreatePermission, GrantsInv
  <1> QED BY <1>1, <1>2, <1>3, <1>4, WriteKeeps

LEMMA UpdatePermissionKeeps ==
    ASSUME GrantsInv, NEW w \in Workers, Tables!UpdatePermission(w)
    PROVE  StepKeeps /\ AccountsKept
  <1> DEFINE p == request[w].id
             in == request[w].in
             active == Tables!Chosen(in.active, row[w].active)
             new == Tables!Revision(in, active)
  <1>1. /\ p \in Permissions /\ in \in PermissionInputs
        /\ row[w].active \in BOOLEAN
    BY DEF GrantsInv, WorkersTyped, UpdateOK, Tables!UpdatePermission
  <1>2. RuleTyped(new)
    BY <1>1, ChosenBoolean, RevisionTyped
  <1>3. \/ Tables!WritePermission(p, in, new)
        \/ UNCHANGED <<rule, links, asked>>
    BY DEF Tables!UpdatePermission
  <1>4. /\ WorkersTyped' /\ today' = today /\ created' = created
        /\ UNCHANGED <<assets, accounts, secrets, users>>
    BY ReturnTyped, SecretsStay DEF Tables!UpdatePermission, GrantsInv
  <1> HIDE DEF p, in, new
  <1>5. CASE Tables!WritePermission(p, in, new)
    BY <1>1, <1>2, <1>4, <1>5, WriteKeeps
  <1>6. CASE UNCHANGED <<rule, links, asked>>
    <2>1. today' \in 0..LastDay /\ today' \in {today, today + 1}
      BY <1>4 DEF GrantsInv, RowsTyped
    <2> QED BY <1>4, <1>6, <2>1, RowsKept DEF GrantsInv, StepKeeps
  <1> QED BY <1>3, <1>5, <1>6

LEMMA DeletePermissionKeeps ==
    ASSUME GrantsInv, NEW p \in Permissions, Tables!DeletePermission(p)
    PROVE  StepKeeps /\ AccountsKept
  <1>1. /\ rule' = [rule EXCEPT ![p] = NoRow]
        /\ links' = [links EXCEPT ![p] = Tables!NoLinks]
    BY DEF Tables!DeletePermission
  <1>2. /\ WorkersTyped' /\ today' = today /\ users' = users
        /\ UNCHANGED <<assets, accounts, created, secrets, asked>>
    BY AtOnceTyped, SecretsStay DEF Tables!DeletePermission, GrantsInv
  <1>3. Tables!NoLinks \in Tables!Links
    BY DEF Tables!NoLinks, Tables!Links
  <1>4. RowsTyped'
    BY <1>1, <1>2, <1>3 DEF GrantsInv, RowsTyped, RulesTyped
  <1>5. /\ Tables!LivingAssets' = Tables!LivingAssets
        /\ Tables!LivingAccounts' = Tables!LivingAccounts
    BY <1>2 DEF Tables!LivingAssets, Tables!LivingAccounts
  <1>6. IdsGiven'
    BY <1>2, <1>5 DEF GrantsInv, IdsGiven
  <1>7. ASSUME NEW q \in Permissions PROVE Linked(q)'
    <2>1. CASE q = p
      BY <1>1, <2>1 DEF GrantsInv, RowsTyped, RulesTyped, Linked
    <2>2. CASE q # p
      <3>1. rule'[q] = rule[q] /\ links'[q] = links[q] /\ Linked(q)
        BY <1>1, <2>2 DEF GrantsInv, RowsTyped, RulesTyped
      <3> QED BY <1>2, <1>5, <3>1 DEF Linked
    <2> QED BY <2>1, <2>2
  <1> QED BY <1>2, <1>4, <1>5, <1>6, <1>7
          DEF GrantsInv, StepKeeps, NothingReturns, AccountsKept

-----------------------------------------------------------------------------
(* AssetGrants: the theorems *)

LEMMA GrantsInit ==
    ASSUME Tables!Init
    PROVE  GrantsInv
  <1>1. assets \in [Assets -> Tables!AssetRows \union {NoRow}]
    BY DEF Tables!Init
  <1> DEFINE new == [secret |-> 1, active |-> TRUE]
  <1>2. /\ new \in Tables!AccountRows /\ new # NoRow /\ new.secret = 1
        /\ accounts = [c \in NamedAccounts |->
                          IF c \in created THEN new ELSE NoRow]
    <2>1. 1 \in Nat /\ TRUE \in BOOLEAN
      OBVIOUS
    <2>2. new.secret = 1
      OBVIOUS
    <2> QED BY <2>1, <2>2, AccountRowTyped DEF Tables!Init
  <1> HIDE DEF new
  <1>3. Tables!NoLinks \in Tables!Links
        /\ Tables!NoLinks.assets = {} /\ Tables!NoLinks.accounts = {}
    BY DEF Tables!NoLinks, Tables!Links
  <1>4. RowsTyped
    <2>1. accounts \in [NamedAccounts -> Tables!AccountRows \union {NoRow}]
      BY <1>2
    <2>2. /\ RulesTyped /\ users \subseteq Users /\ secrets \in Nat \ {0}
          /\ created \subseteq Assets \union NamedAccounts
      BY DEF RulesTyped, Tables!Init
    <2>3. /\ links \in [Permissions -> Tables!Links]
          /\ asked \in [Permissions -> Tables!Links]
      BY <1>3 DEF Tables!Init
    <2>4. today \in 0..LastDay
      BY EditsType DEF Tables!Init
    <2> QED BY <1>1, <2>1, <2>2, <2>3, <2>4 DEF RowsTyped
  <1>5. WorkersTyped
    BY EditsType DEF WorkersTyped, UpdateOK, Tables!Init
  <1>6. IdsGiven
    BY <1>2, <1>3 DEF IdsGiven, Tables!Init, Tables!LivingAssets,
                      Tables!LivingAccounts
  <1>7. \A p \in Permissions : Linked(p)
    BY DEF Linked, Tables!Init
  <1> QED BY <1>4, <1>5, <1>6, <1>7 DEF GrantsInv

LEMMA GrantsNext ==
    ASSUME GrantsInv, [Tables!Next]_(Tables!vars)
    PROVE  /\ StepKeeps
           /\ AccountsKept \/ \E w \in Workers : Tables!UpdateAccount(w)
  <1>1. CASE UNCHANGED Tables!vars
    BY <1>1, GrantsStutter
  <1>2. CASE \E s \in Assets : \E in \in AssetInputs : Tables!CreateAsset(s, in)
    BY <1>2, CreateAssetKeeps
  <1>3. CASE \E s \in Assets : Tables!DeleteAsset(s)
    BY <1>3, DeleteAssetKeeps
  <1>4. CASE \E c \in NamedAccounts : Tables!CreateAccount(c)
    BY <1>4, CreateAccountKeeps
  <1>5. CASE \E c \in NamedAccounts : Tables!DeleteAccount(c)
    BY <1>5, DeleteAccountKeeps
  <1>6. CASE \E p \in Permissions : \E in \in PermissionInputs :
                Tables!CreatePermission(p, in)
    BY <1>6, CreatePermissionKeeps
  <1>7. CASE \E p \in Permissions : Tables!DeletePermission(p)
    BY <1>7, DeletePermissionKeeps
  <1>8. CASE \E u \in Users : Tables!DeleteUser(u)
    BY <1>8, DeleteUserKeeps
  <1>9. ASSUME NEW w \in Workers, NEW s \in Assets, NEW in \in AssetInputs,
               Tables!StartUpdateAsset(w, s, in)
        PROVE  StepKeeps /\ AccountsKept
    BY <1>9, StartUpdateAssetKeeps
  <1>10. ASSUME NEW w \in Workers, NEW c \in NamedAccounts,
                NEW given \in Tables!Given, NEW rotates \in BOOLEAN,
                Tables!StartUpdateAccount(w, c, given, rotates)
         PROVE  StepKeeps /\ AccountsKept
    BY <1>10, StartUpdateAccountKeeps
  <1>11. ASSUME NEW w \in Workers, NEW p \in Permissions,
                NEW in \in PermissionInputs,
                Tables!StartUpdatePermission(w, p, in)
         PROVE  StepKeeps /\ AccountsKept
    BY <1>11, StartUpdatePermissionKeeps
  <1>12. CASE \E w \in Workers : Tables!UpdateAsset(w)
    BY <1>12, UpdateAssetKeeps
  <1>13. CASE \E w \in Workers : Tables!UpdateAccount(w)
    BY <1>13, UpdateAccountKeeps
  <1>14. CASE \E w \in Workers : Tables!UpdatePermission(w)
    BY <1>14, UpdatePermissionKeeps
  <1>15. CASE \E w \in Workers : Tables!Fail(w)
    BY <1>15, FailKeeps
  <1>16. CASE Tables!Tick
    BY <1>16, TickKeeps
  <1> QED
    BY <1>1, <1>2, <1>3, <1>4, <1>5, <1>6, <1>7, <1>8, <1>9, <1>10, <1>11,
       <1>12, <1>13, <1>14, <1>15, <1>16
    DEF Tables!Next

LEMMA GrantsInvariant == Tables!Spec => []GrantsInv
  <1>1. Tables!Init => GrantsInv
    BY GrantsInit
  <1>2. GrantsInv /\ [Tables!Next]_(Tables!vars) => GrantsInv'
    BY GrantsNext DEF StepKeeps
  <1> QED BY <1>1, <1>2, PTL DEF Tables!Spec

\* The tables hold rows, and links to what there is (store.go:342-615).
THEOREM GrantsTypeCorrect == Tables!Spec => []Tables!TypeOK
  <1>1. GrantsInv => Tables!TypeOK
    <2> SUFFICES ASSUME GrantsInv PROVE Tables!TypeOK
      OBVIOUS
    <2> QED
      BY DEF GrantsInv, RowsTyped, RulesTyped, RuleTyped, WorkersTyped,
             Tables!TypeOK
  <1> QED BY <1>1, GrantsInvariant, PTL

LEMMA LinksExcept ==
    ASSUME NEW a \in Tables!Links, NEW x, NEW y, NEW z
    PROVE  [a EXCEPT !.users = x, !.assets = y, !.accounts = z]
              = [users |-> x, groups |-> a.groups, assets |-> y,
                 nodes |-> a.nodes, accounts |-> z]
  <1> DEFINE b == [users |-> x, groups |-> a.groups, assets |-> a.assets,
                   nodes |-> a.nodes, accounts |-> a.accounts]
             c == [users |-> x, groups |-> a.groups, assets |-> y,
                   nodes |-> a.nodes, accounts |-> a.accounts]
             d == [users |-> x, groups |-> a.groups, assets |-> y,
                   nodes |-> a.nodes, accounts |-> z]
  <1>1. [a EXCEPT !.users = x] = b
    BY DEF Tables!Links
  <1>2. [b EXCEPT !.assets = y] = c
    OBVIOUS
  <1>3. [c EXCEPT !.accounts = z] = d
    OBVIOUS
  <1>4. [a EXCEPT !.users = x, !.assets = y, !.accounts = z]
           = [[[a EXCEPT !.users = x] EXCEPT !.assets = y] EXCEPT !.accounts = z]
    BY Zenon
  <1> HIDE DEF b, c, d
  <1>5. [a EXCEPT !.users = x, !.assets = y, !.accounts = z] = d
    BY <1>1, <1>2, <1>3, <1>4, Zenon
  <1> QED BY <1>5, Zenon DEF d

\* A permission is always linked with all its last accepted edit asked for,
\* less what was deleted since (store.go:467-525).
THEOREM PermissionsAreWhole == Tables!Spec => []LinkedAsAsked
  <1>1. ASSUME GrantsInv, NEW p \in Permissions, rule[p] # NoRow
        PROVE  links[p] =
                  [asked[p] EXCEPT !.users = @ \intersect users,
                      !.assets = @ \intersect Tables!LivingAssets,
                      !.accounts = @ \intersect Tables!LivingAccounts]
    <2>1. /\ links[p].users = asked[p].users \intersect users
          /\ links[p].groups = asked[p].groups
          /\ links[p].assets = asked[p].assets \intersect Tables!LivingAssets
          /\ links[p].nodes = asked[p].nodes
          /\ links[p].accounts
                = asked[p].accounts \intersect Tables!LivingAccounts
      BY <1>1 DEF GrantsInv, Linked
    <2>2. links[p] \in Tables!Links /\ asked[p] \in Tables!Links
      BY <1>1 DEF GrantsInv, RowsTyped
    <2> DEFINE l == links[p]
               a == asked[p]
               S == Tables!LivingAssets
               C == Tables!LivingAccounts
    <2> HIDE DEF l, a, S, C
    <2>3. l = [users |-> l.users, groups |-> l.groups, assets |-> l.assets,
               nodes |-> l.nodes, accounts |-> l.accounts]
      BY <2>2 DEF l, Tables!Links
    <2>4. [a EXCEPT !.users = @ \intersect users, !.assets = @ \intersect S,
                    !.accounts = @ \intersect C]
            = [users |-> a.users \intersect users, groups |-> a.groups,
               assets |-> a.assets \intersect S, nodes |-> a.nodes,
               accounts |-> a.accounts \intersect C]
      <3>1. a \in Tables!Links
        BY <2>2 DEF a
      <3> QED BY <3>1, LinksExcept
    <2>5. l = [a EXCEPT !.users = @ \intersect users,
                        !.assets = @ \intersect S, !.accounts = @ \intersect C]
      BY <2>1, <2>3, <2>4, Zenon DEF l, a, S, C
    <2> QED BY <2>5 DEF l, a, S, C
  <1>2. GrantsInv => LinkedAsAsked
    BY <1>1 DEF LinkedAsAsked, Tables!LinkedAsAsked
  <1> QED BY <1>2, GrantsInvariant, PTL

\* What a permission grants after a step that none of the named causes
\* explains, it granted before.
LEMMA GrantedBefore ==
    ASSUME GrantsInv, GrantsInv', NothingReturns,
           NEW p \in Permissions, NEW u, NEW c \in NamedAccounts,
           u \in users', c \in Tables!LivingAccounts',
           Tables!Grants(p, u, AccountAsset[c], c)',
           asked'[p] = asked[p], rule'[p] = rule[p],
           ~Tables!Begins(p), ~Tables!LastNamedDeleted(p),
           accounts[c] # NoRow,
           assets'[AccountAsset[c]].node = assets[AccountAsset[c]].node
    PROVE  Tables!Grants(p, u, AccountAsset[c], c)
  <1> DEFINE s == AccountAsset[c]
  <1>1. rule[p] # NoRow /\ Linked(p) /\ Linked(p)'
    BY DEF GrantsInv, Tables!Grants
  <1>2. s \in Assets
    BY AccountAssetType
  <1>3. /\ asked[p].assets \subseteq created /\ asked[p].accounts \subseteq created
    BY DEF GrantsInv, IdsGiven
  <1>4. Tables!InForce(p)
    <2>1. /\ rule[p].from \in Int /\ rule[p].until \in Int /\ today \in Int
      BY <1>1 DEF GrantsInv, RowsTyped, RulesTyped, RuleTyped
    <2>2. rule[p].active /\ rule[p].from <= today' /\ today' < rule[p].until
      BY DEF Tables!Grants, Tables!InForce
    <2>3. today' > today => rule[p].from # today'
      BY DEF Tables!Begins
    <2>4. today' = today \/ today' = today + 1
      BY DEF NothingReturns
    <2>5. rule[p].from <= today /\ today < rule[p].until
      BY <2>1, <2>2, <2>3, <2>4
    <2> QED BY <2>2, <2>5 DEF Tables!InForce
  <1>5. Tables!Named(p, u)
    <2>1. Tables!Named(p, u)'
      BY DEF Tables!Grants
    <2>2. links'[p].users \subseteq links[p].users /\ links'[p].groups = links[p].groups
      BY <1>1 DEF Linked, NothingReturns
    <2> QED BY <2>1, <2>2 DEF Tables!Named
  <1>6. Tables!Covers(p, s)
    <2>1. \/ s \in links'[p].assets
          \/ links'[p].nodes \intersect Tables!NodesOf(s)' # {}
      BY DEF Tables!Grants, Tables!Covers
    <2>2. Tables!NodesOf(s)' = Tables!NodesOf(s)
      BY DEF Tables!NodesOf
    <2>3. links'[p].nodes = links[p].nodes
      BY <1>1 DEF Linked
    <2>4. s \in links'[p].assets => s \in links[p].assets
      BY <1>1, <1>3 DEF Linked, NothingReturns
    <2> QED BY <2>1, <2>2, <2>3, <2>4 DEF Tables!Covers
  <1>7. Tables!Allows(p, c)
    <2>1. c \in links'[p].accounts \/ links'[p].accounts = {}
      BY DEF Tables!Grants, Tables!Allows
    <2>2. c \in links'[p].accounts => c \in links[p].accounts
      BY <1>1, <1>3 DEF Linked, NothingReturns
    <2>3. links'[p].accounts = {} => links[p].accounts = {}
      BY DEF Tables!LastNamedDeleted
    <2> QED BY <2>1, <2>2, <2>3 DEF Tables!Allows
  <1>8. "connect" \in rule[p].actions
    BY DEF Tables!Grants
  <1> QED BY <1>1, <1>4, <1>5, <1>6, <1>7, <1>8 DEF Tables!Grants

\* A permission comes to be about a user and an account only by an edit of it,
\* by a new account, by a move of the asset, on the day it begins, or when the
\* last account it names is deleted (store.go:615).
THEOREM GrantsWidenByEdit == Tables!Spec => GrantsGrowByEdit
  <1> DEFINE Grown(p) ==
          \A g \in Tables!GrantedBy(p)' \ Tables!GrantedBy(p) :
             \/ Tables!Edited(p) \/ Tables!Begins(p) \/ Tables!LastNamedDeleted(p)
             \/ Tables!IsNew(g[2]) \/ Tables!Moved(AccountAsset[g[2]])
  <1>1. ASSUME GrantsInv, [Tables!Next]_(Tables!vars), NEW p \in Permissions
        PROVE  Grown(p)
    <2> SUFFICES ASSUME NEW g \in Tables!GrantedBy(p)',
                        ~Tables!Edited(p), ~Tables!Begins(p),
                        ~Tables!LastNamedDeleted(p), ~Tables!IsNew(g[2]),
                        ~Tables!Moved(AccountAsset[g[2]])
                 PROVE  g \in Tables!GrantedBy(p)
      OBVIOUS
    <2>1. GrantsInv' /\ NothingReturns
      BY <1>1, GrantsNext DEF StepKeeps
    <2>2. PICK u, c : g = <<u, c>> /\ u \in users' /\ c \in Tables!LivingAccounts'
      BY DEF Tables!GrantedBy
    <2>3. g[1] = u /\ g[2] = c /\ c \in NamedAccounts
      BY <2>2 DEF Tables!LivingAccounts
    <2>4. Tables!Grants(p, u, AccountAsset[c], c)'
      BY <2>2, <2>3 DEF Tables!GrantedBy
    <2>5. asked'[p] = asked[p] /\ rule'[p] = rule[p]
      BY DEF Tables!Edited
    <2>6. /\ accounts[c] # NoRow
          /\ assets'[AccountAsset[c]].node = assets[AccountAsset[c]].node
      BY <2>3 DEF Tables!IsNew, Tables!Moved
    <2>7. Tables!Grants(p, u, AccountAsset[c], c)
      BY <1>1, <2>1, <2>2, <2>3, <2>4, <2>5, <2>6, GrantedBefore
    <2>8. u \in users /\ c \in Tables!LivingAccounts
      BY <2>1, <2>2, <2>3, <2>6 DEF NothingReturns, Tables!LivingAccounts
    <2> QED BY <2>2, <2>3, <2>7, <2>8 DEF Tables!GrantedBy
  <1>2. GrantsInv /\ [Tables!Next]_(Tables!vars) => \A p \in Permissions : Grown(p)
    BY <1>1
  <1>3. GrantsInv /\ [Tables!Next]_(Tables!vars)
        => [\A p \in Permissions : Grown(p)]_(Tables!vars)
    BY <1>2
  <1> QED BY <1>3, GrantsInvariant, PTL
          DEF Tables!Spec, GrantsGrowByEdit, Tables!GrantsGrowByEdit

\* A rotated secret or a withdrawn account comes back only by a request that
\* says so, or by one that read the row before and wrote all of it back after
\* (assets.go:169).
THEOREM RevertsAreOvertaken == Tables!Spec => RevertNeedsOverlap
  <1> DEFINE Reverts(c) ==
          accounts[c] # NoRow /\ accounts'[c] # NoRow =>
             /\ accounts'[c].secret < accounts[c].secret =>
                   \E w \in Workers : Tables!Overtaken(w, c)
             /\ ~accounts[c].active /\ accounts'[c].active =>
                   \E w \in Workers :
                      Tables!Overtaken(w, c) \/ Tables!Reactivates(w, c)
  <1>1. ASSUME GrantsInv, NEW c \in NamedAccounts, accounts[c] # NoRow,
               accounts'[c] = accounts[c]
        PROVE  Reverts(c)
    <2>1. accounts[c].secret \in Nat
      BY <1>1 DEF GrantsInv, RowsTyped, Tables!AccountRows
    <2> QED BY <1>1, <2>1
  <1>2. ASSUME GrantsInv, NEW c \in NamedAccounts, accounts[c] # NoRow,
               accounts'[c] # NoRow, NEW w \in Workers, Tables!UpdateAccount(w)
        PROVE  Reverts(c)
    <2>1. accounts' = [accounts EXCEPT ![request[w].id] =
                          IF @ = NoRow THEN NoRow ELSE Tables!Revised(w)]
      BY <1>2 DEF Tables!UpdateAccount
    <2>2. CASE c # request[w].id
      <3>1. accounts'[c] = accounts[c]
        BY <1>2, <2>1, <2>2 DEF GrantsInv, RowsTyped
      <3> QED BY <1>1, <1>2, <3>1
    <2>3. CASE c = request[w].id
      <3>1. accounts'[c] = Tables!Revised(w)
        BY <1>2, <2>1, <2>3 DEF GrantsInv, RowsTyped
      <3>2. Tables!Writes(w, c)
        <4>1. doing'[w] = "idle"
          <5>1. SecretsGrow
            BY <1>2 DEF GrantsInv, RowsTyped, SecretsGrow, Tables!UpdateAccount
          <5> QED BY <1>2, <5>1, ReturnTyped
                  DEF GrantsInv, Tables!UpdateAccount
        <4> QED BY <1>2, <2>3, <4>1 DEF Tables!Writes, Tables!UpdateAccount
      <3>3. /\ Tables!Revised(w).secret
                  = IF request[w].rotates THEN secrets + 1 ELSE row[w].secret
            /\ Tables!Revised(w).active
                  = Tables!Chosen(request[w].active, row[w].active)
            /\ row[w] \in Tables!AccountRows
        BY <1>2, RevisedTyped
      <3>4. ASSUME accounts'[c].secret < accounts[c].secret
            PROVE  Tables!Overtaken(w, c)
        <4>1. /\ accounts[c].secret \in Nat /\ accounts[c].secret <= secrets
              /\ secrets \in Nat
          BY <1>2 DEF GrantsInv, RowsTyped, IdsGiven, Tables!AccountRows
        <4>2. ~request[w].rotates
          BY <3>1, <3>3, <3>4, <4>1
        <4>3. row[w].secret < accounts[c].secret
          BY <3>1, <3>3, <3>4, <4>2
        <4>4. row[w] # accounts[c]
          BY <4>1, <4>3
        <4> QED BY <3>2, <4>4 DEF Tables!Overtaken
      <3>5. ASSUME ~accounts[c].active, accounts'[c].active
            PROVE  Tables!Overtaken(w, c) \/ Tables!Reactivates(w, c)
        <4>1. Tables!Chosen(request[w].active, row[w].active)
          BY <3>1, <3>3, <3>5
        <4>2. CASE request[w].active = "absent"
          <5>1. row[w].active
            BY <4>1, <4>2, Zenon DEF Tables!Chosen
          <5>2. row[w] # accounts[c]
            BY <3>5, <5>1
          <5> QED BY <3>2, <5>2 DEF Tables!Overtaken
        <4>3. CASE request[w].active # "absent"
          <5>1. request[w].active = "on"
            BY <4>1, <4>3, Zenon DEF Tables!Chosen
          <5> QED BY <3>2, <5>1 DEF Tables!Reactivates
        <4> QED BY <4>2, <4>3
      <3> QED BY <3>4, <3>5
    <2> QED BY <2>2, <2>3
  <1>3. ASSUME GrantsInv, [Tables!Next]_(Tables!vars)
        PROVE  \A c \in NamedAccounts : Reverts(c)
    <2> SUFFICES ASSUME NEW c \in NamedAccounts, accounts[c] # NoRow,
                        accounts'[c] # NoRow
                 PROVE  Reverts(c)
      OBVIOUS
    <2>1. CASE AccountsKept
      <3>1. accounts'[c] = accounts[c]
        BY <2>1 DEF AccountsKept
      <3> QED BY <1>1, <1>3, <3>1
    <2>2. CASE \E w \in Workers : Tables!UpdateAccount(w)
      BY <1>2, <1>3, <2>2
    <2> QED BY <1>3, <2>1, <2>2, GrantsNext
  <1>4. GrantsInv /\ [Tables!Next]_(Tables!vars)
        => [\A c \in NamedAccounts : Reverts(c)]_(Tables!vars)
    BY <1>3
  <1> QED BY <1>4, GrantsInvariant, PTL
          DEF Tables!Spec, RevertNeedsOverlap, Tables!RevertNeedsOverlap
=============================================================================
