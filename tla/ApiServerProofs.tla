-------------------------- MODULE ApiServerProofs --------------------------
(***************************************************************************)
(* Proofs about the parts of ApiServer, for any users, workers, rows and   *)
(* bounds.                                                                 *)
(***************************************************************************)
EXTENDS ApiServer, FiniteSetTheorems, WellFoundedInduction, TLAPS

Serving(w) == op[w] \in {"login", "refresh"}
Past(w) == Serving(w) /\ PastRotation(w)
Begun == 1..logins

\* What a worker holds fits the statement it is at.
WorkerOK(w) ==
    /\ Serving(w) <=> pc[w] \in {"rotate", "user", "setting", "store"}
    /\ pc[w] # "idle" => subject[w] \in Users
    /\ pc[w] \in {"setting", "write"} => row[w] \in Rows
    /\ w \in full => pc[w] = "store"
    /\ pc[w] = "write" /\ op[w] = "deactivate" => ~row[w].active
    /\ Serving(w) => chain[w] \in Begun

\* A worker that will exchange a token descends from the token's login.
RotatesOwn(w) ==
    pc[w] = "rotate" => /\ presented[w] \in Ids /\ presented[w] <= issued
                        /\ chain[w] = family[presented[w]]

TokenOK(i) == /\ i > issued => tokens[i] = NoRow
              /\ tokens[i] # NoRow => family[i] \in Begun

Typed == /\ TypeOK
         /\ \A w \in Workers : WorkerOK(w)
         /\ \A w \in Workers : RotatesOwn(w)
         /\ \A i \in Ids : TokenOK(i)
         /\ ended \subseteq Begun

\* A login belongs to one user, wherever it left a trace.
Trace(f, u) ==
    \/ \E i \in Ids : tokens[i] # NoRow /\ family[i] = f /\ tokens[i].user = u
    \/ \E w \in Workers : Serving(w) /\ chain[w] = f /\ subject[w] = u
OneOwner == \A f \in Begun, u, v \in Users : Trace(f, u) /\ Trace(f, v) => u = v

\* What is left of an ended login was spared.
LeftIsSpared ==
    /\ EndedStaysEnded
    /\ \A w \in Workers : Past(w) /\ chain[w] \in ended => chain[w] \in spared

\* So is what a user holds, or is about to be given, who was deactivated.
Excused(u) == \/ u \in lost
              \/ \E w \in Workers : pc[w] = "revoke_all" /\ subject[w] = u
Inactive(u) == Exists(u) /\ ~users[u].active
InactiveIsSpared ==
    \A u \in Users : Inactive(u) /\ ~Excused(u) =>
        /\ \A i \in Ids : Live(i) /\ tokens[i].user = u => family[i] \in spared
        /\ \A w \in Workers : /\ Serving(w) /\ pc[w] \in {"setting", "store"}
                              /\ subject[w] = u
                              => chain[w] \in spared

\* The flag a login read was true then, nobody has roles unchecked but where the
\* setting could not be read, and a row about to be written has the flag only
\* with a secret proved.
WorkerMFA(w) ==
    /\ w \in full \ unread => w \in lax
    /\ pc[w] = "setting" /\ row[w].mfa => w \in lax
    /\ pc[w] = "write" /\ row[w].mfa => <<subject[w], row[w].secret>> \in proved
MFAOK == SecretWasProved /\ \A w \in Workers : WorkerMFA(w)

-----------------------------------------------------------------------------
(* The parts a step is made of *)

\* An update changes the column it is about and keeps MFA as it was.
LEMMA UpdatedRow ==
    ASSUME NEW user \in Rows, NEW o \in Updates, NEW new \in 0..MaxPasswords
    PROVE  /\ Updated(user, o, new) \in Rows
           /\ Updated(user, o, new).mfa = user.mfa
           /\ Updated(user, o, new).secret = user.secret
           /\ o = "deactivate" => ~Updated(user, o, new).active
  <1>1. CASE o = "activate"
    BY <1>1 DEF Updated, Rows
  <1>2. CASE o = "deactivate"
    BY <1>2 DEF Updated, Rows
  <1>3. CASE o = "password"
    BY <1>3 DEF Updated, Rows
  <1> QED BY <1>1, <1>2, <1>3 DEF Updates

\* NoRow is neither a row nor a token.
LEMMA NoRowApart == NoRow \notin Rows /\ NoRow \notin Tokens /\ NoRow \notin Users
  BY NoRowType

LEMMA ObserveTyped == ASSUME Observe PROVE lax' \subseteq Workers
  BY DEF Observe

\* The worker that returns is idle and holds nothing; the others are as before.
LEMMA ResetTyped ==
    ASSUME Typed, NEW w \in Workers, Reset(w)
    PROVE  /\ pc' \in [Workers -> Points]
           /\ op' \in [Workers -> Ops]
           /\ subject' \in [Workers -> Users \union {NoRow}]
           /\ presented' \in [Workers -> 0..MaxTokens]
           /\ row' \in [Workers -> Rows \union {NoRow}]
           /\ chain' \in [Workers -> 0..MaxLogins]
           /\ full' \subseteq Workers /\ unread' \subseteq Workers
           /\ pc'[w] = "idle" /\ op'[w] = "none" /\ w \notin full'
           /\ \A v \in Workers \ {w} :
                 /\ pc'[v] = pc[v] /\ op'[v] = op[v]
                 /\ subject'[v] = subject[v] /\ presented'[v] = presented[v]
                 /\ row'[v] = row[v] /\ chain'[v] = chain[v]
                 /\ v \in full' <=> v \in full
                 /\ v \in unread' <=> v \in unread
  <1>1. 0 \in 0..MaxTokens /\ 0 \in 0..MaxLogins
    BY BoundsType
  <1>2. "idle" \in Points /\ "none" \in Ops
    BY DEF Points, Ops
  <1> QED BY <1>1, <1>2 DEF Reset, Goto, Typed, TypeOK

-----------------------------------------------------------------------------
(* Types *)

\* A refused request changes nothing but its worker.
LEMMA RefusedTyped ==
    ASSUME Typed, NEW w \in Workers, Return(w), Observe,
           UNCHANGED <<db, counters, family, rotated, ended, spared, proved>>,
           lost' \subseteq Users
    PROVE  Typed'
  <1>1. TypeOK'
    BY ResetTyped, ObserveTyped DEF Return, Typed, TypeOK, db, counters
  <1>2. ASSUME NEW v \in Workers PROVE WorkerOK(v)' /\ RotatesOwn(v)'
    <2>1. CASE v = w
      BY <2>1, ResetTyped DEF Return, WorkerOK, RotatesOwn, Serving
    <2>2. CASE v # w
      BY <2>2, ResetTyped
      DEF Return, WorkerOK, RotatesOwn, Serving, Begun, counters, db, Typed
    <2> QED BY <2>1, <2>2
  <1>3. \A i \in Ids : TokenOK(i)'
    BY DEF Typed, TokenOK, db, counters, Begun
  <1> QED BY <1>1, <1>2, <1>3 DEF Typed, counters, Begun

\* A request that begins changes its worker and what it counts.
LEMMA LoginTyped ==
    ASSUME Typed, Observe, NEW w \in Workers, NEW u \in Users, Login(w, u)
    PROVE  Typed'
  <1>1. users[u] \in Rows /\ logins + 1 \in 1..MaxLogins
    <2>1. users[u] \in Rows
      BY DEF Login, Exists, Typed, TypeOK
    <2>2. logins \in 0..MaxLogins /\ logins < MaxLogins
      BY DEF Login, Typed, TypeOK
    <2> QED BY <2>1, <2>2, BoundsType
  <1>2. TypeOK'
    BY <1>1, ObserveTyped
    DEF Login, Begin, Goto, Typed, TypeOK, db, Points, Ops
  <1>3. ASSUME NEW v \in Workers PROVE WorkerOK(v)' /\ RotatesOwn(v)'
    BY <1>1 DEF Login, Begin, Goto, Typed, TypeOK, WorkerOK, RotatesOwn,
                Serving, Begun, db
  <1>4. \A i \in Ids : TokenOK(i)'
    BY DEF Typed, TypeOK, TokenOK, db, Begun, Login
  <1> QED BY <1>2, <1>3, <1>4 DEF Typed, TypeOK, Begun, Login

LEMMA RefreshTyped ==
    ASSUME Typed, Observe, NEW w \in Workers, NEW i \in Ids, Refresh(w, i)
    PROVE  Typed'
  <1>1. /\ tokens[i].user \in Users /\ i \in 0..MaxTokens /\ i <= issued
        /\ family[i] \in Begun /\ family[i] \in 0..MaxLogins
    <2>1. tokens[i] \in Tokens
      BY DEF Refresh, Live, Typed, TypeOK
    <2>2. TokenOK(i) /\ tokens[i] # NoRow
      BY DEF Refresh, Live, Typed
    <2>3. ~(i > issued) /\ family[i] \in Begun
      BY <2>2 DEF TokenOK
    <2>4. i \in 0..MaxTokens /\ issued \in 0..MaxTokens
      BY BoundsType DEF Ids, Typed, TypeOK
    <2>5. i <= issued
      BY <2>3, <2>4, BoundsType
    <2>6. family[i] \in 0..MaxLogins
      BY DEF Typed, TypeOK
    <2> QED BY <2>1, <2>3, <2>4, <2>5, <2>6 DEF Tokens
  <1>2. TypeOK'
    BY <1>1, ObserveTyped
    DEF Refresh, Begin, Goto, Typed, TypeOK, db, counters, Points, Ops
  <1>3. ASSUME NEW v \in Workers PROVE WorkerOK(v)' /\ RotatesOwn(v)'
    BY <1>1 DEF Refresh, Begin, Goto, Typed, TypeOK, WorkerOK, RotatesOwn,
                Serving, Begun, db, counters
  <1>4. \A j \in Ids : TokenOK(j)'
    BY DEF Typed, TypeOK, TokenOK, db, Begun, Refresh, counters
  <1> QED BY <1>2, <1>3, <1>4 DEF Typed, TypeOK, Begun, Refresh, counters

LEMMA ReadForUpdateTyped ==
    ASSUME Typed, Observe, NEW w \in Workers, NEW u \in Users,
           NEW o \in {"setup", "verify"} \union Updates, NEW new \in Rows,
           o = "deactivate" => ~new.active, ReadForUpdate(w, o, u, new),
           setups' \in 0..MaxSetups, passwords' \in 0..MaxPasswords,
           proved' \subseteq Users \X (0..MaxSetups)
    PROVE  Typed'
  <1>1. o \in Ops /\ o \notin {"login", "refresh"}
    BY DEF Ops, Updates
  <1>2. TypeOK'
    BY <1>1, ObserveTyped
    DEF ReadForUpdate, Begin, Goto, Typed, TypeOK, db, Points
  <1>3. ASSUME NEW v \in Workers PROVE WorkerOK(v)' /\ RotatesOwn(v)'
    BY <1>1 DEF ReadForUpdate, Begin, Goto, Typed, TypeOK, WorkerOK,
                RotatesOwn, Serving, Begun, db
  <1>4. \A j \in Ids : TokenOK(j)'
    BY DEF Typed, TypeOK, TokenOK, db, Begun, ReadForUpdate
  <1> QED BY <1>2, <1>3, <1>4 DEF Typed, TypeOK, Begun, ReadForUpdate

\* The rows the three whole-row updates will write.
LEMMA SetupRow ==
    ASSUME TypeOK, NEW w \in Workers, NEW u \in Users, SetupMFA(w, u)
    PROVE  /\ [users[u] EXCEPT !.secret = setups + 1] \in Rows
           /\ ~[users[u] EXCEPT !.secret = setups + 1].mfa
           /\ setups' \in 0..MaxSetups
  BY NoRowApart, BoundsType DEF SetupMFA, TypeOK, Exists, Rows, MaySetUp

LEMMA VerifyRow ==
    ASSUME TypeOK, NEW w \in Workers, NEW u \in Users, VerifyMFA(w, u)
    PROVE  /\ [users[u] EXCEPT !.mfa = TRUE] \in Rows
           /\ [users[u] EXCEPT !.mfa = TRUE].secret = users[u].secret
           /\ proved' \subseteq Users \X (0..MaxSetups)
  <1>1. users[u] \in Rows
    BY DEF VerifyMFA, TypeOK, Exists
  <1>2. <<u, users[u].secret>> \in Users \X (0..MaxSetups)
    BY <1>1 DEF Rows
  <1>3. proved' \subseteq Users \X (0..MaxSetups)
    BY <1>2 DEF VerifyMFA, TypeOK
  <1> QED BY <1>1, <1>3 DEF Rows

LEMMA UpdateRow ==
    ASSUME TypeOK, NEW w \in Workers, NEW u \in Users, NEW o \in Updates,
           Update(w, u, o)
    PROVE  users[u] \in Rows /\ passwords' \in 0..MaxPasswords
  <1>1. users[u] \in Rows
    BY DEF Update, TypeOK, Exists
  <1>2. passwords \in 0..MaxPasswords
    BY DEF TypeOK
  <1>3. passwords' \in 0..MaxPasswords
    BY <1>2, BoundsType DEF Update
  <1> QED BY <1>1, <1>3

LEMMA RotateTyped ==
    ASSUME Typed, Observe, NEW w \in Workers, RevokeRefreshToken(w),
           Revocable(presented[w])
    PROVE  Typed'
  <1>1. /\ presented[w] \in Ids /\ tokens[presented[w]] \in Tokens
        /\ pc[w] = "rotate"
    BY DEF RevokeRefreshToken, Revocable, Typed, TypeOK, RotatesOwn
  <1>2. /\ tokens' = [tokens EXCEPT ![presented[w]].revoked = TRUE]
        /\ rotated' = [rotated EXCEPT ![presented[w]] = @ + 1]
        /\ Goto(w, "user")
        /\ presented' = [presented EXCEPT ![w] = 0]
        /\ UNCHANGED <<users, issued, mfaRequired, op, subject, row, full,
                       unread, counters, family, chain, ended, spared, stale, lost,
                       proved>>
    BY <1>1 DEF RevokeRefreshToken, Refused, Return, Reset, Revocable
  <1>3. tokens' \in [Ids -> Tokens \union {NoRow}]
    BY <1>1, <1>2 DEF Typed, TypeOK, Tokens
  <1>4. rotated' \in [Ids -> Nat]
    BY <1>1, <1>2 DEF Typed, TypeOK
  <1>5. TypeOK'
    BY <1>2, <1>3, <1>4, ObserveTyped, BoundsType
    DEF Goto, Typed, TypeOK, Points, counters
  <1>6. ASSUME NEW v \in Workers PROVE WorkerOK(v)' /\ RotatesOwn(v)'
    BY <1>1, <1>2 DEF Goto, Typed, TypeOK, WorkerOK, RotatesOwn, Serving,
                      Begun, counters
  <1>7. \A j \in Ids : TokenOK(j)'
    BY <1>1, <1>2, NoRowApart DEF Typed, TypeOK, TokenOK, Begun, counters
  <1> QED BY <1>2, <1>5, <1>6, <1>7 DEF Typed, TypeOK, Begun, counters

LEMMA ReadUserTyped ==
    ASSUME Typed, Observe, NEW w \in Workers, RefreshReadUser(w),
           Exists(subject[w]), users[subject[w]].active
    PROVE  Typed'
  <1>1. /\ pc[w] = "user"
        /\ row' = [row EXCEPT ![w] = users[subject[w]]]
        /\ Goto(w, "setting")
        /\ UNCHANGED <<db, op, subject, presented, full, unread, counters, history>>
    BY DEF RefreshReadUser
  <1>2. users[subject[w]] \in Rows
    BY <1>1 DEF Exists, Typed, TypeOK, WorkerOK
  <1>3. TypeOK'
    BY <1>1, <1>2, ObserveTyped
    DEF Goto, Typed, TypeOK, Points, counters, db, history
  <1>4. ASSUME NEW v \in Workers PROVE WorkerOK(v)' /\ RotatesOwn(v)'
    BY <1>1, <1>2 DEF Goto, Typed, TypeOK, WorkerOK, RotatesOwn, Serving,
                      Begun, counters, db, history
  <1>5. \A j \in Ids : TokenOK(j)'
    BY <1>1 DEF Typed, TokenOK, Begun, counters, db, history
  <1> QED BY <1>1, <1>3, <1>4, <1>5 DEF Typed, Begun, counters, history

LEMMA SettingTyped ==
    ASSUME Typed, Observe, NEW w \in Workers, ReadMFASetting(w)
    PROVE  Typed'
  <1>1. /\ pc[w] = "setting"
        /\ full' \subseteq full \union {w} /\ full \subseteq full'
        /\ unread' \subseteq unread \union {w}
        /\ row' = [row EXCEPT ![w] = NoRow]
        /\ Goto(w, "store")
        /\ UNCHANGED <<db, op, subject, presented, counters, history>>
    BY DEF ReadMFASetting
  <1>2. TypeOK'
    BY <1>1, ObserveTyped
       DEF Goto, Typed, TypeOK, Points, counters, db, history
  <1>3. ASSUME NEW v \in Workers PROVE WorkerOK(v)' /\ RotatesOwn(v)'
    BY <1>1 DEF Goto, Typed, TypeOK, WorkerOK, RotatesOwn, Serving,
                Begun, counters, db, history
  <1>4. \A j \in Ids : TokenOK(j)'
    BY <1>1 DEF Typed, TokenOK, Begun, counters, db, history
  <1> QED BY <1>1, <1>2, <1>3, <1>4 DEF Typed, Begun, counters, history

LEMMA StoreTyped ==
    ASSUME Typed, Observe, NEW w \in Workers, CreateRefreshToken(w),
           Exists(subject[w])
    PROVE  Typed'
  <1> DEFINE new == issued + 1
             token == [user |-> subject[w], revoked |-> FALSE]
  <1>1. /\ pc[w] = "store" /\ issued < MaxTokens /\ issued' = new
        /\ tokens' = [tokens EXCEPT ![new] = token]
        /\ family' = [family EXCEPT ![new] = chain[w]]
        /\ Return(w)
        /\ UNCHANGED <<users, mfaRequired, counters, rotated, ended, spared,
                       lost, proved>>
    BY DEF CreateRefreshToken
  <1>2. issued \in 0..MaxTokens
    BY DEF Typed, TypeOK
  <1>3. new \in Ids /\ new \in 0..MaxTokens /\ issued < new
    BY <1>1, <1>2, BoundsType DEF Ids
  <1>4. token \in Tokens /\ chain[w] \in Begun /\ chain[w] \in 0..MaxLogins
    BY <1>1 DEF Tokens, Typed, TypeOK, WorkerOK
  <1>5. Begun' = Begun
    BY <1>1 DEF Begun, counters
  <1> HIDE DEF new, token
  <1>6. TypeOK'
    BY <1>1, <1>3, <1>4, ResetTyped, ObserveTyped
    DEF Return, Typed, TypeOK, counters
  <1>7. ASSUME NEW v \in Workers PROVE WorkerOK(v)'
    BY <1>1, <1>5, ResetTyped DEF Return, WorkerOK, Serving, Typed
  <1>8. ASSUME NEW v \in Workers PROVE RotatesOwn(v)'
    <2>1. CASE v = w
      BY <1>1, <2>1, ResetTyped DEF Return, RotatesOwn
    <2>2. CASE v # w /\ pc[v] = "rotate"
      <3>1. /\ presented[v] \in Ids /\ presented[v] <= issued
            /\ chain[v] = family[presented[v]]
        BY <2>2 DEF RotatesOwn, Typed
      <3>2. presented[v] # new
        BY <3>1, <1>2, <1>3 DEF Ids
      <3>3. presented[v] <= new
        BY <3>1, <1>2, <1>3 DEF Ids
      <3> QED BY <1>1, <2>2, <3>1, <3>2, <3>3, ResetTyped
              DEF Return, RotatesOwn, Typed, TypeOK
    <2>3. CASE v # w /\ pc[v] # "rotate"
      BY <1>1, <2>3, ResetTyped DEF Return, RotatesOwn
    <2> QED BY <2>1, <2>2, <2>3
  <1>9. ASSUME NEW j \in Ids PROVE TokenOK(j)'
    <2>1. CASE j = new
      BY <1>1, <1>2, <1>3, <1>4, <1>5, <2>1 DEF TokenOK, Typed, TypeOK
    <2>2. CASE j # new
      <3>1. tokens'[j] = tokens[j] /\ family'[j] = family[j]
        BY <1>1, <2>2 DEF Typed, TypeOK
      <3>2. j > issued' => j > issued
        BY <1>1, <1>2, <1>3 DEF Ids
      <3> QED BY <1>5, <3>1, <3>2 DEF TokenOK, Typed
    <2> QED BY <2>1, <2>2
  <1> QED BY <1>1, <1>5, <1>6, <1>7, <1>8, <1>9 DEF Typed

LEMMA WriteTyped ==
    ASSUME Typed, Observe, NEW w \in Workers, UpdateUser(w), Exists(subject[w])
    PROVE  Typed'
  <1>1. /\ pc[w] = "write"
        /\ users' = [users EXCEPT ![subject[w]] = row[w]]
        /\ stale' \subseteq stale \union Workers
        /\ lost' \subseteq lost \union {subject[w]}
        /\ UNCHANGED <<tokens, issued, mfaRequired, counters,
                       family, rotated, ended, spared, proved>>
    BY DEF UpdateUser, Refused, Return, db, counters
  <1>2. subject[w] \in Users /\ row[w] \in Rows
    BY <1>1 DEF Typed, WorkerOK
  <1>3. users' \in [Users -> Rows \union {NoRow}] /\ lost' \subseteq Users
        /\ stale' \subseteq Workers
    BY <1>1, <1>2 DEF Typed, TypeOK
  <1>4. presented' = presented \/ Reset(w)
    BY DEF UpdateUser, Reset
  <1>5. Begun' = Begun /\ \A j \in Ids : TokenOK(j)'
    BY <1>1 DEF Begun, TokenOK, counters, Typed
  <1>6. CASE Reset(w)
    <2>1. TypeOK'
      BY <1>1, <1>3, <1>6, ResetTyped, ObserveTyped DEF Typed, TypeOK, counters
    <2>2. ASSUME NEW v \in Workers PROVE WorkerOK(v)' /\ RotatesOwn(v)'
      BY <1>1, <1>5, <1>6, ResetTyped DEF WorkerOK, RotatesOwn, Serving, Typed
    <2> QED BY <1>1, <1>5, <2>1, <2>2 DEF Typed
  <1>7. CASE Goto(w, "revoke_all") /\ UNCHANGED <<op, subject, presented, row, full, unread, chain>>
    <2>1. TypeOK'
      BY <1>1, <1>3, <1>7, ObserveTyped
         DEF Goto, Typed, TypeOK, counters, Points
    <2>2. ASSUME NEW v \in Workers PROVE WorkerOK(v)' /\ RotatesOwn(v)'
      BY <1>1, <1>5, <1>7
         DEF Goto, WorkerOK, RotatesOwn, Serving, Typed, TypeOK
    <2> QED BY <1>1, <1>5, <2>1, <2>2 DEF Typed
  <1> QED BY <1>2, <1>6, <1>7 DEF UpdateUser, Refused, Return

\* Revoking leaves the types; a running login has begun.
LEMMA RevokeAllTyped ==
    ASSUME Typed, NEW u \in Users, RevokeUserRefreshTokens(u)
    PROVE  /\ tokens' \in [Ids -> Tokens \union {NoRow}]
           /\ ended' \subseteq Begun /\ ended' \subseteq Families
           /\ spared' \subseteq Families
           /\ \A i \in Ids : tokens'[i] = NoRow <=> tokens[i] = NoRow
           /\ \A i \in Ids : tokens[i] # NoRow => tokens'[i].user = tokens[i].user
  <1>1. Begun \subseteq Families
    BY BoundsType DEF Begun, Families, Typed, TypeOK
  <1>2. ASSUME NEW i \in LiveOf(u)
        PROVE  /\ tokens[i] \in Tokens /\ family[i] \in Begun
               /\ [tokens[i] EXCEPT !.revoked = TRUE] \in Tokens
               /\ [tokens[i] EXCEPT !.revoked = TRUE].user = tokens[i].user
    BY DEF LiveOf, Live, Typed, TypeOK, TokenOK, Tokens
  <1>3. \A v \in Workers : op[v] \in {"login", "refresh"} => chain[v] \in Begun
    BY DEF Typed, WorkerOK, Serving
  <1>4. tokens' \in [Ids -> Tokens \union {NoRow}]
    BY <1>2 DEF RevokeUserRefreshTokens, Typed, TypeOK
  <1>5. ended' \subseteq Begun
    BY <1>2, <1>3 DEF RevokeUserRefreshTokens, Typed
  <1>6. spared' \subseteq spared \union Begun
    BY <1>3 DEF RevokeUserRefreshTokens
  <1>7. ASSUME NEW i \in Ids
        PROVE  /\ tokens'[i] = NoRow <=> tokens[i] = NoRow
               /\ tokens[i] # NoRow => tokens'[i].user = tokens[i].user
    BY <1>2, NoRowApart DEF RevokeUserRefreshTokens
  <1> QED BY <1>1, <1>4, <1>5, <1>6, <1>7 DEF Typed, TypeOK

LEMMA RevokeAfterUpdateTyped ==
    ASSUME Typed, Observe, NEW w \in Workers, RevokeAfterUpdate(w)
    PROVE  Typed'
  <1>1. /\ pc[w] = "revoke_all" /\ RevokeUserRefreshTokens(subject[w])
        /\ Return(w)
    BY DEF RevokeAfterUpdate
  <1>2. subject[w] \in Users
    BY <1>1 DEF Typed, WorkerOK
  <1>3. UNCHANGED <<users, issued, mfaRequired, counters, family, rotated,
                    lost, proved>>
    BY <1>1 DEF RevokeUserRefreshTokens
  <1>4. TypeOK'
    BY <1>1, <1>2, <1>3, RevokeAllTyped, ResetTyped, ObserveTyped
    DEF Return, Typed, TypeOK, counters
  <1>5. Begun' = Begun
    BY <1>3 DEF Begun, counters
  <1>6. ASSUME NEW v \in Workers PROVE WorkerOK(v)' /\ RotatesOwn(v)'
    BY <1>1, <1>3, <1>5, ResetTyped
    DEF Return, WorkerOK, RotatesOwn, Serving, Typed
  <1>7. ASSUME NEW j \in Ids PROVE TokenOK(j)'
    BY <1>1, <1>2, <1>3, <1>5, RevokeAllTyped DEF TokenOK, Typed
  <1> QED BY <1>1, <1>2, <1>4, <1>5, <1>6, <1>7, RevokeAllTyped DEF Typed

LEMMA LogoutTyped ==
    ASSUME Typed, Observe, NEW u \in Users, Logout(u)
    PROVE  Typed'
  <1>1. /\ RevokeUserRefreshTokens(u) /\ UNCHANGED <<local, chain, stale>>
    BY DEF Logout
  <1>2. UNCHANGED <<users, issued, mfaRequired, counters, family, rotated,
                    lost, proved>>
    BY <1>1 DEF RevokeUserRefreshTokens
  <1>3. TypeOK'
    BY <1>1, <1>2, RevokeAllTyped, ObserveTyped
       DEF Typed, TypeOK, counters, local
  <1>4. Begun' = Begun
    BY <1>2 DEF Begun, counters
  <1>5. ASSUME NEW v \in Workers PROVE WorkerOK(v)' /\ RotatesOwn(v)'
    BY <1>1, <1>2, <1>4 DEF local, WorkerOK, RotatesOwn, Serving, Typed
  <1>6. ASSUME NEW j \in Ids PROVE TokenOK(j)'
    BY <1>1, <1>2, <1>4, RevokeAllTyped DEF TokenOK, Typed
  <1> QED BY <1>1, <1>3, <1>4, <1>5, <1>6, RevokeAllTyped DEF Typed

LEMMA DeleteTyped ==
    ASSUME Typed, Observe, NEW u \in Users, DeleteUser(u)
    PROVE  Typed'
  <1>1. /\ users' \in [Users -> Rows \union {NoRow}]
        /\ tokens' \in [Ids -> Tokens \union {NoRow}]
    BY DEF DeleteUser, Typed, TypeOK
  <1>2. TypeOK'
    BY <1>1, ObserveTyped
       DEF DeleteUser, Typed, TypeOK, local, counters, history
  <1>3. ASSUME NEW v \in Workers PROVE WorkerOK(v)' /\ RotatesOwn(v)'
    BY DEF DeleteUser, WorkerOK, RotatesOwn, Serving, Begun, Typed, local,
           counters, history
  <1>4. ASSUME NEW j \in Ids PROVE TokenOK(j)'
    BY DEF DeleteUser, TokenOK, Begun, Typed, counters, history
  <1> QED BY <1>2, <1>3, <1>4 DEF DeleteUser, Typed, Begun, counters, history

LEMMA RequireMFATyped ==
    ASSUME Typed, Observe, RequireMFA PROVE Typed'
  <1>1. TypeOK'
    BY ObserveTyped DEF RequireMFA, Typed, TypeOK, local, counters, history
  <1>2. ASSUME NEW v \in Workers PROVE WorkerOK(v)' /\ RotatesOwn(v)'
    BY DEF RequireMFA, WorkerOK, RotatesOwn, Serving, Begun, Typed, local,
           counters, history
  <1>3. ASSUME NEW j \in Ids PROVE TokenOK(j)'
    BY DEF RequireMFA, TokenOK, Begun, Typed, counters, history
  <1> QED BY <1>1, <1>2, <1>3 DEF RequireMFA, Typed, Begun, counters, history

\* A request that begins is one of five.
Begins(w) == \/ \E u \in Users : \/ Login(w, u)
                                 \/ SetupMFA(w, u)
                                 \/ VerifyMFA(w, u)
                                 \/ \E o \in Updates : Update(w, u, o)
             \/ \E i \in Ids : Refresh(w, i)

LEMMA BeginsTyped ==
    ASSUME Typed, Observe, NEW w \in Workers, Begins(w)
    PROVE  Typed'
  <1>0. TypeOK
    BY DEF Typed
  <1>1. ASSUME NEW u \in Users, SetupMFA(w, u) PROVE Typed'
    <2>1. /\ ReadForUpdate(w, "setup", u, [users[u] EXCEPT !.secret = setups + 1])
          /\ UNCHANGED <<passwords, proved>>
      BY <1>1 DEF SetupMFA
    <2>2. /\ passwords' \in 0..MaxPasswords
          /\ proved' \subseteq Users \X (0..MaxSetups)
      BY <1>0, <2>1 DEF TypeOK
    <2> QED BY <1>0, <1>1, <2>1, <2>2, SetupRow, ReadForUpdateTyped
  <1>2. ASSUME NEW u \in Users, VerifyMFA(w, u) PROVE Typed'
    <2>1. /\ ReadForUpdate(w, "verify", u, [users[u] EXCEPT !.mfa = TRUE])
          /\ UNCHANGED <<setups, passwords>>
      BY <1>2 DEF VerifyMFA
    <2>2. passwords' \in 0..MaxPasswords /\ setups' \in 0..MaxSetups
      BY <1>0, <2>1 DEF TypeOK
    <2> QED BY <1>0, <1>2, <2>1, <2>2, VerifyRow, ReadForUpdateTyped
  <1>3. ASSUME NEW u \in Users, NEW o \in Updates, Update(w, u, o)
        PROVE  Typed'
    <2>1. /\ ReadForUpdate(w, o, u, Updated(users[u], o, passwords'))
          /\ UNCHANGED <<setups, proved>>
      BY <1>3 DEF Update
    <2>2. setups' \in 0..MaxSetups /\ proved' \subseteq Users \X (0..MaxSetups)
      BY <1>0, <2>1 DEF TypeOK
    <2>3. users[u] \in Rows /\ passwords' \in 0..MaxPasswords
      BY <1>0, <1>3, UpdateRow
    <2>4. /\ Updated(users[u], o, passwords') \in Rows
          /\ o = "deactivate" => ~Updated(users[u], o, passwords').active
      BY <2>3, UpdatedRow
    <2> QED BY <2>1, <2>2, <2>3, <2>4, ReadForUpdateTyped
  <1> QED BY <1>1, <1>2, <1>3, LoginTyped, RefreshTyped DEF Begins

LEMMA RefusesTyped ==
    ASSUME Typed, Observe, NEW w \in Workers, Refused(w) \/ Fail(w)
    PROVE  Typed'
  <1>1. pc[w] = "revoke_all" => subject[w] \in Users
    BY DEF Typed, WorkerOK
  <1>2. lost' \subseteq Users
    BY <1>1 DEF Refused, Fail, Typed, TypeOK
  <1> QED BY <1>2, RefusedTyped DEF Refused, Fail

LEMMA HandleTyped ==
    ASSUME Typed, Observe, NEW w \in Workers, Handle(w)
    PROVE  Typed'
  <1>1. CASE RevokeRefreshToken(w)
    BY <1>1, RotateTyped, RefusesTyped DEF RevokeRefreshToken
  <1>2. CASE RefreshReadUser(w)
    BY <1>2, ReadUserTyped, RefusesTyped DEF RefreshReadUser
  <1>3. CASE CreateRefreshToken(w)
    BY <1>3, StoreTyped, RefusesTyped DEF CreateRefreshToken
  <1>4. CASE UpdateUser(w)
    BY <1>4, WriteTyped, RefusesTyped DEF UpdateUser
  <1> QED BY <1>1, <1>2, <1>3, <1>4, BeginsTyped, RefusesTyped, SettingTyped,
             RevokeAfterUpdateTyped DEF Handle, Begins

LEMMA NextTyped == ASSUME Typed, Next PROVE Typed'
  BY HandleTyped, LogoutTyped, DeleteTyped, RequireMFATyped DEF Next

LEMMA StutterTyped == ASSUME Typed, UNCHANGED vars PROVE Typed'
  <1>1. TypeOK'
    BY DEF Typed, TypeOK, vars, db, local, counters, history
  <1>2. ASSUME NEW v \in Workers PROVE WorkerOK(v)' /\ RotatesOwn(v)'
    BY DEF Typed, vars, db, local, counters, history, WorkerOK, RotatesOwn,
           Serving, Begun
  <1>3. ASSUME NEW j \in Ids PROVE TokenOK(j)'
    BY DEF Typed, vars, db, counters, history, TokenOK, Begun
  <1> QED BY <1>1, <1>2, <1>3 DEF Typed, vars, counters, history, Begun

LEMMA InitTyped == ASSUME Init PROVE Typed
  <1>1. NewUser \in Rows
    BY BoundsType DEF NewUser, Rows, NoSecret
  <1>2. 0 \in 0..MaxTokens /\ 0 \in 0..MaxSetups /\ 0 \in 0..MaxPasswords
        /\ 0 \in 0..MaxLogins
    BY BoundsType
  <1>3. /\ pc \in [Workers -> Points] /\ op \in [Workers -> Ops]
        /\ mfaRequired \in BOOLEAN
    BY DEF Init, Points, Ops
  <1>4. TypeOK
    BY <1>1, <1>2, <1>3 DEF Init, TypeOK
  <1> QED BY <1>4 DEF Init, Typed, WorkerOK, RotatesOwn, Serving, TokenOK

\* Every step keeps the tables, the workers and the histories well-formed.
THEOREM TypeCorrect == Spec => []TypeOK
  <1>1. Typed /\ [Next]_vars => Typed'
    BY NextTyped, StutterTyped
  <1>2. Typed => TypeOK
    BY DEF Typed
  <1> QED BY <1>1, <1>2, InitTyped, PTL DEF Spec

-----------------------------------------------------------------------------
(* One worker moves at a time *)

Same(v) == /\ pc'[v] = pc[v] /\ op'[v] = op[v] /\ subject'[v] = subject[v]
           /\ row'[v] = row[v] /\ chain'[v] = chain[v]
           /\ (v \in full') <=> (v \in full)
           /\ (v \in unread') <=> (v \in unread)

LEMMA ReturnMoves ==
    ASSUME Typed, NEW w \in Workers, Reset(w)
    PROVE  pc'[w] = "idle" /\ \A v \in Workers \ {w} : Same(v)
  BY ResetTyped DEF Same

LEMMA BeginsMoves ==
    ASSUME Typed, NEW w \in Workers, Begins(w)
    PROVE  \A v \in Workers \ {w} : Same(v)
  <1>1. \E u, o, p : Begin(w, o, u, p)
    BY DEF Begins, Login, Refresh, SetupMFA, VerifyMFA, Update, ReadForUpdate
  <1>2. \A v \in Workers \ {w} : row'[v] = row[v] /\ chain'[v] = chain[v]
    BY DEF Begins, Login, Refresh, SetupMFA, VerifyMFA, Update, ReadForUpdate,
           Typed, TypeOK
  <1> QED BY <1>1, <1>2 DEF Begin, Goto, Same, Typed, TypeOK

LEMMA HandleMoves ==
    ASSUME Typed, NEW w \in Workers, Handle(w)
    PROVE  \A v \in Workers \ {w} : Same(v)
  <1>1. CASE RevokeRefreshToken(w)
    BY <1>1, ReturnMoves
    DEF RevokeRefreshToken, Refused, Return, Goto, Same, Typed, TypeOK
  <1>2. CASE RefreshReadUser(w)
    BY <1>2, ReturnMoves
    DEF RefreshReadUser, Refused, Return, Goto, Same, Typed, TypeOK, history
  <1>3. CASE ReadMFASetting(w)
    BY <1>3 DEF ReadMFASetting, Goto, Same, Typed, TypeOK, history
  <1>4. CASE CreateRefreshToken(w)
    BY <1>4, ReturnMoves DEF CreateRefreshToken, Refused, Return
  <1>5. CASE UpdateUser(w)
    BY <1>5, ReturnMoves
    DEF UpdateUser, Refused, Return, Goto, Same, Typed, TypeOK
  <1>6. CASE RevokeAfterUpdate(w) \/ Fail(w)
    BY <1>6, ReturnMoves DEF RevokeAfterUpdate, Fail, Return
  <1> QED BY <1>1, <1>2, <1>3, <1>4, <1>5, <1>6, BeginsMoves
          DEF Handle, Begins

LEMMA NoneMoves ==
    ASSUME (\E u \in Users : Logout(u) \/ DeleteUser(u)) \/ RequireMFA
    PROVE  \A v \in Workers : Same(v)
  BY DEF Logout, DeleteUser, RequireMFA, local, history, Same

-----------------------------------------------------------------------------
(* Roles for MFA, MFA for a code *)

\* Who saw MFA on, or not required, has seen it as long as the request lasts.
LEMMA LaxStays ==
    ASSUME Observe, NEW v \in Workers, Serving(v)',
           \/ pc[v] # "idle" /\ v \in lax
           \/ Lax(users, mfaRequired, subject'[v])
    PROVE  v \in lax'
  BY DEF Observe, Serving

LEMMA SameKeepsMFA ==
    ASSUME Typed, Observe, NEW v \in Workers, Same(v), WorkerMFA(v),
           proved \subseteq proved'
    PROVE  WorkerMFA(v)'
  <1>1. pc[v] \in {"setting", "store"} => Serving(v)' /\ pc[v] # "idle"
    BY DEF Typed, WorkerOK, Same, Serving
  <1>2. /\ v \in full \ unread => v \in lax'
        /\ pc[v] = "setting" /\ row[v].mfa => v \in lax'
    BY <1>1, LaxStays DEF WorkerMFA, Typed, WorkerOK
  <1>3. v \in full' \ unread' => v \in lax'
    BY <1>2 DEF Same
  <1>4. pc'[v] = "setting" /\ row'[v].mfa => v \in lax'
    BY <1>2 DEF Same
  <1>5. pc'[v] = "write" /\ row'[v].mfa =>
           <<subject'[v], row'[v].secret>> \in proved'
    BY DEF Same, WorkerMFA
  <1> QED BY <1>3, <1>4, <1>5 DEF WorkerMFA

LEMMA IdleMFA ==
    ASSUME Typed', NEW w \in Workers,
           pc'[w] \notin {"setting", "store", "write"}
    PROVE  WorkerMFA(w)'
  BY DEF Typed, WorkerOK, WorkerMFA

\* The worker that moves: what it read is checked, or was proved.
LEMMA BeginsMFA ==
    ASSUME Typed, Typed', MFAOK, Observe, NEW w \in Workers, Begins(w)
    PROVE  MFAOK'
  <1>0. TypeOK /\ proved \subseteq proved' /\ users' = users
    BY DEF Begins, Login, Refresh, SetupMFA, VerifyMFA, Update, ReadForUpdate,
           Typed, db
  <1>1. ASSUME NEW u \in Users, Login(w, u) PROVE WorkerMFA(w)'
    <2>1. /\ pc'[w] = "setting" /\ op'[w] = "login" /\ subject'[w] = u
          /\ row'[w] = users[u] /\ users[u] # NoRow
      BY <1>0, <1>1 DEF Login, Begin, Goto, TypeOK, Exists
    <2>2. row'[w].mfa => w \in lax'
      BY <2>1, LaxStays DEF Serving, Lax
    <2> QED BY <2>1, <2>2 DEF WorkerMFA, Typed, WorkerOK
  <1>2. ASSUME NEW i \in Ids, Refresh(w, i) PROVE WorkerMFA(w)'
    <2>1. pc'[w] = "rotate"
      BY <1>0, <1>2 DEF Refresh, Begin, Goto, TypeOK
    <2> QED BY <2>1, IdleMFA
  <1>3. ASSUME NEW u \in Users, NEW o, NEW new, ReadForUpdate(w, o, u, new),
               new.mfa => <<u, new.secret>> \in proved'
        PROVE  WorkerMFA(w)'
    <2>1. pc'[w] = "write" /\ subject'[w] = u /\ row'[w] = new
      BY <1>0, <1>3 DEF ReadForUpdate, Begin, Goto, TypeOK
    <2> QED BY <1>3, <2>1 DEF WorkerMFA, Typed, WorkerOK
  <1>4. ASSUME NEW u \in Users, SetupMFA(w, u) PROVE WorkerMFA(w)'
    BY <1>0, <1>3, <1>4, SetupRow DEF SetupMFA
  <1>5. ASSUME NEW u \in Users, VerifyMFA(w, u) PROVE WorkerMFA(w)'
    <2>1. <<u, [users[u] EXCEPT !.mfa = TRUE].secret>> \in proved'
      BY <1>0, <1>5, VerifyRow DEF VerifyMFA
    <2> QED BY <1>3, <1>5, <2>1 DEF VerifyMFA
  <1>6. ASSUME NEW u \in Users, NEW o \in Updates, Update(w, u, o)
        PROVE  WorkerMFA(w)'
    <2>1. users[u] \in Rows /\ passwords' \in 0..MaxPasswords /\ users[u] # NoRow
      BY <1>0, <1>6, UpdateRow, NoRowApart
    <2>2. /\ Updated(users[u], o, passwords').mfa = users[u].mfa
          /\ Updated(users[u], o, passwords').secret = users[u].secret
      BY <2>1, UpdatedRow
    <2>3. users[u].mfa => <<u, users[u].secret>> \in proved'
      BY <1>0, <2>1 DEF MFAOK, SecretWasProved, Exists
    <2> QED BY <1>3, <1>6, <2>2, <2>3 DEF Update
  <1>7. WorkerMFA(w)'
    BY <1>1, <1>2, <1>4, <1>5, <1>6 DEF Begins
  <1>8. \A v \in Workers : WorkerMFA(v)'
    BY <1>0, <1>7, BeginsMoves, SameKeepsMFA DEF MFAOK
  <1>9. SecretWasProved'
    BY <1>0 DEF MFAOK, SecretWasProved, Exists
  <1> QED BY <1>8, <1>9 DEF MFAOK

\* What the rows say follows from what was written.
LEMMA WriteMFA ==
    ASSUME Typed, MFAOK, NEW w \in Workers, UpdateUser(w)
    PROVE  SecretWasProved'
  <1>1. CASE Exists(subject[w])
    <2>1. /\ pc[w] = "write" /\ proved' = proved
          /\ users' = [users EXCEPT ![subject[w]] = row[w]]
      BY <1>1 DEF UpdateUser
    <2>2. row[w].mfa => <<subject[w], row[w].secret>> \in proved'
      BY <2>1 DEF MFAOK, WorkerMFA
    <2>3. ASSUME NEW u \in Users, Exists(u)', users'[u].mfa
          PROVE  <<u, users'[u].secret>> \in proved'
      <3>1. CASE u = subject[w]
        BY <2>1, <2>2, <2>3, <3>1 DEF Typed, TypeOK
      <3>2. CASE u # subject[w]
        BY <2>1, <2>3, <3>2 DEF Typed, TypeOK, MFAOK, SecretWasProved, Exists
      <3> QED BY <3>1, <3>2
    <2> QED BY <2>3 DEF SecretWasProved
  <1>2. CASE ~Exists(subject[w])
    BY <1>2 DEF UpdateUser, Refused, db, MFAOK, SecretWasProved, Exists
  <1> QED BY <1>1, <1>2

LEMMA SettingMFA ==
    ASSUME Typed, Typed', MFAOK, Observe, NEW w \in Workers, ReadMFASetting(w)
    PROVE  WorkerMFA(w)'
  <1>1. /\ pc[w] = "setting" /\ pc'[w] = "store" /\ Serving(w)'
        /\ subject'[w] = subject[w] /\ op' = op
    BY DEF ReadMFASetting, Goto, Typed, TypeOK, WorkerOK, Serving
  <1>2. CASE Entitled(row[w], mfaRequired)
    <2>1. ASSUME row[w].mfa PROVE w \in lax'
      BY <1>1, <2>1, LaxStays DEF MFAOK, WorkerMFA
    <2>2. ASSUME ~mfaRequired PROVE w \in lax'
      <3>1. Lax(users, mfaRequired, subject'[w])
        BY <2>2 DEF Lax
      <3> QED BY <1>1, <3>1, LaxStays
    <2>3. w \in lax'
      <3>1. row[w].mfa \in BOOLEAN /\ mfaRequired \in BOOLEAN
        BY <1>1 DEF Typed, TypeOK, WorkerOK, Rows
      <3>2. row[w].mfa \/ ~mfaRequired
        BY <1>2 DEF Entitled
      <3> QED BY <2>1, <2>2, <3>1, <3>2
    <2> QED BY <1>1, <2>3 DEF WorkerMFA
  <1>3. CASE ~Entitled(row[w], mfaRequired)
    <2>1. w \notin full' \ unread'
      BY <1>1, <1>3 DEF ReadMFASetting, Typed, WorkerOK
    <2> QED BY <1>1, <2>1 DEF WorkerMFA
  <1> QED BY <1>2, <1>3

LEMMA ReadUserMFA ==
    ASSUME Typed, Typed', MFAOK, Observe, NEW w \in Workers, RefreshReadUser(w),
           Exists(subject[w]), users[subject[w]].active
    PROVE  WorkerMFA(w)'
  <1>1. /\ pc'[w] = "setting" /\ Serving(w)' /\ subject'[w] = subject[w]
        /\ row'[w] = users[subject[w]] /\ users[subject[w]] # NoRow
    BY DEF RefreshReadUser, Goto, Typed, TypeOK, WorkerOK, Serving, Exists
  <1>2. row'[w].mfa => w \in lax'
    BY <1>1, LaxStays DEF Lax
  <1> QED BY <1>1, <1>2 DEF WorkerMFA, Typed, WorkerOK

LEMMA HandleMFA ==
    ASSUME Typed, Typed', MFAOK, Observe, NEW w \in Workers, Handle(w)
    PROVE  MFAOK'
  <1>1. CASE Begins(w)
    BY <1>1, BeginsMFA
  <1>2. CASE ~Begins(w)
    <2>1. proved \subseteq proved'
      BY <1>2 DEF Handle, Begins, RevokeRefreshToken, RefreshReadUser,
                  ReadMFASetting, CreateRefreshToken, UpdateUser,
                  RevokeAfterUpdate, RevokeUserRefreshTokens, Fail, Refused,
                  history
    <2>2. SecretWasProved'
      <3>1. CASE UpdateUser(w)
        BY <3>1, WriteMFA
      <3>2. CASE ~UpdateUser(w)
        <4>1. users' = users /\ proved' = proved
          BY <1>2, <3>2
          DEF Handle, Begins, RevokeRefreshToken, RefreshReadUser,
              ReadMFASetting, CreateRefreshToken, RevokeAfterUpdate,
              RevokeUserRefreshTokens, Fail, Refused, history, db
        <4> QED BY <4>1 DEF MFAOK, SecretWasProved, Exists
      <3> QED BY <3>1, <3>2
    <2>3. WorkerMFA(w)'
      <3>1. CASE Reset(w)
        BY <3>1, ReturnMoves, IdleMFA
      <3>2. CASE ReadMFASetting(w)
        BY <3>2, SettingMFA
      <3>3. CASE /\ RefreshReadUser(w)
                 /\ Exists(subject[w]) /\ users[subject[w]].active
        BY <3>3, ReadUserMFA
      <3>4. CASE Goto(w, "user") \/ Goto(w, "revoke_all")
        <4>1. pc'[w] \in {"user", "revoke_all"}
          BY <3>4 DEF Goto, Typed, TypeOK
        <4> QED BY <4>1, IdleMFA
      <3> QED BY <1>2, <3>1, <3>2, <3>3, <3>4
              DEF Handle, Begins, RevokeRefreshToken, RefreshReadUser,
                  CreateRefreshToken, UpdateUser, RevokeAfterUpdate, Fail,
                  Refused, Return
    <2> QED BY <2>1, <2>2, <2>3, HandleMoves, SameKeepsMFA DEF MFAOK
  <1> QED BY <1>1, <1>2

LEMMA NextMFA == ASSUME Typed, Typed', MFAOK, Next PROVE MFAOK'
  <1>1. CASE \E w \in Workers : Handle(w)
    BY <1>1, HandleMFA DEF Next
  <1>2. CASE (\E u \in Users : Logout(u) \/ DeleteUser(u)) \/ RequireMFA
    <2>1. /\ proved' = proved
          /\ \A u \in Users : users'[u] # NoRow => users'[u] = users[u]
      BY <1>2 DEF Logout, RevokeUserRefreshTokens, DeleteUser, RequireMFA,
                  history, Typed, TypeOK
    <2>2. SecretWasProved'
      BY <2>1 DEF MFAOK, SecretWasProved, Exists
    <2> QED BY <1>2, <2>1, <2>2, NoneMoves, SameKeepsMFA DEF MFAOK, Next
  <1> QED BY <1>1, <1>2 DEF Next

LEMMA StutterMFA == ASSUME MFAOK, UNCHANGED vars PROVE MFAOK'
  BY DEF MFAOK, SecretWasProved, WorkerMFA, Exists, vars, db, local, history

LEMMA InitMFA == ASSUME Init PROVE MFAOK
  BY DEF Init, MFAOK, SecretWasProved, WorkerMFA, NewUser

\* While MFA is required roles are signed only for a user seen with MFA on, or
\* checked before it was required, or whose login could not read the setting
\* (settings_policy.go:14 lets it pass); and MFA is on only with a secret its
\* owner has shown a code for, whatever overtakes what.
THEOREM MFAIsHeld == Spec => []MFAHolds
  <1>1. Typed /\ MFAOK /\ [Next]_vars => (Typed /\ MFAOK)'
    BY NextTyped, StutterTyped, NextMFA, StutterMFA
  <1>2. Typed /\ MFAOK => MFAHolds
    BY DEF Typed, TypeOK, MFAOK, WorkerMFA, MFAHolds, RolesNeedMFA
  <1> QED BY <1>1, <1>2, InitTyped, InitMFA, PTL DEF Spec

-----------------------------------------------------------------------------
(* What was ended stays ended *)

Waiting(w) == Serving(w) /\ pc[w] \in {"setting", "store"}

\* Where what a login left behind comes from, in any step.
TracesFrom == \A f \in Families, u \in Users : Trace(f, u)' => Trace(f, u)

TokensFrom ==
    \A i \in Ids : Live(i)' =>
        \/ /\ Live(i) /\ family'[i] = family[i]
           /\ tokens'[i].user = tokens[i].user
        \/ \E w \in Workers : /\ Waiting(w) /\ family'[i] = chain[w]
                              /\ tokens'[i].user = subject[w]

PastFrom ==
    \A v \in Workers : Past(v)' => \/ Past(v) /\ chain'[v] = chain[v]
                                   \/ chain'[v] \notin Begun
                                   \/ \E i \in Ids : Live(i) /\ family[i] = chain'[v]

WaitingFrom ==
    \A v \in Workers : Waiting(v)' /\ Inactive(subject[v])' =>
        Waiting(v) /\ chain'[v] = chain[v] /\ subject'[v] = subject[v]

InactiveFrom ==
    \A u \in Users : Inactive(u)' /\ ~Excused(u)' => Inactive(u) /\ ~Excused(u)

Over == OneOwner /\ LeftIsSpared /\ InactiveIsSpared

LEMMA WaitingIsPast == \A w \in Workers : Waiting(w) => Past(w)
  BY DEF Waiting, Past, PastRotation

LEMMA OwnerStep ==
    ASSUME Typed, OneOwner, TracesFrom, Begun' = Begun
    PROVE  OneOwner'
  <1>1. Begun \subseteq Families
    BY BoundsType DEF Begun, Families, Typed, TypeOK
  <1> QED BY <1>1 DEF TracesFrom, OneOwner

LEMMA LeftStep ==
    ASSUME Typed, LeftIsSpared, TokensFrom, PastFrom,
           ended' = ended, spared' = spared
    PROVE  LeftIsSpared'
  <1>1. ASSUME NEW i \in Ids, Live(i)', family'[i] \in ended
        PROVE  family'[i] \in spared
    <2>1. CASE Live(i) /\ family'[i] = family[i]
      BY <1>1, <2>1 DEF LeftIsSpared, EndedStaysEnded
    <2>2. ASSUME NEW w \in Workers, Waiting(w), family'[i] = chain[w]
          PROVE  family'[i] \in spared
      BY <1>1, <2>2, WaitingIsPast DEF LeftIsSpared
    <2> QED BY <1>1, <2>1, <2>2 DEF TokensFrom
  <1>2. ASSUME NEW v \in Workers, Past(v)', chain'[v] \in ended
        PROVE  chain'[v] \in spared
    <2>1. CASE Past(v) /\ chain'[v] = chain[v]
      BY <1>2, <2>1 DEF LeftIsSpared
    <2>2. CASE chain'[v] \notin Begun
      BY <1>2, <2>2 DEF Typed
    <2>3. ASSUME NEW i \in Ids, Live(i), family[i] = chain'[v]
          PROVE  chain'[v] \in spared
      BY <1>2, <2>3 DEF LeftIsSpared, EndedStaysEnded
    <2> QED BY <1>2, <2>1, <2>2, <2>3 DEF PastFrom
  <1>3. EndedStaysEnded'
    BY <1>1 DEF EndedStaysEnded
  <1> QED BY <1>2, <1>3 DEF LeftIsSpared

LEMMA InactiveStep ==
    ASSUME Typed, InactiveIsSpared, TokensFrom, WaitingFrom, InactiveFrom,
           spared' = spared
    PROVE  InactiveIsSpared'
  <1> SUFFICES ASSUME NEW u \in Users, Inactive(u)', ~Excused(u)'
               PROVE  /\ \A i \in Ids : Live(i)' /\ tokens'[i].user = u
                                        => family'[i] \in spared
                      /\ \A v \in Workers : Waiting(v)' /\ subject'[v] = u
                                            => chain'[v] \in spared
    BY DEF InactiveIsSpared, Waiting
  <1>1. /\ \A i \in Ids : Live(i) /\ tokens[i].user = u => family[i] \in spared
        /\ \A v \in Workers : Waiting(v) /\ subject[v] = u
                              => chain[v] \in spared
    BY DEF InactiveFrom, InactiveIsSpared, Waiting
  <1>2. ASSUME NEW i \in Ids, Live(i)', tokens'[i].user = u
        PROVE  family'[i] \in spared
    BY <1>1, <1>2 DEF TokensFrom
  <1>3. ASSUME NEW v \in Workers, Waiting(v)', subject'[v] = u
        PROVE  chain'[v] \in spared
    BY <1>1, <1>3 DEF WaitingFrom
  <1> QED BY <1>2, <1>3

\* The steps that revoke nothing keep it together.
LEMMA QuietStep ==
    ASSUME Typed, Over, TracesFrom, TokensFrom, PastFrom, WaitingFrom,
           InactiveFrom, Begun' = Begun, ended' = ended, spared' = spared
    PROVE  Over'
  BY OwnerStep, LeftStep, InactiveStep DEF Over

LEMMA OneWorker ==
    ASSUME Typed, NEW w \in Workers, \A v \in Workers \ {w} : Same(v),
           UNCHANGED <<tokens, family>>,
           Serving(w)' => /\ Serving(w) /\ chain'[w] = chain[w]
                          /\ subject'[w] = subject[w],
           Past(w)' => Past(w),
           Waiting(w)' /\ Inactive(subject[w])' => Waiting(w)
    PROVE  TracesFrom /\ TokensFrom /\ PastFrom /\ WaitingFrom
  <1>1. TokensFrom
    BY DEF TokensFrom, Live
  <1>2. ASSUME NEW v \in Workers, Serving(v)'
        PROVE  Serving(v) /\ chain'[v] = chain[v] /\ subject'[v] = subject[v]
    BY <1>2 DEF Same, Serving
  <1>3. TracesFrom
    BY <1>2 DEF TracesFrom, Trace
  <1>4. PastFrom
    BY <1>2 DEF PastFrom, Past, PastRotation, Same, Serving
  <1>5. WaitingFrom
    BY <1>2 DEF WaitingFrom, Waiting, Same, Serving
  <1> QED BY <1>1, <1>3, <1>4, <1>5

\* Nobody becomes inactive, and no excuse is lost.
LEMMA ExcuseKept ==
    ASSUME \A u \in Users : users'[u] = NoRow \/ users'[u] = users[u],
           lost \subseteq lost',
           \A v \in Workers : pc[v] = "revoke_all" =>
              \/ pc'[v] = "revoke_all" /\ subject'[v] = subject[v]
              \/ subject[v] \in lost'
    PROVE  InactiveFrom
  BY DEF InactiveFrom, Inactive, Excused, Exists

LEMMA RefusesOver ==
    ASSUME Typed, Over, NEW w \in Workers,
           \/ Fail(w)
           \/ Refused(w) /\ pc[w] # "revoke_all"
    PROVE  Over'
  <1>1. /\ Reset(w) /\ lost \subseteq lost'
        /\ UNCHANGED <<users, tokens, logins, family, ended, spared>>
        /\ pc[w] = "revoke_all" => subject[w] \in lost'
    BY DEF Fail, Refused, Return, db, counters
  <1>2. \A v \in Workers \ {w} : Same(v)
    BY <1>1, ReturnMoves
  <1>3. ~Serving(w)' /\ ~Past(w)' /\ ~Waiting(w)'
    BY <1>1, ResetTyped DEF Serving, Past, Waiting
  <1>4. TracesFrom /\ TokensFrom /\ PastFrom /\ WaitingFrom
    BY <1>1, <1>2, <1>3, OneWorker
  <1>5. InactiveFrom
    BY <1>1, <1>2, ExcuseKept DEF Same
  <1>6. Begun' = Begun
    BY <1>1 DEF Begun
  <1> QED BY <1>1, <1>4, <1>5, <1>6, QuietStep

LEMMA ReadForUpdateOver ==
    ASSUME Typed, Over, NEW w \in Workers, NEW u \in Users,
           NEW o \in {"setup", "verify"} \union Updates, NEW new,
           ReadForUpdate(w, o, u, new), \A v \in Workers \ {w} : Same(v)
    PROVE  Over'
  <1>1. /\ UNCHANGED <<users, tokens, logins, family, ended, spared, lost>>
        /\ pc[w] = "idle"
    BY DEF ReadForUpdate, Begin, db
  <1>2. op'[w] = o /\ o \notin {"login", "refresh"}
    BY DEF ReadForUpdate, Begin, Typed, TypeOK, Updates
  <1>3. ~Serving(w)' /\ ~Past(w)' /\ ~Waiting(w)'
    BY <1>2 DEF Serving, Past, Waiting
  <1>4. TracesFrom /\ TokensFrom /\ PastFrom /\ WaitingFrom
    BY <1>1, <1>3, OneWorker
  <1>5. InactiveFrom
    BY <1>1, ExcuseKept DEF Same
  <1>6. Begun' = Begun
    BY <1>1 DEF Begun
  <1> QED BY <1>1, <1>4, <1>5, <1>6, QuietStep

\* A login that begins has left no trace, and its user is active.
LEMMA LoginOver ==
    ASSUME Typed, Over, NEW w \in Workers, NEW u \in Users, Login(w, u)
    PROVE  Over'
  <1>1. /\ UNCHANGED <<users, tokens, family, ended, spared, lost>>
        /\ pc[w] = "idle" /\ op'[w] = "login" /\ subject'[w] = u
        /\ chain'[w] = logins + 1 /\ logins' = logins + 1
        /\ Exists(u) /\ users[u].active
    BY DEF Login, Begin, db, Typed, TypeOK
  <1>2. \A v \in Workers \ {w} : Same(v)
    BY BeginsMoves DEF Begins
  <1>3. TokensFrom
    BY <1>1 DEF TokensFrom, Live
  <1>4. logins \in Nat
    BY BoundsType DEF Typed, TypeOK
  <1>5. PastFrom
    BY <1>1, <1>2, <1>4 DEF PastFrom, Past, PastRotation, Same, Begun, Serving
  <1>6. WaitingFrom
    BY <1>1, <1>2 DEF WaitingFrom, Waiting, Same, Serving, Inactive, Exists
  <1>7. InactiveFrom
    BY <1>1, <1>2, ExcuseKept DEF Same
  <1>8. ASSUME NEW f \in Begun', NEW x \in Users, Trace(f, x)'
        PROVE  IF f \in Begun THEN Trace(f, x) ELSE x = u
    <2>1. ASSUME NEW i \in Ids, tokens[i] # NoRow, family[i] = f,
                 tokens[i].user = x
          PROVE  f \in Begun /\ Trace(f, x)
      BY <2>1 DEF Typed, TokenOK, Trace
    <2>2. ASSUME NEW v \in Workers \ {w}, Serving(v), chain[v] = f,
                 subject[v] = x
          PROVE  f \in Begun /\ Trace(f, x)
      BY <2>2 DEF Typed, WorkerOK, Trace
    <2>3. CASE chain'[w] = f /\ subject'[w] = x
      BY <1>1, <1>4, <2>3 DEF Begun
    <2> QED BY <1>1, <1>2, <1>8, <2>1, <2>2, <2>3 DEF Trace, Same, Serving
  <1>9. OneOwner'
    BY <1>8 DEF OneOwner, Over
  <1> QED BY <1>1, <1>3, <1>5, <1>6, <1>7, <1>9, LeftStep, InactiveStep
          DEF Over

LEMMA RefreshOver ==
    ASSUME Typed, Over, NEW w \in Workers, NEW i \in Ids, Refresh(w, i)
    PROVE  Over'
  <1>1. /\ UNCHANGED <<users, tokens, logins, family, ended, spared, lost>>
        /\ pc[w] = "idle" /\ pc'[w] = "rotate" /\ subject'[w] = tokens[i].user
        /\ chain'[w] = family[i] /\ tokens[i] # NoRow
    BY DEF Refresh, Begin, Goto, Live, db, counters, Typed, TypeOK
  <1>2. \A v \in Workers \ {w} : Same(v)
    BY BeginsMoves DEF Begins
  <1>3. TokensFrom
    BY <1>1 DEF TokensFrom, Live
  <1>4. TracesFrom
    BY <1>1, <1>2 DEF TracesFrom, Trace, Same, Serving
  <1>5. PastFrom
    BY <1>1, <1>2 DEF PastFrom, Past, PastRotation, Same, Serving
  <1>6. WaitingFrom
    BY <1>1, <1>2 DEF WaitingFrom, Waiting, Same, Serving
  <1>7. InactiveFrom
    BY <1>1, <1>2, ExcuseKept DEF Same
  <1>8. Begun' = Begun
    BY <1>1 DEF Begun
  <1> QED BY <1>1, <1>3, <1>4, <1>5, <1>6, <1>7, <1>8, QuietStep

\* The token that is exchanged is live: its login, if ended, was spared.
LEMMA RotateOver ==
    ASSUME Typed, Over, NEW w \in Workers, RevokeRefreshToken(w),
           \A v \in Workers \ {w} : Same(v), Revocable(presented[w])
    PROVE  Over'
  <1> DEFINE i == presented[w]
  <1>1. /\ pc[w] = "rotate" /\ pc'[w] = "user"
        /\ tokens' = [tokens EXCEPT ![i].revoked = TRUE]
        /\ UNCHANGED <<users, logins, op, subject, family, chain, ended,
                       spared, lost>>
    BY DEF RevokeRefreshToken, Refused, Return, Reset, Revocable, Goto,
           counters, Typed, TypeOK
  <1>2. i \in Ids /\ chain[w] = family[i] /\ Live(i) /\ tokens[i] \in Tokens
    BY <1>1 DEF Typed, TypeOK, RotatesOwn, Revocable, Live
  <1> HIDE DEF i
  <1>3. ASSUME NEW j \in Ids
        PROVE  /\ tokens'[j] # NoRow => /\ tokens[j] # NoRow
                                        /\ tokens'[j].user = tokens[j].user
               /\ Live(j)' => Live(j)
    <2>1. CASE j = i
      BY <1>1, <1>2, <2>1 DEF Typed, TypeOK, Tokens, Live
    <2>2. CASE j # i
      BY <1>1, <2>2 DEF Typed, TypeOK, Live
    <2> QED BY <2>1, <2>2
  <1>4. TokensFrom
    BY <1>1, <1>3 DEF TokensFrom, Live
  <1>5. TracesFrom
    BY <1>1, <1>3 DEF TracesFrom, Trace, Serving
  <1>6. PastFrom
    BY <1>1, <1>2 DEF PastFrom, Past, PastRotation, Same, Serving
  <1>7. WaitingFrom
    BY <1>1 DEF WaitingFrom, Waiting, Same, Serving
  <1>8. InactiveFrom
    BY <1>1, ExcuseKept DEF Same
  <1>9. Begun' = Begun
    BY <1>1 DEF Begun
  <1> QED BY <1>1, <1>4, <1>5, <1>6, <1>7, <1>8, <1>9, QuietStep

LEMMA ReadUserOver ==
    ASSUME Typed, Over, NEW w \in Workers, RefreshReadUser(w),
           \A v \in Workers \ {w} : Same(v),
           Exists(subject[w]), users[subject[w]].active
    PROVE  Over'
  <1>1. /\ pc[w] = "user"
        /\ UNCHANGED <<users, tokens, logins, op, subject, family, chain,
                       ended, spared, lost>>
    BY DEF RefreshReadUser, db, counters, history
  <1>2. Serving(w) /\ Past(w)
    BY <1>1 DEF Typed, WorkerOK, Past, PastRotation
  <1>3. ~Inactive(subject[w])'
    BY <1>1 DEF Inactive, Exists
  <1>4. TracesFrom /\ TokensFrom /\ PastFrom /\ WaitingFrom
    BY <1>1, <1>2, <1>3, OneWorker DEF Serving
  <1>5. InactiveFrom
    BY <1>1, ExcuseKept DEF Same
  <1>6. Begun' = Begun
    BY <1>1 DEF Begun
  <1> QED BY <1>1, <1>4, <1>5, <1>6, QuietStep

LEMMA SettingOver ==
    ASSUME Typed, Over, NEW w \in Workers, ReadMFASetting(w),
           \A v \in Workers \ {w} : Same(v)
    PROVE  Over'
  <1>1. /\ pc[w] = "setting"
        /\ UNCHANGED <<users, tokens, logins, op, subject, family, chain,
                       ended, spared, lost>>
    BY DEF ReadMFASetting, db, counters, history
  <1>2. Serving(w) /\ Past(w) /\ Waiting(w)
    BY <1>1 DEF Typed, WorkerOK, Past, PastRotation, Waiting
  <1>3. TracesFrom /\ TokensFrom /\ PastFrom /\ WaitingFrom
    BY <1>1, <1>2, OneWorker DEF Serving
  <1>4. InactiveFrom
    BY <1>1, ExcuseKept DEF Same
  <1>5. Begun' = Begun
    BY <1>1 DEF Begun
  <1> QED BY <1>1, <1>3, <1>4, <1>5, QuietStep

\* The new token descends from a worker that waited to store it.
LEMMA StoreOver ==
    ASSUME Typed, Over, NEW w \in Workers, CreateRefreshToken(w),
           \A v \in Workers \ {w} : Same(v), Exists(subject[w])
    PROVE  Over'
  <1> DEFINE new == issued + 1
             token == [user |-> subject[w], revoked |-> FALSE]
  <1>1. /\ pc[w] = "store" /\ issued < MaxTokens /\ Reset(w)
        /\ tokens' = [tokens EXCEPT ![new] = token]
        /\ family' = [family EXCEPT ![new] = chain[w]]
        /\ UNCHANGED <<users, logins, ended, spared, lost>>
    BY DEF CreateRefreshToken, Return, counters
  <1>2. issued \in 0..MaxTokens
    BY DEF Typed, TypeOK
  <1>3. new \in Ids
    BY <1>1, <1>2, BoundsType DEF Ids
  <1>4. token.user = subject[w]
    OBVIOUS
  <1>5. Serving(w) /\ Waiting(w)
    BY <1>1 DEF Typed, WorkerOK, Waiting
  <1>6. ~Serving(w)' /\ ~Past(w)' /\ ~Waiting(w)'
    BY <1>1, ResetTyped DEF Serving, Past, Waiting
  <1> HIDE DEF new, token
  <1>7. ASSUME NEW j \in Ids
        PROVE  \/ j = new /\ tokens'[j].user = subject[w] /\ family'[j] = chain[w]
               \/ j # new /\ tokens'[j] = tokens[j] /\ family'[j] = family[j]
    BY <1>1, <1>3, <1>4 DEF Typed, TypeOK
  <1>8. TokensFrom
    BY <1>5, <1>7 DEF TokensFrom, Live
  <1>9. TracesFrom
    BY <1>5, <1>6, <1>7 DEF TracesFrom, Trace, Same, Serving
  <1>10. PastFrom
    BY <1>6 DEF PastFrom, Past, PastRotation, Same, Serving
  <1>11. WaitingFrom
    BY <1>6 DEF WaitingFrom, Waiting, Same, Serving
  <1>12. InactiveFrom
    BY <1>1, ExcuseKept DEF Same
  <1>13. Begun' = Begun
    BY <1>1 DEF Begun
  <1> QED BY <1>1, <1>8, <1>9, <1>10, <1>11, <1>12, <1>13, QuietStep

\* A row switched off is followed by the revocation, or the user is lost.
LEMMA WriteOver ==
    ASSUME Typed, Over, NEW w \in Workers, UpdateUser(w),
           \A v \in Workers \ {w} : Same(v), Exists(subject[w])
    PROVE  Over'
  <1> DEFINE u == subject[w]
  <1>1. /\ pc[w] = "write"
        /\ users' = [users EXCEPT ![u] = row[w]]
        /\ UNCHANGED <<tokens, logins, family, ended, spared>>
        /\ lost \subseteq lost'
        /\ users[u].active /\ ~row[w].active /\ op[w] # "deactivate" => u \in lost'
    BY DEF UpdateUser, counters
  <1>2. op[w] = "deactivate" => pc'[w] = "revoke_all" /\ subject'[w] = subject[w]
    BY DEF UpdateUser, AfterWrite, Goto, Typed, TypeOK
  <1>3. op'[w] \in {op[w], "none"}
    BY ResetTyped DEF UpdateUser
  <1>4. ~Serving(w)' /\ ~Past(w)' /\ ~Waiting(w)'
    BY <1>1, <1>3 DEF Serving, Past, Waiting, Typed, WorkerOK
  <1>5. TracesFrom /\ TokensFrom /\ PastFrom /\ WaitingFrom
    BY <1>1, <1>4, OneWorker
  <1>6. u \in Users /\ row[w] \in Rows
    BY <1>1 DEF Typed, WorkerOK
  <1>7. ASSUME NEW x \in Users, Inactive(x)', ~Excused(x)'
        PROVE  Inactive(x) /\ ~Excused(x)
    <2>1. ~Excused(x)
      BY <1>1, <1>7 DEF Excused, Same
    <2>2. CASE x = u
      <3>1. ~row[w].active /\ users[u].active \in BOOLEAN
        BY <1>1, <1>6, <1>7, <2>2 DEF Inactive, Typed, TypeOK, Rows, Exists
      <3>2. u \notin lost' /\ op[w] # "deactivate"
        BY <1>2, <1>7, <2>2 DEF Excused
      <3> QED BY <1>1, <2>1, <2>2, <3>1, <3>2 DEF Inactive
    <2>3. CASE x # u
      BY <1>1, <1>7, <2>1, <2>3 DEF Inactive, Exists, Typed, TypeOK
    <2> QED BY <2>2, <2>3
  <1>8. InactiveFrom
    BY <1>7 DEF InactiveFrom
  <1>9. Begun' = Begun
    BY <1>1 DEF Begun
  <1> QED BY <1>1, <1>5, <1>8, <1>9, QuietStep

LEMMA TablesOver ==
    ASSUME Typed, Over, (\E u \in Users : DeleteUser(u)) \/ RequireMFA
    PROVE  Over'
  <1>1. /\ UNCHANGED <<logins, family, ended, spared, lost>>
        /\ \A u \in Users : users'[u] = NoRow \/ users'[u] = users[u]
        /\ \A i \in Ids : tokens'[i] = NoRow \/ tokens'[i] = tokens[i]
    BY DEF DeleteUser, RequireMFA, counters, history, Typed, TypeOK
  <1>2. \A v \in Workers : Same(v)
    BY NoneMoves
  <1>3. TokensFrom
    BY <1>1 DEF TokensFrom, Live
  <1>4. TracesFrom
    BY <1>1, <1>2 DEF TracesFrom, Trace, Same, Serving
  <1>5. PastFrom /\ WaitingFrom
    BY <1>2
       DEF PastFrom, WaitingFrom, Past, PastRotation, Waiting, Same, Serving
  <1>6. InactiveFrom
    BY <1>1, <1>2, ExcuseKept DEF Same
  <1>7. Begun' = Begun
    BY <1>1 DEF Begun
  <1> QED BY <1>1, <1>3, <1>4, <1>5, <1>6, <1>7, QuietStep

\* Revoking all of a user's tokens: other users share no login with u, and
\* of u nothing is left but what was past its checks.
LEMMA RevokeAllOver ==
    ASSUME Typed, Over, NEW u \in Users, RevokeUserRefreshTokens(u),
           \A v \in Workers : /\ Serving(v)' => Same(v)
                              /\ pc[v] = "revoke_all" =>
                                    Same(v) \/ subject[v] = u
    PROVE  Over'
  <1>1. UNCHANGED <<users, logins, family, lost>>
    BY DEF RevokeUserRefreshTokens, counters
  <1>2. ASSUME NEW i \in Ids, Live(i)'
        PROVE  Live(i) /\ tokens[i].user # u /\ tokens'[i].user = tokens[i].user
    BY <1>2, RevokeAllTyped
    DEF RevokeUserRefreshTokens, Live, LiveOf, Typed, TypeOK, Tokens
  <1>3. ASSUME NEW f \in ended', f \notin ended
        PROVE  f \in Begun /\ Trace(f, u)
    <2>1. ASSUME NEW i \in LiveOf(u), f = family[i] PROVE Trace(f, u)
      BY <2>1 DEF LiveOf, Live, Trace
    <2>2. ASSUME NEW v \in Workers, subject[v] = u, Serving(v), f = chain[v]
          PROVE  Trace(f, u)
      BY <2>2 DEF Trace
    <2>3. Trace(f, u)
      BY <1>3, <2>1, <2>2 DEF RevokeUserRefreshTokens, Serving
    <2> QED BY <1>1, <1>3, <2>3, RevokeAllTyped
  <1>4. /\ spared \subseteq spared'
        /\ \A v \in Workers : Past(v) /\ subject[v] = u => chain[v] \in spared'
    BY DEF RevokeUserRefreshTokens, Past, Serving
  <1>5. ASSUME NEW i \in Ids, Live(i)', family'[i] \in ended'
        PROVE  family'[i] \in spared'
    <2>1. CASE family[i] \in ended
      BY <1>1, <1>2, <1>4, <1>5, <2>1 DEF Over, LeftIsSpared, EndedStaysEnded
    <2>2. CASE family[i] \notin ended
      <3>1. family[i] \in Begun /\ Trace(family[i], u)
        BY <1>1, <1>3, <1>5, <2>2
      <3>2. Trace(family[i], tokens[i].user) /\ tokens[i].user \in Users
        BY <1>2, <1>5 DEF Trace, Live, Typed, TypeOK, Tokens
      <3> QED BY <1>2, <1>5, <3>1, <3>2 DEF Over, OneOwner
    <2> QED BY <2>1, <2>2
  <1>6. ASSUME NEW v \in Workers, Past(v)', chain'[v] \in ended'
        PROVE  chain'[v] \in spared'
    <2>1. /\ Past(v) /\ chain'[v] = chain[v] /\ Serving(v)
          /\ subject[v] \in Users
      BY <1>6 DEF Past, PastRotation, Same, Serving, Typed, WorkerOK
    <2>2. CASE chain[v] \in ended
      BY <1>4, <2>1, <2>2 DEF Over, LeftIsSpared
    <2>3. CASE chain[v] \notin ended
      <3>1. chain[v] \in Begun /\ Trace(chain[v], u)
        BY <1>3, <1>6, <2>1, <2>3
      <3>2. Trace(chain[v], subject[v])
        BY <2>1 DEF Trace
      <3>3. subject[v] = u
        BY <2>1, <3>1, <3>2 DEF Over, OneOwner
      <3> QED BY <1>4, <2>1, <3>3
    <2> QED BY <2>2, <2>3
  <1>7. LeftIsSpared'
    BY <1>5, <1>6 DEF LeftIsSpared, EndedStaysEnded
  <1>8. TracesFrom
    BY <1>1, RevokeAllTyped DEF TracesFrom, Trace, Same, Serving
  <1>9. OneOwner'
    BY <1>1, <1>8, OwnerStep DEF Over, Begun
  <1>10. ASSUME NEW x \in Users, Inactive(x)', ~Excused(x)'
         PROVE  /\ \A i \in Ids : Live(i)' /\ tokens'[i].user = x
                                  => family'[i] \in spared'
                /\ \A v \in Workers : Waiting(v)' /\ subject'[v] = x
                                      => chain'[v] \in spared'
    <2>1. ASSUME NEW v \in Workers, Waiting(v)', subject'[v] = x
          PROVE  Waiting(v) /\ chain'[v] = chain[v] /\ subject[v] = x
      BY <2>1 DEF Waiting, Same, Serving
    <2>2. CASE x = u
      BY <1>2, <1>4, <2>1, <2>2, WaitingIsPast
    <2>3. CASE x # u
      <3>1. Inactive(x) /\ ~Excused(x)
        BY <1>1, <1>10, <2>3 DEF Inactive, Exists, Excused, Same
      <3> QED BY <1>1, <1>2, <1>4, <2>1, <3>1
              DEF Over, InactiveIsSpared, Waiting
    <2> QED BY <2>2, <2>3
  <1>11. InactiveIsSpared'
    BY <1>10 DEF InactiveIsSpared, Waiting
  <1> QED BY <1>7, <1>9, <1>11 DEF Over

LEMMA HandleOver ==
    ASSUME Typed, Over, NEW w \in Workers, Handle(w)
    PROVE  Over'
  <1>0. \A v \in Workers \ {w} : Same(v)
    BY HandleMoves
  <1>1. CASE RevokeRefreshToken(w)
    BY <1>0, <1>1, RotateOver, RefusesOver DEF RevokeRefreshToken
  <1>2. CASE RefreshReadUser(w)
    BY <1>0, <1>2, ReadUserOver, RefusesOver DEF RefreshReadUser
  <1>3. CASE CreateRefreshToken(w)
    BY <1>0, <1>3, StoreOver, RefusesOver DEF CreateRefreshToken
  <1>4. CASE UpdateUser(w)
    BY <1>0, <1>4, WriteOver, RefusesOver DEF UpdateUser
  <1>5. CASE RevokeAfterUpdate(w)
    <2>1. /\ RevokeUserRefreshTokens(subject[w]) /\ subject[w] \in Users
          /\ Reset(w)
      BY <1>5 DEF RevokeAfterUpdate, Return, Typed, WorkerOK
    <2>2. ~Serving(w)'
      BY <2>1, ResetTyped DEF Serving
    <2> QED BY <1>0, <2>1, <2>2, RevokeAllOver
  <1>6. ASSUME NEW u \in Users, NEW o \in Updates,
               SetupMFA(w, u) \/ VerifyMFA(w, u) \/ Update(w, u, o)
        PROVE  Over'
    BY <1>0, <1>6, ReadForUpdateOver DEF SetupMFA, VerifyMFA, Update
  <1>7. "password" \in Updates
    BY DEF Updates
  <1> QED BY <1>0, <1>1, <1>2, <1>3, <1>4, <1>5, <1>6, <1>7, LoginOver,
             RefreshOver, SettingOver, RefusesOver DEF Handle

LEMMA NextOver == ASSUME Typed, Over, Next PROVE Over'
  <1>1. ASSUME NEW u \in Users, Logout(u) PROVE Over'
    BY <1>1, NoneMoves, RevokeAllOver DEF Logout
  <1> QED BY <1>1, HandleOver, TablesOver DEF Next

LEMMA StutterOver == ASSUME Over, UNCHANGED vars PROVE Over'
  <1>1. OneOwner'
    BY DEF Over, OneOwner, Trace, Serving, Begun, vars, db, local, counters,
           history
  <1>2. LeftIsSpared'
    BY DEF Over, LeftIsSpared, EndedStaysEnded, Past, PastRotation, Serving,
           Live, vars, db, local, history
  <1>3. InactiveIsSpared'
    BY DEF Over, InactiveIsSpared, Inactive, Excused, Exists, Serving, Live,
           vars, db, local, history
  <1> QED BY <1>1, <1>2, <1>3 DEF Over

LEMMA InitOver == ASSUME Init PROVE Over
  BY DEF Init, Over, OneOwner, Trace, LeftIsSpared, EndedStaysEnded, Past,
         PastRotation, Serving, Live, InactiveIsSpared, Inactive, Exists, NewUser

\* What logout and deactivation end never holds a live token again, and a
\* deactivated user holds none, but for the requests past their checks just
\* then and the deactivations that were themselves cut short or overtaken.
THEOREM EndedForGood == Spec => []EndedIsOver
  <1>1. Typed /\ Over /\ [Next]_vars => (Typed /\ Over)'
    BY NextTyped, StutterTyped, NextOver, StutterOver
  <1>2. Typed /\ Over => EndedIsOver
    <2>1. ASSUME Typed, Over, NEW u \in Users, Inactive(u), ~Excused(u)
          PROVE  \A i \in LiveOf(u) : family[i] \in spared
      BY <2>1 DEF Over, InactiveIsSpared, LiveOf
    <2> QED BY <2>1 DEF Over, LeftIsSpared, EndedIsOver, InactiveHoldsNothing,
                        Inactive, Excused
  <1> QED BY <1>1, <1>2, InitTyped, InitOver, PTL DEF Spec

-----------------------------------------------------------------------------
(* Only an overtaken update undoes another *)

Columns == {"active", "mfa", "secret", "password"}

\* A row that is about to be written, and was not overtaken, differs from the
\* stored one in the column it is about only.
Fresh(w) ==
    pc[w] = "write" /\ w \notin stale /\ Exists(subject[w]) =>
        \A f \in Columns \ Meant(op[w]) : row[w][f] = users[subject[w]][f]
AllFresh == \A w \in Workers : Fresh(w)

LEMMA MeantColumns ==
    /\ Meant("setup") = {"secret"} /\ Meant("verify") = {"mfa"}
    /\ Meant("activate") = {"active"} /\ Meant("deactivate") = {"active"}
    /\ Meant("password") = {"password"}
  BY DEF Meant

LEMMA UpdatedColumns ==
    ASSUME NEW user \in Rows, NEW o \in Updates, NEW new,
           NEW f \in Columns \ Meant(o)
    PROVE  Updated(user, o, new)[f] = user[f]
  <1>1. CASE o = "activate"
    <2>1. Updated(user, o, new) = [user EXCEPT !.active = TRUE] /\ f # "active"
      BY <1>1, MeantColumns DEF Updated
    <2> QED BY <2>1 DEF Rows, Columns
  <1>2. CASE o = "deactivate"
    <2>1. Updated(user, o, new) = [user EXCEPT !.active = FALSE] /\ f # "active"
      BY <1>2, MeantColumns DEF Updated
    <2> QED BY <2>1 DEF Rows, Columns
  <1>3. CASE o = "password"
    <2>1. /\ Updated(user, o, new) = [user EXCEPT !.password = new]
          /\ f # "password"
      BY <1>3, MeantColumns DEF Updated
    <2> QED BY <2>1 DEF Rows, Columns
  <1> QED BY <1>1, <1>2, <1>3 DEF Updates

LEMMA BeginsFresh ==
    ASSUME Typed, AllFresh, NEW w \in Workers, Begins(w)
    PROVE  AllFresh'
  <1>0. TypeOK /\ users' = users /\ stale' = stale
    BY DEF Begins, Login, Refresh, SetupMFA, VerifyMFA, Update, ReadForUpdate,
           Begin, Typed, db
  <1>1. ASSUME NEW u \in Users, NEW o, NEW new, ReadForUpdate(w, o, u, new),
               \A f \in Columns \ Meant(o) : new[f] = users[u][f]
        PROVE  Fresh(w)'
    <2>1. subject'[w] = u /\ row'[w] = new /\ op'[w] = o
      BY <1>0, <1>1 DEF ReadForUpdate, Begin, TypeOK
    <2> QED BY <1>0, <1>1, <2>1 DEF Fresh
  <1>2. ASSUME NEW u \in Users, Login(w, u) PROVE Fresh(w)'
    BY <1>0, <1>2 DEF Login, Begin, Goto, TypeOK, Fresh
  <1>3. ASSUME NEW i \in Ids, Refresh(w, i) PROVE Fresh(w)'
    BY <1>0, <1>3 DEF Refresh, Begin, Goto, TypeOK, Fresh
  <1>4. ASSUME NEW u \in Users, SetupMFA(w, u) PROVE Fresh(w)'
    <2>1. users[u] \in Rows
      BY <1>0, <1>4 DEF SetupMFA, Exists, TypeOK
    <2>2. \A f \in Columns \ Meant("setup") :
             [users[u] EXCEPT !.secret = setups + 1][f] = users[u][f]
      BY <2>1, MeantColumns DEF Rows, Columns
    <2> QED BY <1>1, <1>4, <2>2 DEF SetupMFA
  <1>5. ASSUME NEW u \in Users, VerifyMFA(w, u) PROVE Fresh(w)'
    <2>1. users[u] \in Rows
      BY <1>0, <1>5 DEF VerifyMFA, Exists, TypeOK
    <2>2. \A f \in Columns \ Meant("verify") :
             [users[u] EXCEPT !.mfa = TRUE][f] = users[u][f]
      BY <2>1, MeantColumns DEF Rows, Columns
    <2> QED BY <1>1, <1>5, <2>2 DEF VerifyMFA
  <1>6. ASSUME NEW u \in Users, NEW o \in Updates, Update(w, u, o)
        PROVE  Fresh(w)'
    <2>1. users[u] \in Rows
      BY <1>0, <1>6 DEF Update, Exists, TypeOK
    <2>2. \A f \in Columns \ Meant(o) :
             Updated(users[u], o, passwords')[f] = users[u][f]
      BY <2>1, UpdatedColumns
    <2> QED BY <1>1, <1>6, <2>2 DEF Update
  <1>7. Fresh(w)'
    BY <1>2, <1>3, <1>4, <1>5, <1>6 DEF Begins
  <1>8. ASSUME NEW v \in Workers \ {w} PROVE Fresh(v)'
    BY <1>0, <1>8, BeginsMoves DEF AllFresh, Fresh, Same, Exists
  <1> QED BY <1>7, <1>8 DEF AllFresh

\* Writing a row overtakes the others that read it.
LEMMA WriteFresh ==
    ASSUME Typed, AllFresh, NEW w \in Workers, UpdateUser(w), Exists(subject[w])
    PROVE  AllFresh'
  <1>1. /\ pc[w] = "write"
        /\ users' = [users EXCEPT ![subject[w]] = row[w]]
        /\ stale' = (stale \ {w}) \union
              {x \in Workers \ {w} : pc[x] = "write" /\ subject[x] = subject[w]}
    BY DEF UpdateUser
  <1>2. pc'[w] # "write"
    BY ResetTyped DEF UpdateUser, Goto, Typed, TypeOK
  <1>3. Fresh(w)'
    BY <1>2 DEF Fresh
  <1>4. \A v \in Workers \ {w} : Same(v)
    BY HandleMoves DEF Handle
  <1>5. ASSUME NEW v \in Workers \ {w}, pc'[v] = "write", v \notin stale',
               users'[subject'[v]] # NoRow
        PROVE  \A f \in Columns \ Meant(op'[v]) :
                  row'[v][f] = users'[subject'[v]][f]
    <2>1. /\ pc[v] = "write" /\ subject'[v] = subject[v] /\ op'[v] = op[v]
          /\ row'[v] = row[v]
      BY <1>4, <1>5 DEF Same
    <2>2. v \notin stale /\ subject[v] # subject[w] /\ subject[v] \in Users
      BY <1>1, <1>5, <2>1 DEF Typed, WorkerOK
    <2>3. users'[subject[v]] = users[subject[v]]
      BY <1>1, <2>2 DEF Typed, TypeOK
    <2> QED BY <1>5, <2>1, <2>2, <2>3 DEF AllFresh, Fresh, Exists
  <1>6. \A v \in Workers \ {w} : Fresh(v)'
    BY <1>5 DEF Fresh, Exists
  <1> QED BY <1>3, <1>6 DEF AllFresh

LEMMA HandleFresh ==
    ASSUME Typed, AllFresh, NEW w \in Workers, Handle(w),
           ~(UpdateUser(w) /\ Exists(subject[w]))
    PROVE  AllFresh' /\ users' = users
  <1>1. CASE Begins(w)
    <2>1. users' = users
      BY <1>1 DEF Begins, Login, Refresh, SetupMFA, VerifyMFA, Update,
                  ReadForUpdate, db
    <2> QED BY <1>1, <2>1, BeginsFresh
  <1>2. CASE ~Begins(w)
    <2>1. users' = users /\ stale \ {w} \subseteq stale'
      BY <1>2 DEF Handle, Begins, RevokeRefreshToken, RefreshReadUser,
                  ReadMFASetting, CreateRefreshToken, UpdateUser,
                  RevokeAfterUpdate, RevokeUserRefreshTokens, Fail, Refused,
                  Return, history, db
    <2>2. Reset(w) \/ Goto(w, "user") \/ Goto(w, "setting") \/ Goto(w, "store")
      BY <1>2 DEF Handle, Begins, RevokeRefreshToken, RefreshReadUser,
                  ReadMFASetting, CreateRefreshToken, UpdateUser,
                  RevokeAfterUpdate, Fail, Refused, Return
    <2>3. pc'[w] # "write"
      BY <2>2, ReturnMoves DEF Goto, Typed, TypeOK
    <2>4. \A v \in Workers \ {w} : Fresh(v)'
      BY <2>1, HandleMoves DEF AllFresh, Fresh, Same, Exists
    <2> QED BY <2>1, <2>3, <2>4 DEF AllFresh, Fresh
  <1> QED BY <1>1, <1>2

LEMMA NextFresh == ASSUME Typed, AllFresh, Next PROVE AllFresh'
  <1>1. CASE \E w \in Workers : Handle(w)
    BY <1>1, HandleFresh, WriteFresh
  <1>2. CASE (\E u \in Users : Logout(u) \/ DeleteUser(u)) \/ RequireMFA
    <2>1. /\ \A u \in Users : users'[u] = NoRow \/ users'[u] = users[u]
          /\ stale' = stale
      BY <1>2 DEF Logout, RevokeUserRefreshTokens, DeleteUser, RequireMFA,
                  history, Typed, TypeOK
    <2>2. \A v \in Workers : pc[v] = "write" => subject[v] \in Users
      BY DEF Typed, WorkerOK
    <2> QED BY <1>2, <2>1, <2>2, NoneMoves DEF AllFresh, Fresh, Same, Exists
  <1> QED BY <1>1, <1>2 DEF Next

\* A deactivation, a password or MFA is undone only by an update that read
\* the row before another was written.
THEOREM OvertakenOnly == Spec => OnlyOvertakenUndo
  <1>1. Typed /\ AllFresh /\ [Next]_vars => (Typed /\ AllFresh)'
    <2>1. AllFresh /\ UNCHANGED vars => AllFresh'
      BY DEF AllFresh, Fresh, Exists, vars, db, local, history
    <2> QED BY <2>1, NextTyped, StutterTyped, NextFresh
  <1>2. Init => AllFresh
    BY DEF Init, AllFresh, Fresh
  <1> DEFINE Kept == \A u \in Users, f \in Columns :
          users[u] # NoRow /\ users'[u] # NoRow /\ users[u][f] # users'[u][f] =>
             \E w \in Workers : /\ pc[w] = "write" /\ pc'[w] # "write"
                                /\ subject[w] = u
                                /\ (f \in Meant(op[w]) \/ w \in stale)
  <1>3. ASSUME Typed, AllFresh, [Next]_vars, ~UNCHANGED vars PROVE Kept
    <2>1. ASSUME NEW w \in Workers, UpdateUser(w), Exists(subject[w])
          PROVE  Kept
      <3>1. /\ pc[w] = "write" /\ subject[w] \in Users
            /\ users' = [users EXCEPT ![subject[w]] = row[w]]
        BY <1>3, <2>1 DEF UpdateUser, Typed, WorkerOK
      <3>2. pc'[w] # "write"
        BY <1>3, <2>1, ResetTyped DEF UpdateUser, Goto, Typed, TypeOK
      <3>3. w \notin stale => \A f \in Columns \ Meant(op[w]) :
               row[w][f] = users[subject[w]][f]
        BY <1>3, <2>1, <3>1 DEF AllFresh, Fresh
      <3>4. ASSUME NEW u \in Users, NEW f \in Columns,
                   users[u][f] # users'[u][f]
            PROVE  u = subject[w] /\ (f \in Meant(op[w]) \/ w \in stale)
        <4>1. users \in [Users -> Rows \union {NoRow}]
          BY <1>3 DEF Typed, TypeOK
        <4>2. u = subject[w]
          BY <3>1, <3>4, <4>1
        <4>3. users'[u] = row[w]
          BY <3>1, <4>1, <4>2
        <4> QED BY <3>3, <3>4, <4>2, <4>3
      <3> QED BY <3>1, <3>2, <3>4
    <2>2. ASSUME NEW w \in Workers, Handle(w),
                 ~(UpdateUser(w) /\ Exists(subject[w]))
          PROVE  Kept
      BY <1>3, <2>2, HandleFresh
    <2>3. ASSUME (\E u \in Users : Logout(u) \/ DeleteUser(u)) \/ RequireMFA
          PROVE  Kept
      <3>1. \A u \in Users : users'[u] = NoRow \/ users'[u] = users[u]
        BY <1>3, <2>3 DEF Logout, RevokeUserRefreshTokens, DeleteUser,
                          RequireMFA, Typed, TypeOK
      <3> QED BY <3>1
    <2> QED BY <1>3, <2>1, <2>2, <2>3 DEF Next
  <1>4. Typed /\ AllFresh /\ [Next]_vars => [Kept]_vars
    BY <1>3
  <1>5. Spec => [][Kept]_vars
    BY <1>1, <1>2, <1>4, InitTyped, PTL DEF Spec
  <1> QED BY <1>5 DEF OnlyOvertakenUndo, Columns

-----------------------------------------------------------------------------
(* A refresh token is a one-time token *)

LedgerOK(i) == /\ rotated[i] \in {0, 1}
               /\ Live(i) \/ i > issued => rotated[i] = 0
Ledger == \A i \in Ids : LedgerOK(i)

LEMMA StatusFrame ==
    ASSUME NEW i \in Ids, issued' = issued, tokens'[i] = tokens[i],
           rotated'[i] = rotated[i]
    PROVE  Status(i)' = Status(i)
  BY DEF Status

LEMMA StutterPromise ==
    ASSUME UNCHANGED <<tokens, issued, rotated>>
    PROVE  UNCHANGED Promise!vars
  <1>1. \A i \in Ids : Status(i)' = Status(i)
    BY StatusFrame
  <1> QED BY <1>1 DEF Promise!vars

\* Storing a token is minting it.
LEMMA StoreMints ==
    ASSUME Typed, Ledger, NEW w \in Workers, CreateRefreshToken(w),
           Exists(subject[w])
    PROVE  Ledger' /\ Promise!Next
  <1> DEFINE token == [user |-> subject[w], revoked |-> FALSE]
  <1>0. issued \in 0..MaxTokens /\ issued < MaxTokens
    BY DEF Typed, TypeOK, CreateRefreshToken
  <1>2. PICK new \in Ids : new = issued + 1
    BY <1>0, BoundsType DEF Ids
  <1>1. /\ pc[w] = "store" /\ issued' = new
        /\ tokens' = [tokens EXCEPT ![new] = token] /\ rotated' = rotated
    BY <1>2 DEF CreateRefreshToken
  <1>3. new \in Nat /\ issued \in Nat /\ issued < new
    BY <1>0, <1>2, BoundsType
  <1>4. token \in Tokens /\ ~token.revoked
    BY <1>1 DEF Tokens, Typed, WorkerOK
  <1> HIDE DEF token
  <1>5. tokens'[new] = token /\ token # NoRow
    BY <1>1, <1>3, <1>4, NoRowApart DEF Typed, TypeOK
  <1>6. ASSUME NEW j \in Ids \ {new}
        PROVE  tokens'[j] = tokens[j] /\ (j > issued' <=> j > issued)
    BY <1>1, <1>2, <1>3 DEF Typed, TypeOK, Ids
  <1>7. Status(new) = "unminted" /\ Status(new)' = "open"
    <2>1. new > issued /\ ~(new > issued')
      BY <1>1, <1>3
    <2>2. tokens'[new] # NoRow /\ ~tokens'[new].revoked
      BY <1>4, <1>5
    <2> QED BY <2>1, <2>2 DEF Status
  <1>8. ASSUME NEW j \in Ids \ {new} PROVE Status(j)' = Status(j)
    BY <1>1, <1>6 DEF Status
  <1>9. Promise!Mint(new, "open")
    BY <1>1, <1>3, <1>7, <1>8 DEF Promise!Mint
  <1>10. ASSUME NEW j \in Ids PROVE LedgerOK(j)'
    <2>1. CASE j = new
      BY <1>1, <1>2, <1>3, <2>1 DEF Ledger, LedgerOK
    <2>2. CASE j # new
      BY <1>1, <1>6, <2>2 DEF Ledger, LedgerOK, Live
    <2> QED BY <2>1, <2>2
  <1> QED BY <1>3, <1>9, <1>10 DEF Ledger, Promise!Next

\* Exchanging a live one is redeeming it.
LEMMA RotateRedeems ==
    ASSUME Typed, Ledger, NEW w \in Workers, RevokeRefreshToken(w),
           Revocable(presented[w])
    PROVE  Ledger' /\ Promise!Next
  <1>0. pc[w] = "rotate" /\ presented[w] \in Ids
    BY DEF RevokeRefreshToken, Typed, RotatesOwn
  <1>1. PICK i \in Ids : i = presented[w]
    BY <1>0
  <1>11. /\ issued' = issued
         /\ tokens' = [tokens EXCEPT ![i].revoked = TRUE]
         /\ rotated' = [rotated EXCEPT ![i] = @ + 1]
    BY <1>1 DEF RevokeRefreshToken, Refused, Return, Reset, Revocable
  <1>2. i <= issued /\ Live(i) /\ tokens[i] \in Tokens
    BY <1>0, <1>1 DEF Typed, TypeOK, RotatesOwn, Revocable, Live
  <1>3. i \in Nat /\ issued \in Nat /\ rotated[i] = 0
    BY <1>2, BoundsType DEF Typed, TypeOK, Ids, Ledger, LedgerOK
  <1>4. tokens'[i] \in Tokens /\ tokens'[i].revoked /\ rotated'[i] = 1
    <2>1. tokens'[i] \in Tokens /\ tokens'[i].revoked
      BY <1>11, <1>2 DEF Typed, TypeOK, Tokens
    <2>2. rotated'[i] = 1
      BY <1>11, <1>3 DEF Typed, TypeOK
    <2> QED BY <2>1, <2>2
  <1>5. ASSUME NEW j \in Ids \ {i}
        PROVE  tokens'[j] = tokens[j] /\ rotated'[j] = rotated[j]
    BY <1>11 DEF Typed, TypeOK
  <1>6. Status(i) = "open" /\ Status(i)' = "spent"
    <2>1. ~(i > issued) /\ ~(i > issued')
      BY <1>11, <1>2, <1>3
    <2>2. tokens'[i] # NoRow
      BY <1>4, NoRowApart
    <2> QED BY <1>2, <1>4, <2>1, <2>2 DEF Status, Live
  <1>7. ASSUME NEW j \in Ids \ {i} PROVE Status(j)' = Status(j)
    BY <1>11, <1>5, StatusFrame
  <1>8. Promise!Redeem(i)
    BY <1>11, <1>2, <1>6, <1>7 DEF Promise!Redeem
  <1>9. ASSUME NEW j \in Ids PROVE LedgerOK(j)'
    <2>1. CASE j = i
      BY <1>11, <1>2, <1>3, <1>4, <2>1 DEF LedgerOK, Live
    <2>2. CASE j # i
      BY <1>11, <1>5, <2>2 DEF Ledger, LedgerOK, Live
    <2> QED BY <2>1, <2>2
  <1> QED BY <1>2, <1>8, <1>9 DEF Ledger, Promise!Next

\* Revoking a user's tokens, or deleting the user, withdraws them.
LEMMA TakenWithdraws ==
    ASSUME Typed, Ledger, NEW S \in SUBSET Ids,
           issued' = issued, rotated' = rotated,
           \A i \in S : tokens[i] # NoRow,
           \A i \in S : tokens'[i] # NoRow =>
                           Live(i) /\ tokens'[i].revoked,
           \A i \in Ids \ S : tokens'[i] = tokens[i]
    PROVE  Ledger' /\ Promise!Next
  <1>1. ASSUME NEW i \in S
        PROVE  Status(i) # "unminted" /\ Status(i)' = "withdrawn"
    BY DEF Status, Typed, TokenOK, Ledger, LedgerOK
  <1>2. ASSUME NEW i \in Ids \ S PROVE Status(i)' = Status(i)
    BY <1>2, StatusFrame
  <1>3. Promise!Withdraw(S)
    BY <1>1, <1>2 DEF Promise!Withdraw
  <1>4. ASSUME NEW i \in Ids PROVE Live(i)' => Live(i)
    BY DEF Live
  <1> QED BY <1>3, <1>4 DEF Ledger, LedgerOK, Promise!Next

LEMMA RevokeWithdraws ==
    ASSUME Typed, Ledger, NEW u \in Users, RevokeUserRefreshTokens(u)
    PROVE  Ledger' /\ Promise!Next
  <1>1. LiveOf(u) \in SUBSET Ids /\ issued' = issued /\ rotated' = rotated
    BY DEF RevokeUserRefreshTokens, LiveOf
  <1>2. ASSUME NEW i \in LiveOf(u)
        PROVE  tokens[i] # NoRow /\ Live(i) /\ tokens'[i].revoked
    BY DEF RevokeUserRefreshTokens, LiveOf, Live, Typed, TypeOK, Tokens
  <1>3. ASSUME NEW i \in Ids \ LiveOf(u) PROVE tokens'[i] = tokens[i]
    BY DEF RevokeUserRefreshTokens
  <1> QED BY <1>1, <1>2, <1>3, TakenWithdraws

LEMMA DeleteWithdraws ==
    ASSUME Typed, Ledger, NEW u \in Users, DeleteUser(u)
    PROVE  Ledger' /\ Promise!Next
  <1> DEFINE S == {i \in Ids : tokens[i] # NoRow /\ tokens[i].user = u}
  <1>1. /\ S \in SUBSET Ids /\ issued' = issued /\ rotated' = rotated
        /\ \A i \in S : tokens[i] # NoRow /\ tokens'[i] = NoRow
        /\ \A i \in Ids \ S : tokens'[i] = tokens[i]
    BY DEF DeleteUser, history
  <1> QED BY <1>1, TakenWithdraws

\* Every step of the code is one of the promise: no refresh token is
\* exchanged twice, and none comes back after a logout or a deletion.
THEOREM Implementation == Spec => ImplementsOneTime
  <1>1. Init => Ledger /\ Promise!Init
    <2> SUFFICES ASSUME Init PROVE Ledger /\ Promise!Init
      OBVIOUS
    <2>1. \A i \in Ids : Status(i) = "unminted"
      BY DEF Init, Status, Ids
    <2> QED BY <2>1 DEF Init, Promise!Init, Ledger, LedgerOK, Live
  <1>2. Typed /\ Ledger /\ [Next]_vars => Ledger' /\ [Promise!Next]_Promise!vars
    <2> SUFFICES ASSUME Typed, Ledger, [Next]_vars
                 PROVE  Ledger' /\ [Promise!Next]_Promise!vars
      OBVIOUS
    <2>1. ASSUME UNCHANGED <<tokens, issued, rotated>>
          PROVE  Ledger' /\ UNCHANGED Promise!vars
      <3>1. Ledger'
        BY <2>1 DEF Ledger, LedgerOK, Live
      <3> QED BY <2>1, <3>1, StutterPromise
    <2>2. ASSUME NEW w \in Workers, Handle(w)
          PROVE  Ledger' /\ [Promise!Next]_Promise!vars
      <3>1. CASE CreateRefreshToken(w) /\ Exists(subject[w])
        BY <3>1, StoreMints
      <3>2. CASE RevokeRefreshToken(w) /\ Revocable(presented[w])
        BY <3>2, RotateRedeems
      <3>3. CASE RevokeAfterUpdate(w)
        <4>1. subject[w] \in Users
          BY <3>3 DEF RevokeAfterUpdate, Typed, WorkerOK
        <4> QED BY <3>3, <4>1, RevokeWithdraws DEF RevokeAfterUpdate
      <3>4. CASE /\ ~(CreateRefreshToken(w) /\ Exists(subject[w]))
                 /\ ~(RevokeRefreshToken(w) /\ Revocable(presented[w]))
                 /\ ~RevokeAfterUpdate(w)
        <4>1. UNCHANGED <<tokens, issued, rotated>>
          BY <2>2, <3>4
          DEF Handle, Login, Refresh, SetupMFA, VerifyMFA, Update,
              ReadForUpdate, RevokeRefreshToken, RefreshReadUser,
              ReadMFASetting, CreateRefreshToken, UpdateUser, Fail, Refused,
              history, db
        <4> QED BY <2>1, <4>1
      <3> QED BY <3>1, <3>2, <3>3, <3>4
    <2>3. ASSUME NEW u \in Users, Logout(u) \/ DeleteUser(u)
          PROVE  Ledger' /\ [Promise!Next]_Promise!vars
      BY <2>3, RevokeWithdraws, DeleteWithdraws DEF Logout
    <2>4. CASE RequireMFA \/ UNCHANGED vars
      BY <2>1, <2>4 DEF RequireMFA, history, vars, db
    <2> QED BY <2>2, <2>3, <2>4 DEF Next
  <1> QED BY <1>1, <1>2, InitTyped, NextTyped, StutterTyped, PTL
          DEF Spec, Promise!Spec, ImplementsOneTime

-----------------------------------------------------------------------------
\* What a worker was asked fits the handler it runs.
NativeAsked(w) ==
    /\ resolving[w] \in Native!Points \ {"idle", "set"} =>
          route[w] \in Native!Routes
    /\ resolving[w] = "set" => route[w] \in Native!Settings

\* Past a statement, what the statement tested has been seen to hold; the
\* secret is tested last, on what was read with the account.
NativeChecked(w) ==
    /\ resolving[w] \in {"credential", "asset", "account", "permission",
                         "target", "answered"} => "user" \in held[w]
    /\ resolving[w] \in {"asset", "account", "permission", "target",
                         "answered"} => "password" \in held[w]
    /\ resolving[w] \in {"account", "permission", "target", "answered"} =>
          "asset" \in held[w]
    /\ resolving[w] \in {"permission", "target", "answered"} =>
          /\ "account" \in held[w]
          /\ given[w] = "password" => "secret" \in held[w]
    /\ resolving[w] \in {"target", "answered"} => "permission" \in held[w]
    /\ resolving[w] = "answered" => "secret" \in held[w]

NativeTyped == Native!TypeOK /\ \A w \in Workers : NativeAsked(w)
NativeInv == NativeTyped /\ \A w \in Workers : NativeChecked(w)

-----------------------------------------------------------------------------
(* Types *)

LEMMA NativeObserveTyped ==
    ASSUME Native!TypeOK, Native!Observe
    PROVE  held' \in [Workers -> SUBSET Native!Conditions]
  <1>1. ASSUME NEW w \in Workers
        PROVE  Native!Now(route[w]) \subseteq Native!Conditions
    BY DEF Native!Now
  <1> QED BY <1>1 DEF Native!Observe, Native!TypeOK

\* Each action keeps the types of what the code reads and writes.
LEMMA NativeNextTyped ==
    ASSUME NativeTyped, Native!Next
    PROVE  NativeTyped'
  <1> USE DEF NativeTyped, Native!TypeOK, NativeAsked, Native!Points,
              Native!Secrets, Native!Credentials, Native!Goto, Native!env
  <1>0. Native!Observe /\ held' \in [Workers -> SUBSET Native!Conditions]
    BY NativeObserveTyped DEF Native!Next
  <1>1. ASSUME NEW w \in Workers, NEW r \in Native!Routes, Native!Resolve(w, r)
        PROVE  NativeTyped'
    BY <1>0, <1>1 DEF Native!Resolve
  <1>2. ASSUME NEW w \in Workers, Native!VerifyUser(w) PROVE NativeTyped'
    BY <1>0, <1>2 DEF Native!VerifyUser, Native!Step
  <1>3. ASSUME NEW w \in Workers, Native!VerifyPassword(w) PROVE NativeTyped'
    BY <1>0, <1>3 DEF Native!VerifyPassword, Native!Step
  <1>4. ASSUME NEW w \in Workers, Native!ReadAsset(w) PROVE NativeTyped'
    BY <1>0, <1>4 DEF Native!ReadAsset, Native!Step
  <1>5. ASSUME NEW w \in Workers, Native!ReadAccount(w) PROVE NativeTyped'
    <2>1. route[w].account \in Accounts
      BY <1>5 DEF Native!ReadAccount, Native!Routes
    <2> QED BY <1>0, <1>5, <2>1 DEF Native!ReadAccount
  <1>6. ASSUME NEW w \in Workers, Native!ReadPermission(w) PROVE NativeTyped'
    BY <1>0, <1>6 DEF Native!ReadPermission, Native!Step
  <1>7. ASSUME NEW w \in Workers, Native!Answer(w) PROVE NativeTyped'
    BY <1>0, <1>7 DEF Native!Answer, Native!Step
  <1>8. ASSUME NEW w \in Workers, NEW in \in Native!Settings,
               Native!StartSet(w, in)
        PROVE  NativeTyped'
    BY <1>0, <1>8 DEF Native!StartSet, Native!Change
  <1>9. ASSUME NEW w \in Workers, Native!UpsertRDPProxyCredential(w)
        PROVE  NativeTyped'
    <2>1. route[w].password \in Passwords
      BY <1>9 DEF Native!UpsertRDPProxyCredential, Native!Settings
    <2>2. credential' \in [Users -> Native!Credentials \union {NoRow}]
      BY <1>9, <2>1 DEF Native!UpsertRDPProxyCredential
    <2> QED BY <1>0, <1>9, <2>2 DEF Native!UpsertRDPProxyCredential
  <1>10. ASSUME NEW w \in Workers, Native!Return(w) PROVE NativeTyped'
    BY <1>0, <1>10 DEF Native!Return
  <1>11. ASSUME NEW u \in Users, Native!Disable(u) PROVE NativeTyped'
    <2>1. credential' \in [Users -> Native!Credentials \union {NoRow}]
      BY ZenonT(60), <1>11 DEF Native!Disable
    <2> QED BY <1>0, <1>11, <2>1 DEF Native!Disable, Native!Change
  <1>12. ASSUME NEW e \in Native!Entities,
                NEW s \in {"active", "inactive", "gone"}, Native!SetStatus(e,
                s)
         PROVE  NativeTyped'
    BY <1>0, <1>12 DEF Native!SetStatus, Native!Change
  <1>13. ASSUME NEW u \in Users, NEW c \in Accounts,
                Native!ChangePermission(u, c)
         PROVE  NativeTyped'
    BY <1>0, <1>13 DEF Native!ChangePermission, Native!Change
  <1>14. ASSUME NEW c \in Accounts, NEW s \in Native!Secrets,
                Native!ChangeSecret(c, s)
         PROVE  NativeTyped'
    BY <1>0, <1>14 DEF Native!ChangeSecret, Native!Change
  <1> QED BY <1>1, <1>2, <1>3, <1>4, <1>5, <1>6, <1>7, <1>8, <1>9, <1>10,
             <1>11, <1>12, <1>13, <1>14 DEF Native!Next

-----------------------------------------------------------------------------
(* What a request has seen *)

\* A request that goes on keeps what it has seen and sees what is true now.
LEMMA SeenGrows ==
    ASSUME Native!TypeOK, Native!Observe, NEW w \in Workers,
           Native!Resolving(w),
           resolving'[w] \notin {"idle", "set"}
    PROVE  held'[w] = held[w] \union Native!Now(route[w])
  BY DEF Native!Observe, Native!TypeOK

\* A worker that does not move stays checked.
LEMMA OthersStayChecked ==
    ASSUME NativeTyped, Native!Observe, NEW w \in Workers, NativeChecked(w),
           resolving'[w] = resolving[w], given'[w] = given[w]
    PROVE  NativeChecked(w)'
  <1>1. CASE Native!Resolving(w)
    <2>1. held[w] \subseteq held'[w]
      BY <1>1, SeenGrows DEF Native!Resolving, NativeTyped
    <2> QED BY <2>1 DEF NativeChecked
  <1>2. CASE ~Native!Resolving(w)
    BY <1>2
       DEF Native!Resolving, NativeChecked, NativeTyped, Native!TypeOK,
           Native!Points
  <1> QED BY <1>1, <1>2

\* The same for all workers but one.
LEMMA AllOtherLogins ==
    ASSUME NativeInv, Native!Observe, NEW w \in Workers, NEW p, Native!Goto(w,
           p),
           NEW g, given' = [given EXCEPT ![w] = g] \/ given' = given,
           NativeChecked(w)'
    PROVE  \A v \in Workers : NativeChecked(v)'
  <1> SUFFICES ASSUME NEW v \in Workers, v # w PROVE NativeChecked(v)'
    OBVIOUS
  <1>1. resolving'[v] = resolving[v] /\ given'[v] = given[v]
    BY DEF NativeInv, NativeTyped, Native!TypeOK, Native!Goto
  <1> QED BY <1>1, OthersStayChecked DEF NativeInv

\* Each statement of Resolve goes on only if it has seen its condition.
LEMMA NativeNextChecked ==
    ASSUME NativeInv, Native!Next
    PROVE  \A v \in Workers : NativeChecked(v)'
  <1>0. Native!Observe /\ NativeTyped /\ Native!TypeOK
    BY DEF Native!Next, NativeInv, NativeTyped
  <1> DEFINE On(w) == /\ held'[w] = held[w] \union Native!Now(route[w])
                      /\ route[w] \in Native!Routes
  <1>1. ASSUME NEW w \in Workers, Native!Resolving(w),
               resolving'[w] \notin {"idle", "set"}
        PROVE  On(w)
    BY <1>0, <1>1, SeenGrows DEF Native!Resolving, NativeTyped, NativeAsked
  <1>2. ASSUME NEW w \in Workers, NEW r \in Native!Routes, Native!Resolve(w, r)
        PROVE  \A v \in Workers : NativeChecked(v)'
    <2>1. NativeChecked(w)'
      BY <1>0, <1>2
         DEF Native!Resolve, Native!Goto, NativeChecked, Native!TypeOK
    <2> QED BY <1>0, <1>2, <2>1, AllOtherLogins DEF Native!Resolve
  <1>3. ASSUME NEW w \in Workers, Native!VerifyUser(w)
        PROVE  \A v \in Workers : NativeChecked(v)'
    <2>1. On(w)
      BY <1>0, <1>1, <1>3
         DEF Native!VerifyUser, Native!Step, Native!Goto, Native!Resolving,
             Native!TypeOK, Native!Points
    <2>2. "user" \in Native!Now(route[w])
      BY <1>3 DEF Native!VerifyUser, Native!Step, Native!Now, Native!Conditions
    <2>3. NativeChecked(w)'
      BY <1>0, <1>3, <2>1, <2>2
         DEF Native!VerifyUser, Native!Step, Native!Goto, NativeChecked,
             Native!TypeOK
    <2> QED BY <1>0, <1>3, <2>3, AllOtherLogins
            DEF Native!VerifyUser, Native!Step
  <1>4. ASSUME NEW w \in Workers, Native!VerifyPassword(w)
        PROVE  \A v \in Workers : NativeChecked(v)'
    <2>1. On(w)
      BY <1>0, <1>1, <1>4
         DEF Native!VerifyPassword, Native!Step, Native!Goto,
             Native!Resolving, Native!TypeOK, Native!Points
    <2>2. "password" \in Native!Now(route[w])
      BY <1>4
         DEF Native!VerifyPassword, Native!Step, Native!Now, Native!Conditions
    <2>3. NativeChecked(w)'
      BY <1>0, <1>4, <2>1, <2>2
         DEF NativeInv, Native!VerifyPassword, Native!Step, Native!Goto,
             NativeChecked, Native!TypeOK
    <2> QED BY <1>0, <1>4, <2>3, AllOtherLogins
            DEF Native!VerifyPassword, Native!Step
  <1>5. ASSUME NEW w \in Workers, Native!ReadAsset(w)
        PROVE  \A v \in Workers : NativeChecked(v)'
    <2>1. On(w)
      BY <1>0, <1>1, <1>5
         DEF Native!ReadAsset, Native!Step, Native!Goto, Native!Resolving,
             Native!TypeOK, Native!Points
    <2>2. "asset" \in Native!Now(route[w])
      BY <1>5 DEF Native!ReadAsset, Native!Step, Native!Now, Native!Conditions
    <2>3. NativeChecked(w)'
      BY <1>0, <1>5, <2>1, <2>2
         DEF NativeInv, Native!ReadAsset, Native!Step, Native!Goto,
             NativeChecked, Native!TypeOK
    <2> QED BY <1>0, <1>5, <2>3, AllOtherLogins
            DEF Native!ReadAsset, Native!Step
  <1>6. ASSUME NEW w \in Workers, Native!ReadAccount(w)
        PROVE  \A v \in Workers : NativeChecked(v)'
    <2>1. On(w)
      BY <1>0, <1>1, <1>6
         DEF Native!ReadAccount, Native!Goto, Native!Resolving,
             Native!TypeOK, Native!Points
    <2>2. "account" \in Native!Now(route[w])
      BY <1>6 DEF Native!ReadAccount, Native!Now, Native!Conditions
    <2>3. given'[w] = "password" => "secret" \in Native!Now(route[w])
      BY <1>0, <1>6
         DEF Native!ReadAccount, Native!Now, Native!Conditions, Native!TypeOK
    <2>4. NativeChecked(w)'
      BY <1>0, <1>6, <2>1, <2>2, <2>3
         DEF NativeInv, Native!ReadAccount, Native!Goto, NativeChecked,
             Native!TypeOK
    <2> QED BY <1>0, <1>6, <2>4, AllOtherLogins DEF Native!ReadAccount
  <1>7. ASSUME NEW w \in Workers, Native!ReadPermission(w)
        PROVE  \A v \in Workers : NativeChecked(v)'
    <2>1. On(w)
      BY <1>0, <1>1, <1>7
         DEF Native!ReadPermission, Native!Step, Native!Goto,
             Native!Resolving, Native!TypeOK, Native!Points
    <2>2. "permission" \in Native!Now(route[w])
      BY <1>7
         DEF Native!ReadPermission, Native!Step, Native!Now, Native!Conditions
    <2>3. NativeChecked(w)'
      BY <1>0, <1>7, <2>1, <2>2
         DEF NativeInv, Native!ReadPermission, Native!Step, Native!Goto,
             NativeChecked, Native!TypeOK
    <2> QED BY <1>0, <1>7, <2>3, AllOtherLogins
            DEF Native!ReadPermission, Native!Step
  <1>8. ASSUME NEW w \in Workers, Native!Answer(w)
        PROVE  \A v \in Workers : NativeChecked(v)'
    <2>1. On(w)
      BY <1>0, <1>1, <1>8
         DEF Native!Answer, Native!Step, Native!Goto, Native!Resolving,
             Native!TypeOK, Native!Points
    <2>2. NativeChecked(w)'
      BY <1>0, <1>8, <2>1
         DEF NativeInv, Native!Answer, Native!Step, Native!Goto, NativeChecked,
             Native!TypeOK
    <2> QED BY <1>0, <1>8, <2>2, AllOtherLogins DEF Native!Answer, Native!Step
  <1>9. ASSUME NEW w \in Workers, NEW in \in Native!Settings,
               Native!StartSet(w, in)
        PROVE  \A v \in Workers : NativeChecked(v)'
    <2>1. NativeChecked(w)'
      BY <1>0, <1>9
         DEF Native!StartSet, Native!Goto, NativeChecked, Native!TypeOK
    <2> QED BY <1>0, <1>9, <2>1, AllOtherLogins DEF Native!StartSet
  <1>10. ASSUME NEW w \in Workers,
                Native!UpsertRDPProxyCredential(w) \/ Native!Return(w)
         PROVE  \A v \in Workers : NativeChecked(v)'
    <2>1. Native!Goto(w, "idle")
      BY <1>10 DEF Native!UpsertRDPProxyCredential, Native!Return
    <2>2. NativeChecked(w)'
      BY <1>0, <2>1 DEF Native!Goto, NativeChecked, Native!TypeOK
    <2> QED BY <1>0, <1>10, <2>1, <2>2, AllOtherLogins
            DEF Native!UpsertRDPProxyCredential, Native!Return
  <1>11. ASSUME resolving' = resolving, given' = given
         PROVE  \A v \in Workers : NativeChecked(v)'
    BY <1>0, <1>11, OthersStayChecked DEF NativeInv
  <1> QED BY <1>2, <1>3, <1>4, <1>5, <1>6, <1>7, <1>8, <1>9, <1>10, <1>11
          DEF Native!Next, Native!Disable, Native!SetStatus,
              Native!ChangePermission, Native!ChangeSecret

-----------------------------------------------------------------------------
(* Theorems *)

LEMMA NativeInductive == Native!Spec => []NativeInv
  <1>1. Native!Init => NativeInv
    BY DEF Native!Init, NativeInv, NativeTyped, Native!TypeOK, NativeAsked,
       NativeChecked, Native!Points, Native!Secrets
  <1>2. NativeInv /\ [Native!Next]_(Native!vars) => NativeInv'
    <2> SUFFICES ASSUME NativeInv, [Native!Next]_(Native!vars) PROVE NativeInv'
      OBVIOUS
    <2>1. CASE Native!Next
      BY <2>1, NativeNextTyped, NativeNextChecked DEF NativeInv
    <2>2. CASE UNCHANGED Native!vars
      BY <2>2
         DEF Native!vars, Native!env, NativeInv, NativeTyped, Native!TypeOK,
             NativeAsked, NativeChecked
    <2> QED BY <2>1, <2>2
  <1> QED BY <1>1, <1>2, PTL DEF Native!Spec

\* Rows, requests and what they have seen keep their types: what Resolve works
\* with is a route and what Set writes is a setting (rdp_native.go:110,
\* rdp_proxy_credentials.go:60).
THEOREM NativeTypeCorrect == Native!Spec => []Native!TypeOK
  <1>1. NativeInv => Native!TypeOK
    BY DEF NativeInv, NativeTyped
  <1> QED BY <1>1, NativeInductive, PTL

\* A native client is answered with a secret only if each of the six conditions
\* was true at some moment of its request, however many users, administrators
\* and other logins act between the statements (rdp_native.go:110-180).
THEOREM LoginWasAllowed == Native!Spec => []NoTargetWhileDenied
  <1>1. NativeInv => NoTargetWhileDenied
    <2> SUFFICES ASSUME NativeInv, NEW w \in Workers, resolving[w] = "answered"
                 PROVE  held[w] = Native!Conditions
      BY DEF NoTargetWhileDenied, Native!NoTargetWhileDenied
    <2>1. held[w] \subseteq Native!Conditions
      BY DEF NativeInv, NativeTyped, Native!TypeOK
    <2>2. Native!Conditions \subseteq held[w]
      BY DEF NativeInv, NativeChecked, Native!Conditions
    <2> QED BY <2>1, <2>2
  <1> QED BY <1>1, NativeInductive, PTL

-----------------------------------------------------------------------------
(* HostKeys: one fingerprint *)

\* Every set of natural numbers has a least element: the induction that these
\* proofs need, of a form the provers take.
LEMMA LeastNatural ==
    ASSUME NEW T, T \subseteq Nat, T # {}
    PROVE  \E x \in T : \A y \in T : x <= y
  <1> DEFINE R == {p \in Nat \X Nat : p[1] < p[2]}
  <1>1. IsWellFoundedOn(R, Nat)
    BY NatLessThanWellFounded, Zenon DEF OpToRel
  <1>2. \E x \in T : \A y \in T : ~ (<<y, x>> \in R)
    <2> HIDE DEF R
    <2> QED BY <1>1, WFMin
  <1>3. \A x, y \in Nat : <<y, x>> \in R <=> y < x
    OBVIOUS
  <1>4. PICK x \in T : \A y \in T : ~ (<<y, x>> \in R)
    BY <1>2
  <1> HIDE DEF R
  <1>5. ASSUME NEW y \in T PROVE x <= y
    <2>1. x \in Nat /\ y \in Nat
      BY <1>4
    <2>2. ~ (y < x)
      BY <1>3, <1>4, <1>5, <2>1
    <2> QED BY <2>1, <2>2
  <1> QED BY <1>5

\* And one with a bound has a greatest.
LEMMA GreatestNatural ==
    ASSUME NEW T, T \subseteq Nat, T # {}, NEW n \in Nat, \A x \in T : x <= n
    PROVE  \E x \in T : \A y \in T : y <= x
  <1> DEFINE D == {n - x : x \in T}
  <1>1. D \subseteq Nat /\ D # {}
    <2>1. \A x \in T : n - x \in Nat
      OBVIOUS
    <2>2. PICK x \in T : TRUE
      OBVIOUS
    <2>3. n - x \in D
      OBVIOUS
    <2> QED BY <2>1, <2>3
  <1>2. PICK d \in D : \A y \in D : d <= y
    <2> HIDE DEF D
    <2> QED BY <1>1, LeastNatural
  <1>3. PICK x \in T : d = n - x
    BY <1>2
  <1>4. ASSUME NEW y \in T PROVE y <= x
    <2>1. n - y \in D
      OBVIOUS
    <2>2. n - x <= n - y
      BY <1>2, <1>3, <2>1
    <2>3. x \in Nat /\ y \in Nat
      OBVIOUS
    <2> QED BY <2>2, <2>3
  <1> QED BY <1>4

\* Ids are given in order: no row has one that is still to come.
HostTyped == /\ Host!TypeOK
             /\ \A k \in keys : k.id <= lastId
             /\ \A w \in Workers : mine[w] <= lastId

\* A worker has seen a key of every algorithm it is past.
KeysBehind(w) ==
    /\ listing[w] \in {"look", "insert", "commit"} =>
          \A a \in Algorithms : a < at[w] => Host!Of(a) # {}
    /\ listing[w] = "list" => \A a \in Algorithms : Host!Of(a) # {}

\* Of an algorithm for which no two workers found no key at once, one worker
\* at a time makes a key, while there is none, and users saw no other.
OnlyKey(a) ==
    a \in together \/
    /\ \A v, w \in Workers : Host!Making(v, a) /\ Host!Making(w, a) => v = w
    /\ \A w \in Workers : Host!Making(w, a) => Host!Of(a) = {}
    /\ \A i, j \in Host!Of(a) : i = j
    /\ shown[a] \subseteq Host!Of(a)

HostInv == /\ HostTyped
           /\ \A w \in Workers : KeysBehind(w)
           /\ \A a \in Algorithms : OnlyKey(a)

LEMMA FirstAlgorithm == 1 \in Algorithms /\ Algorithms \subseteq Nat \ {0}
  <1>1. Cardinality(Algorithms) \in Nat /\ Cardinality(Algorithms) # 0
    BY AlgorithmsType, FS_CardinalityType, FS_EmptySet
  <1> QED BY <1>1, AlgorithmsType

\* Whoever is not the last has a next one, and none lies between.
LEMMA NextAlgorithm ==
    ASSUME NEW a \in Algorithms, NEW b \in Algorithms
    PROVE  /\ b < a + 1 => b = a \/ b < a
           /\ a + 1 \notin Algorithms => b = a \/ b < a
  <1>1. Cardinality(Algorithms) \in Nat
    BY AlgorithmsType, FS_CardinalityType
  <1> QED BY <1>1, AlgorithmsType

LEMMA OfTyped ==
    ASSUME HostTyped, NEW a \in Algorithms
    PROVE  /\ Host!Of(a) \subseteq Nat
           /\ \A i \in Host!Of(a) : i <= lastId
  BY DEF HostTyped, Host!TypeOK, Host!Keys, Host!Of

\* The key that is offered of an algorithm is one of its keys.
LEMMA LatestIsAKey ==
    ASSUME HostTyped, NEW a \in Algorithms
    PROVE  /\ Host!Latest(a) \in Nat
           /\ Host!Of(a) # {} => Host!Latest(a) \in Host!Of(a)
  <1> DEFINE S == Host!Of(a)
  <1>1. S \subseteq Nat /\ (\A i \in S : i <= lastId) /\ lastId \in Nat
    BY OfTyped DEF HostTyped, Host!TypeOK
  <1>2. CASE S = {}
    BY <1>2 DEF Host!Latest
  <1>3. CASE S # {}
    <2>1. \E id \in S : \A other \in S : other <= id
      <3> HIDE DEF S
      <3> QED BY <1>1, <1>3, GreatestNatural
    <2>2. Host!Latest(a) \in S
      BY <1>3, <2>1, Zenon DEF Host!Latest
    <2> QED BY <1>1, <2>2
  <1> QED BY <1>2, <1>3

\* Advance goes to the next algorithm or to the list.
LEMMA AdvanceTyped ==
    ASSUME HostTyped, NEW w \in Workers, Host!Advance(w)
    PROVE  /\ listing' \in [Workers -> {"idle", "look", "insert", "commit",
                                        "list"}]
           /\ at' \in [Workers -> Algorithms]
           /\ \A v \in Workers \ {w} : listing'[v] = listing[v] /\ at'[v] = at[v]
           /\ \/ listing'[w] = "look" /\ at'[w] = at[w] + 1
              \/ listing'[w] = "list" /\ at[w] + 1 \notin Algorithms
  BY DEF Host!Advance, Host!Goto, HostTyped, Host!TypeOK

LEMMA HostNextTyped ==
    ASSUME HostTyped, Host!Next
    PROVE  HostTyped'
  <1> USE DEF HostTyped, Host!TypeOK, Host!Goto, Host!local, Host!history
  <1>1. ASSUME NEW w \in Workers, NEW x \in Proxies \union {Nobody},
               Host!List(w, x)
        PROVE  HostTyped'
    <2>1. asks' \in 0..MaxKeyRequests
      BY <1>1, RequestsType DEF Host!List
    <2>2. at' \in [Workers -> Algorithms]
      BY <1>1, FirstAlgorithm DEF Host!List
    <2> QED BY <1>1, <2>1, <2>2 DEF Host!List
  <1>2. ASSUME NEW w \in Workers, Host!Found(w) PROVE HostTyped'
    BY <1>2, AdvanceTyped DEF Host!Found
  <1>3. ASSUME NEW w \in Workers, Host!NotFound(w) PROVE HostTyped'
    BY <1>3 DEF Host!NotFound
  <1>4. ASSUME NEW w \in Workers, Host!InsertHostKey(w) PROVE HostTyped'
    <2>1. /\ lastId' = lastId + 1 /\ lastId' \in Nat /\ keys' = keys
          /\ mine' = [mine EXCEPT ![w] = lastId']
      BY <1>4 DEF Host!InsertHostKey
    <2>2. \A k \in keys' : k.id <= lastId'
      BY <2>1 DEF Host!Keys
    <2>3. mine' \in [Workers -> Nat] /\ \A v \in Workers : mine'[v] <= lastId'
      BY <2>1
    <2> QED BY <1>4, <2>1, <2>2, <2>3 DEF Host!InsertHostKey
  <1>5. ASSUME NEW w \in Workers, Host!CommitHostKey(w) PROVE HostTyped'
    <2>1. [id |-> mine[w], algorithm |-> at[w]] \in Host!Keys /\ mine[w] <= lastId
      BY DEF Host!Keys
    <2>2. keys' \subseteq Host!Keys /\ \A k \in keys' : k.id <= lastId
      BY <1>5, <2>1 DEF Host!CommitHostKey
    <2> QED BY <1>5, <2>2, AdvanceTyped DEF Host!CommitHostKey
  <1>6. ASSUME NEW w \in Workers, Host!Fail(w) PROVE HostTyped'
    BY <1>6 DEF Host!Fail, Host!AfterFailure
  <1>7. ASSUME NEW w \in Workers, Host!Answer(w) PROVE HostTyped'
    <2> DEFINE latest == [a \in Algorithms |-> Host!Latest(a)]
    <2>1. latest \in [Algorithms -> Nat]
      BY LatestIsAKey
    <2> HIDE DEF latest
    <2>2. \A a \in Algorithms : latest[a] \in Nat
      BY <2>1
    <2>3. /\ offered' \in [Proxies -> [Algorithms -> Nat]]
          /\ shown' \in [Algorithms -> SUBSET Nat]
      <3>1. CASE client[w] = Nobody
        BY <1>7, <3>1 DEF Host!Answer
      <3>2. CASE client[w] # Nobody
        <4>1. /\ offered' = [offered EXCEPT ![client[w]] = latest]
              /\ shown' = [a \in Algorithms |-> shown[a] \union {latest[a]}]
          BY <1>7, <3>2 DEF Host!Answer, latest
        <4> QED BY <2>1, <2>2, <4>1
      <3> QED BY <3>1, <3>2
    <2> QED BY <1>7, <2>3 DEF Host!Answer
  <1>8. ASSUME NEW w \in Workers, Host!GiveUp(w) PROVE HostTyped'
    BY <1>8 DEF Host!GiveUp
  <1>9. ASSUME NEW x \in Proxies, Host!Restart(x) PROVE HostTyped'
    <2>1. Host!NoKeys \in [Algorithms -> Nat]
      BY DEF Host!NoKeys
    <2> HIDE DEF Host!NoKeys
    <2> QED BY <1>9, <2>1 DEF Host!Restart
  <1> QED BY <1>1, <1>2, <1>3, <1>4, <1>5, <1>6, <1>7, <1>8, <1>9
          DEF Host!Next

\* A worker that does not move is behind the same keys, and so is one that
\* advances past an algorithm that has a key now.
LEMMA BehindFrame ==
    ASSUME HostInv, HostTyped', keys \subseteq keys', NEW w \in Workers,
           listing'[w] = listing[w] /\ at'[w] = at[w]
    PROVE  KeysBehind(w)'
  <1>1. \A a \in Algorithms : Host!Of(a) # {} => Host!Of(a)' # {}
    BY DEF Host!Of
  <1> QED BY <1>1 DEF HostInv, KeysBehind

LEMMA BehindAdvance ==
    ASSUME HostInv, HostTyped', keys \subseteq keys', NEW w \in Workers,
           NEW b \in Algorithms, b = at[w], Host!Of(b)' # {},
           listing[w] \in {"look", "commit"}, Host!Advance(w)
    PROVE  KeysBehind(w)'
  <1>1. \A a \in Algorithms : Host!Of(a) # {} => Host!Of(a)' # {}
    BY DEF Host!Of
  <1>2. \A a \in Algorithms : a = b \/ a < b => Host!Of(a)' # {}
    BY <1>1 DEF HostInv, KeysBehind
  <1>3. \/ listing'[w] = "look" /\ at'[w] = at[w] + 1
        \/ listing'[w] = "list" /\ at[w] + 1 \notin Algorithms
    BY AdvanceTyped DEF HostInv
  <1> QED BY <1>2, <1>3, NextAlgorithm DEF KeysBehind

LEMMA NextBehind ==
    ASSUME HostInv, HostTyped', Host!Next, NEW v \in Workers
    PROVE  KeysBehind(v)'
  <1> USE DEF Host!local, Host!history
  <1>1. ASSUME NEW w \in Workers, NEW x \in Proxies \union {Nobody},
               Host!List(w, x)
        PROVE  KeysBehind(v)'
    <2>1. CASE v = w
      BY <1>1, <2>1, FirstAlgorithm
         DEF Host!List, Host!Goto, KeysBehind, HostInv, HostTyped, Host!TypeOK
    <2>2. CASE v # w
      BY <1>1, <2>2, BehindFrame
         DEF Host!List, Host!Goto, HostInv, HostTyped, Host!TypeOK
    <2> QED BY <2>1, <2>2
  <1>2. ASSUME NEW w \in Workers, Host!Found(w) PROVE KeysBehind(v)'
    <2>1. CASE v = w
      <3>1. PICK b \in Algorithms : b = at[w] /\ Host!Of(b) # {}
        BY <1>2 DEF Host!Found, HostInv, HostTyped, Host!TypeOK
      <3>2. Host!Of(b)' # {}
        BY <1>2, <3>1 DEF Host!Found, Host!Of
      <3> QED BY <1>2, <2>1, <3>1, <3>2, BehindAdvance DEF Host!Found
    <2>2. CASE v # w
      BY <1>2, <2>2, AdvanceTyped, BehindFrame DEF Host!Found, HostInv
    <2> QED BY <2>1, <2>2
  <1>3. ASSUME NEW w \in Workers, Host!NotFound(w) \/ Host!InsertHostKey(w)
        PROVE  KeysBehind(v)'
    <2>1. CASE v = w
      BY <1>3, <2>1 DEF Host!NotFound, Host!InsertHostKey, Host!Goto, Host!Of,
         KeysBehind, HostInv, HostTyped, Host!TypeOK
    <2>2. CASE v # w
      BY <1>3, <2>2, BehindFrame DEF Host!NotFound, Host!InsertHostKey,
         Host!Goto, HostInv, HostTyped, Host!TypeOK
    <2> QED BY <2>1, <2>2
  <1>4. ASSUME NEW w \in Workers, Host!CommitHostKey(w) PROVE KeysBehind(v)'
    <2>1. CASE v = w
      <3>1. PICK b \in Algorithms : b = at[w]
        BY DEF HostInv, HostTyped, Host!TypeOK
      <3>2. [id |-> mine[w], algorithm |-> b] \in keys'
        BY <1>4, <3>1 DEF Host!CommitHostKey
      <3>3. Host!Of(b)' # {}
        BY <3>2 DEF Host!Of
      <3> QED BY <1>4, <2>1, <3>1, <3>3, BehindAdvance DEF Host!CommitHostKey
    <2>2. CASE v # w
      BY <1>4, <2>2, AdvanceTyped, BehindFrame DEF Host!CommitHostKey, HostInv
    <2> QED BY <2>1, <2>2
  <1>5. ASSUME NEW w \in Workers, Host!Fail(w) \/ Host!Answer(w)
        PROVE  KeysBehind(v)'
    <2>1. CASE v = w
      BY <1>5, <2>1 DEF Host!Fail, Host!AfterFailure, Host!Answer, Host!Goto,
         KeysBehind, HostInv, HostTyped, Host!TypeOK
    <2>2. CASE v # w
      BY <1>5, <2>2, BehindFrame DEF Host!Fail, Host!Answer, Host!Goto,
         HostInv, HostTyped, Host!TypeOK
    <2> QED BY <2>1, <2>2
  <1>6. ASSUME NEW w \in Workers, Host!GiveUp(w) PROVE KeysBehind(v)'
    BY <1>6, BehindFrame DEF Host!GiveUp
  <1>7. ASSUME NEW x \in Proxies, Host!Restart(x) PROVE KeysBehind(v)'
    BY <1>7, BehindFrame DEF Host!Restart
  <1> QED BY <1>1, <1>2, <1>3, <1>4, <1>5, <1>6, <1>7 DEF Host!Next

\* Nobody comes to make a key of the algorithm, and no key comes.
LEMMA OnlyKeyFrame ==
    ASSUME NEW a \in Algorithms, OnlyKey(a), keys' = keys, shown' = shown,
           together' = together,
           \A v \in Workers : Host!Making(v, a)' => Host!Making(v, a)
    PROVE  OnlyKey(a)'
  BY DEF OnlyKey, Host!Of

\* The second one to find no key is remembered.
LEMMA OnlyKeyNotFound ==
    ASSUME HostInv, NEW w \in Workers, Host!NotFound(w), NEW a \in Algorithms
    PROVE  OnlyKey(a)'
  <1> USE DEF Host!local
  <1>1. \A v \in Workers \ {w} : Host!Making(v, a)' <=> Host!Making(v, a)
    BY DEF Host!NotFound, Host!Making, Host!Goto, HostInv, HostTyped,
       Host!TypeOK
  <1>2. CASE at[w] # a
    <2>1. ~Host!Making(w, a)'
      BY <1>2 DEF Host!NotFound, Host!Making
    <2>2. a \in together' <=> a \in together
      BY <1>2 DEF Host!NotFound
    <2>3. \A v \in Workers : Host!Making(v, a)' => Host!Making(v, a)
      BY <1>1, <2>1
    <2>4. Host!Of(a)' = Host!Of(a) /\ shown' = shown
      BY DEF Host!NotFound, Host!Of
    <2>5. OnlyKey(a)
      BY DEF HostInv
    <2> QED BY <2>2, <2>3, <2>4, <2>5 DEF OnlyKey
  <1>3. CASE at[w] = a /\ \E v \in Workers \ {w} : Host!Making(v, a)
    <2>1. a \in together'
      BY <1>3 DEF Host!NotFound
    <2> QED BY <2>1 DEF OnlyKey
  <1>4. CASE at[w] = a /\ ~ \E v \in Workers \ {w} : Host!Making(v, a)
    <2>1. Host!Of(a) = {} /\ Host!Of(a)' = {} /\ shown' = shown
      BY <1>4 DEF Host!NotFound, Host!Of
    <2>2. \A v \in Workers \ {w} : ~Host!Making(v, a)'
      BY <1>1, <1>4
    <2>3. OnlyKey(a) /\ (a \in together => a \in together')
      BY DEF HostInv, Host!NotFound
    <2> QED BY <2>1, <2>2, <2>3 DEF OnlyKey
  <1> QED BY <1>2, <1>3, <1>4

\* The one worker that makes a key stores the only one.
LEMMA OnlyKeyCommit ==
    ASSUME HostInv, NEW w \in Workers, Host!CommitHostKey(w),
           NEW a \in Algorithms
    PROVE  OnlyKey(a)'
  <1> USE DEF Host!history
  <1>0. OnlyKey(a) /\ together' = together /\ shown' = shown
    BY DEF HostInv, Host!CommitHostKey
  <1>1. \A v \in Workers : Host!Making(v, a)' => Host!Making(v, a) /\ v # w
    BY AdvanceTyped DEF HostInv, Host!CommitHostKey, Host!Making
  <1>2. CASE at[w] # a
    <2>1. Host!Of(a)' = Host!Of(a)
      BY <1>2 DEF Host!CommitHostKey, Host!Of
    <2> QED BY <1>0, <1>1, <2>1 DEF OnlyKey
  <1>3. CASE at[w] = a /\ a \notin together
    <2>1. Host!Making(w, a)
      BY <1>3 DEF Host!CommitHostKey, Host!Making
    <2>2. Host!Of(a) = {} /\ shown[a] = {}
      BY <1>0, <1>3, <2>1 DEF OnlyKey
    <2>3. \A v \in Workers : ~Host!Making(v, a)'
      BY <1>0, <1>1, <1>3, <2>1 DEF OnlyKey
    <2>4. \A i \in Host!Of(a)' : i = mine[w]
      BY <1>3, <2>2 DEF Host!CommitHostKey, Host!Of
    <2> QED BY <1>0, <2>2, <2>3, <2>4 DEF OnlyKey
  <1>4. CASE a \in together
    BY <1>0, <1>4 DEF OnlyKey
  <1> QED BY <1>2, <1>3, <1>4

\* What is offered is the only key.
LEMMA OnlyKeyAnswer ==
    ASSUME HostInv, NEW w \in Workers, Host!Answer(w), NEW a \in Algorithms
    PROVE  OnlyKey(a)'
  <1> USE DEF Host!local
  <1>1. OnlyKey(a) /\ together' = together /\ Host!Of(a)' = Host!Of(a)
    BY DEF HostInv, Host!Answer, Host!Of
  <1>2. \A v \in Workers : Host!Making(v, a)' => Host!Making(v, a)
    BY DEF Host!Answer, Host!Making, Host!Goto, HostInv, HostTyped, Host!TypeOK
  <1>3. Host!Latest(a) \in Host!Of(a)
    BY LatestIsAKey DEF HostInv, KeysBehind, Host!Answer
  <1>4. shown'[a] \subseteq shown[a] \union {Host!Latest(a)}
    <2> DEFINE latest == [b \in Algorithms |-> Host!Latest(b)]
    <2>1. latest[a] = Host!Latest(a)
      OBVIOUS
    <2>2. shown' = shown \/
          shown' = [b \in Algorithms |-> shown[b] \union {latest[b]}]
      BY DEF Host!Answer
    <2> HIDE DEF latest
    <2> QED BY <2>1, <2>2
  <1> QED BY <1>1, <1>2, <1>3, <1>4 DEF OnlyKey

LEMMA NextOnlyKey ==
    ASSUME HostInv, Host!Next, NEW a \in Algorithms
    PROVE  OnlyKey(a)'
  <1> USE DEF Host!local, Host!history
  <1>0. OnlyKey(a)
    BY DEF HostInv
  <1>1. ASSUME NEW w \in Workers,
               \/ \E x \in Proxies \union {Nobody} : Host!List(w, x)
               \/ Host!InsertHostKey(w) \/ Host!Fail(w)
        PROVE  OnlyKey(a)'
    <2>1. \A v \in Workers : Host!Making(v, a)' => Host!Making(v, a)
      BY <1>1 DEF Host!List, Host!InsertHostKey, Host!Fail, Host!AfterFailure,
         Host!Making, Host!Goto, HostInv, HostTyped, Host!TypeOK
    <2> QED BY <1>0, <1>1, <2>1, OnlyKeyFrame
            DEF Host!List, Host!InsertHostKey, Host!Fail
  <1>2. ASSUME NEW w \in Workers, Host!Found(w) PROVE OnlyKey(a)'
    <2>1. \A v \in Workers : Host!Making(v, a)' => Host!Making(v, a)
      BY <1>2, AdvanceTyped DEF HostInv, Host!Found, Host!Making
    <2> QED BY <1>0, <1>2, <2>1, OnlyKeyFrame DEF Host!Found
  <1>3. ASSUME NEW w \in Workers, Host!GiveUp(w) PROVE OnlyKey(a)'
    BY <1>0, <1>3, OnlyKeyFrame DEF Host!GiveUp, Host!Making
  <1>4. ASSUME NEW x \in Proxies, Host!Restart(x) PROVE OnlyKey(a)'
    BY <1>0, <1>4, OnlyKeyFrame DEF Host!Restart, Host!Making
  <1> QED BY <1>1, <1>2, <1>3, <1>4, OnlyKeyNotFound, OnlyKeyCommit,
             OnlyKeyAnswer DEF Host!Next

LEMMA HostInductive == Host!Spec => []HostInv
  <1>1. Host!Init => HostInv
    <2> SUFFICES ASSUME Host!Init PROVE HostInv
      OBVIOUS
    <2>1. 1 \in Algorithms /\ \A a \in Algorithms : ~ (a < 1)
      BY FirstAlgorithm
    <2>2. HostTyped
      BY <2>1, RequestsType DEF Host!Init, Host!NoKeys, HostTyped, Host!TypeOK
    <2>3. \A w \in Workers : KeysBehind(w)
      BY DEF Host!Init, KeysBehind
    <2>4. \A a \in Algorithms : OnlyKey(a)
      BY DEF Host!Init, OnlyKey, Host!Of, Host!Making
    <2> QED BY <2>2, <2>3, <2>4 DEF HostInv
  <1>2. HostInv /\ [Host!Next]_(Host!vars) => HostInv'
    <2> SUFFICES ASSUME HostInv, [Host!Next]_(Host!vars) PROVE HostInv'
      OBVIOUS
    <2>1. CASE Host!Next
      <3>1. HostTyped'
        BY <2>1, HostNextTyped DEF HostInv
      <3> QED BY <2>1, <3>1, NextBehind, NextOnlyKey DEF HostInv
    <2>2. CASE UNCHANGED Host!vars
      <3> USE <2>2 DEF Host!vars, Host!local, Host!history
      <3>1. HostTyped'
        BY DEF HostInv, HostTyped, Host!TypeOK
      <3>2. \A w \in Workers : KeysBehind(w)'
        BY DEF HostInv, KeysBehind, Host!Of
      <3>3. \A a \in Algorithms : OnlyKey(a)'
        BY OnlyKeyFrame DEF HostInv, Host!Making
      <3> QED BY <3>1, <3>2, <3>3 DEF HostInv
    <2> QED BY <2>1, <2>2
  <1> QED BY <1>1, <1>2, PTL DEF Host!Spec

\* Rows of keys, workers and what proxies offer keep their types; in particular
\* what is offered of an algorithm is always a key or none (host_keys.go:36-75).
THEOREM HostTypeCorrect == Host!Spec => []Host!TypeOK
  <1>1. HostInv => Host!TypeOK
    BY DEF HostInv, HostTyped
  <1> QED BY <1>1, HostInductive, PTL

\* Users see one fingerprint per algorithm unless two requests found no key of
\* it at once, with any number of API processes, proxies and restarts of them
\* and with any statement failing (host_keys.go:36-75).
THEOREM OneKeyIsShown == Host!Spec => []OneFingerprint
  <1>1. HostInv => OneFingerprint
    BY DEF HostInv, OnlyKey, OneFingerprint, Host!OneFingerprint
  <1> QED BY <1>1, HostInductive, PTL

-----------------------------------------------------------------------------
(* Settings: who changes a stored value *)

\* What a worker looked up is still in the table unless it was overtaken.
LookedUp(w) ==
    /\ setting[w] \in {"get", "upsert"} => asked[w] \in Stored!Inputs
    /\ setting[w] = "upsert" => read[w] \in Stored!Rows
    /\ setting[w] = "insert" => w \in overtaken \/ table[key[w]] = NoRow
    /\ setting[w] = "upsert" => w \in overtaken \/ table[key[w]] = read[w]

StoredInv == Stored!TypeOK /\ \A w \in Workers : LookedUp(w)

LEMMA NextSettingTyped ==
    ASSUME Stored!TypeOK, NEW w \in Workers, Stored!NextSetting(w)
    PROVE  /\ setting' \in [Workers -> {"idle", "look", "insert", "get",
                                        "upsert"}]
           /\ key' \in [Workers -> SettingKeys] /\ serving' \in BOOLEAN
           /\ \A v \in Workers \ {w} : setting'[v] = setting[v] /\ key'[v] = key[v]
           /\ setting'[w] \in {"look", "idle"}
  <1>1. CASE key[w] + 1 \in SettingKeys
    BY <1>1 DEF Stored!NextSetting, Stored!Goto, Stored!TypeOK
  <1>2. CASE key[w] + 1 \notin SettingKeys
    BY <1>2 DEF Stored!NextSetting, Stored!Goto, Stored!TypeOK
  <1> QED BY <1>1, <1>2

\* A row is written and whoever means to write it too is overtaken.
LEMMA UpsertTyped ==
    ASSUME Stored!TypeOK, NEW w \in Workers, NEW row2 \in Stored!Rows,
           Stored!UpsertSetting(w, row2)
    PROVE  /\ table' \in [SettingKeys -> Stored!Rows \union {NoRow}]
           /\ overtaken' \subseteq Workers
  BY DEF Stored!UpsertSetting, Stored!TypeOK

LEMMA RevisedIsARow ==
    ASSUME NEW is \in BOOLEAN, NEW value \in Stored!Inputs,
           NEW old \in Stored!Rows
    PROVE  Stored!Revised(is, value, old) \in Stored!Rows
  <1>1. CASE is /\ value = Stored!Mask
    BY <1>1, Zenon DEF Stored!Revised
  <1>2. CASE ~(is /\ value = Stored!Mask)
    <2>1. (is /\ value # Stored!Empty) \in BOOLEAN
      OBVIOUS
    <2>2. [value |-> value, sealed |-> is /\ value # Stored!Empty]
             \in Stored!Rows
      BY <2>1, Zenon DEF Stored!Rows
    <2> QED BY <1>2, <2>2, Zenon DEF Stored!Revised
  <1> QED BY <1>1, <1>2

LEMMA RevisedTyped ==
    ASSUME StoredInv, NEW w \in Workers, setting[w] = "upsert"
    PROVE  Stored!Revised(key[w] \in SecretKeys, asked[w], read[w]) \in Stored!Rows
  <1>1. asked[w] \in Stored!Inputs /\ read[w] \in Stored!Rows
    BY DEF StoredInv, LookedUp
  <1>2. (key[w] \in SecretKeys) \in BOOLEAN
    OBVIOUS
  <1> QED BY <1>1, <1>2, RevisedIsARow, Zenon

LEMMA DefaultTyped ==
    [value |-> Stored!Default, sealed |-> FALSE] \in Stored!Rows
  BY DEF Stored!Rows, Stored!Inputs

LEMMA StoredNextTyped ==
    ASSUME StoredInv, Stored!Next
    PROVE  Stored!TypeOK'
  <1> USE DEF StoredInv, Stored!TypeOK, Stored!Goto, Stored!local
  <1>1. ASSUME NEW w \in Workers, NEW point \in {"look", "get"},
               NEW k \in SettingKeys, NEW value \in Stored!Inputs \union {NoRow},
               Stored!Begin(w, point, k, value)
        PROVE  Stored!TypeOK'
    <2>1. requests' \in 0..MaxSettingRequests
      BY <1>1, RequestsType DEF Stored!Begin
    <2>2. /\ setting' \in [Workers -> {"idle", "look", "insert", "get", "upsert"}]
          /\ key' \in [Workers -> SettingKeys]
          /\ asked' \in [Workers -> Stored!Inputs \union {NoRow}]
          /\ read' \in [Workers -> Stored!Rows \union {NoRow}]
          /\ overtaken' \subseteq Workers
      BY <1>1 DEF Stored!Begin
    <2> QED BY <1>1, <2>1, <2>2 DEF Stored!Begin
  <1>2. ASSUME NEW w \in Workers, Stored!LookUp(w) PROVE Stored!TypeOK'
    BY <1>2, NextSettingTyped DEF Stored!LookUp
  <1>3. ASSUME NEW w \in Workers, Stored!InsertDefault(w) PROVE Stored!TypeOK'
    BY <1>3, NextSettingTyped, UpsertTyped, DefaultTyped
       DEF Stored!InsertDefault
  <1>4. ASSUME NEW w \in Workers, Stored!GetSetting(w) PROVE Stored!TypeOK'
    BY <1>4 DEF Stored!GetSetting
  <1>5. ASSUME NEW w \in Workers, Stored!StoreUpdate(w) PROVE Stored!TypeOK'
    BY <1>5, RevisedTyped, UpsertTyped DEF Stored!StoreUpdate
  <1>6. ASSUME NEW w \in Workers, Stored!Fail(w) PROVE Stored!TypeOK'
    BY <1>6 DEF Stored!Fail
  <1>7. ASSUME NEW w \in Workers, Stored!BootstrapDefaults(w)
        PROVE  Stored!TypeOK'
    BY <1>1, <1>7, SettingKeysType DEF Stored!BootstrapDefaults
  <1>8. ASSUME NEW w \in Workers, NEW k \in SettingKeys,
               NEW value \in Stored!Inputs, Stored!Update(w, k, value)
        PROVE  Stored!TypeOK'
    BY <1>1, <1>8 DEF Stored!Update
  <1> QED BY <1>2, <1>3, <1>4, <1>5, <1>6, <1>7, <1>8 DEF Stored!Next

\* A worker that does not move has looked it up as before, when no row of its
\* key is written, and when one is, is overtaken.
LEMMA LookedFrame ==
    ASSUME StoredInv, NEW v \in Workers,
           setting'[v] = setting[v], key'[v] = key[v],
           asked'[v] = asked[v], read'[v] = read[v],
           \/ table' = table /\ (v \in overtaken => v \in overtaken')
           \/ \E w \in Workers \ {v}, r \in Stored!Rows :
                 Stored!UpsertSetting(w, r)
    PROVE  LookedUp(v)'
  <1>0. LookedUp(v)
    BY DEF StoredInv
  <1>1. CASE table' = table /\ (v \in overtaken => v \in overtaken')
    BY <1>0, <1>1 DEF LookedUp
  <1>2. ASSUME NEW w \in Workers \ {v}, NEW r \in Stored!Rows,
               Stored!UpsertSetting(w, r)
        PROVE  LookedUp(v)'
    <2>1. CASE setting[v] \in {"insert", "upsert"} /\ key[v] = key[w]
      <3>1. v \in overtaken'
        BY <1>2, <2>1 DEF Stored!UpsertSetting
      <3> QED BY <1>0, <3>1 DEF LookedUp
    <2>2. CASE key[v] # key[w]
      <3>1. table'[key[v]] = table[key[v]]
        BY <1>2, <2>2 DEF Stored!UpsertSetting, StoredInv, Stored!TypeOK
      <3>2. v \in overtaken => v \in overtaken'
        BY <1>2 DEF Stored!UpsertSetting
      <3> QED BY <1>0, <3>1, <3>2 DEF LookedUp
    <2>3. CASE setting[v] \notin {"insert", "upsert"}
      BY <1>0, <2>3 DEF LookedUp
    <2> QED BY <2>1, <2>2, <2>3
  <1> QED BY <1>1, <1>2

LEMMA NextLooked ==
    ASSUME StoredInv, Stored!Next, NEW v \in Workers
    PROVE  LookedUp(v)'
  <1> USE DEF Stored!Goto, Stored!local
  <1>0. Stored!TypeOK /\ LookedUp(v)
    BY DEF StoredInv
  <1>1. ASSUME NEW w \in Workers, NEW point, NEW k, NEW value,
               Stored!Begin(w, point, k, value),
               point = "look" \/ (point = "get" /\ value \in Stored!Inputs)
        PROVE  LookedUp(v)'
    <2>1. CASE v = w
      BY <1>0, <1>1, <2>1 DEF Stored!Begin, LookedUp, Stored!TypeOK
    <2>2. CASE v # w
      BY <1>0, <1>1, <2>2, LookedFrame DEF Stored!Begin, Stored!TypeOK
    <2> QED BY <2>1, <2>2
  <1>2. ASSUME NEW w \in Workers, Stored!LookUp(w) PROVE LookedUp(v)'
    <2>1. CASE v = w
      BY <1>0, <1>2, <2>1, NextSettingTyped
         DEF Stored!LookUp, LookedUp, Stored!TypeOK
    <2>2. CASE v # w
      BY <1>0, <1>2, <2>2, LookedFrame, NextSettingTyped
         DEF Stored!LookUp, Stored!TypeOK
    <2> QED BY <2>1, <2>2
  <1>3. ASSUME NEW w \in Workers, Stored!InsertDefault(w) PROVE LookedUp(v)'
    <2>1. CASE v = w
      BY <1>0, <1>3, <2>1, NextSettingTyped DEF Stored!InsertDefault, LookedUp
    <2>2. CASE v # w
      BY <1>0, <1>3, <2>2, LookedFrame, NextSettingTyped, DefaultTyped
         DEF Stored!InsertDefault
    <2> QED BY <2>1, <2>2
  <1>4. ASSUME NEW w \in Workers, Stored!GetSetting(w) PROVE LookedUp(v)'
    <2>1. CASE v = w
      BY <1>0, <1>4, <2>1 DEF Stored!GetSetting, LookedUp, Stored!TypeOK
    <2>2. CASE v # w
      BY <1>0, <1>4, <2>2, LookedFrame DEF Stored!GetSetting, Stored!TypeOK
    <2> QED BY <2>1, <2>2
  <1>5. ASSUME NEW w \in Workers, Stored!StoreUpdate(w) PROVE LookedUp(v)'
    <2>1. CASE v = w
      BY <1>0, <1>5, <2>1 DEF Stored!StoreUpdate, LookedUp, Stored!TypeOK
    <2>2. CASE v # w
      BY <1>0, <1>5, <2>2, LookedFrame, RevisedTyped
         DEF Stored!StoreUpdate, Stored!TypeOK
    <2> QED BY <2>1, <2>2
  <1>6. ASSUME NEW w \in Workers, Stored!Fail(w) PROVE LookedUp(v)'
    <2>1. CASE v = w
      BY <1>0, <1>6, <2>1 DEF Stored!Fail, LookedUp, Stored!TypeOK
    <2>2. CASE v # w
      BY <1>0, <1>6, <2>2, LookedFrame DEF Stored!Fail, Stored!TypeOK
    <2> QED BY <2>1, <2>2
  <1>7. ASSUME NEW w \in Workers, Stored!BootstrapDefaults(w)
        PROVE  LookedUp(v)'
    BY <1>1, <1>7 DEF Stored!BootstrapDefaults
  <1>8. ASSUME NEW w \in Workers, NEW k \in SettingKeys,
               NEW value \in Stored!Inputs, Stored!Update(w, k, value)
        PROVE  LookedUp(v)'
    BY <1>1, <1>8 DEF Stored!Update
  <1> QED BY <1>2, <1>3, <1>4, <1>5, <1>6, <1>7, <1>8 DEF Stored!Next

LEMMA StoredInductive == Stored!Spec => []StoredInv
  <1>1. Stored!Init => StoredInv
    <2> SUFFICES ASSUME Stored!Init PROVE StoredInv
      OBVIOUS
    <2>1. Stored!TypeOK
      <3>1. requests \in 0..MaxSettingRequests
        BY RequestsType DEF Stored!Init
      <3>2. serving \in BOOLEAN
        BY DEF Stored!Init
      <3> QED BY <3>1, <3>2, SettingKeysType DEF Stored!Init, Stored!TypeOK
    <2>2. \A w \in Workers : LookedUp(w)
      BY DEF Stored!Init, LookedUp
    <2> QED BY <2>1, <2>2 DEF StoredInv
  <1>2. StoredInv /\ [Stored!Next]_(Stored!vars) => StoredInv'
    <2> SUFFICES ASSUME StoredInv, [Stored!Next]_(Stored!vars) PROVE StoredInv'
      OBVIOUS
    <2>1. CASE Stored!Next
      BY <2>1, StoredNextTyped, NextLooked DEF StoredInv
    <2>2. CASE UNCHANGED Stored!vars
      BY <2>2 DEF Stored!vars, Stored!local, StoredInv, Stored!TypeOK, LookedUp
    <2> QED BY <2>1, <2>2
  <1> QED BY <1>1, <1>2, PTL DEF Stored!Spec

\* What is written by a worker that was not overtaken is what its request asks
\* for, or what was there.
LEMMA StepKeepsValues ==
    ASSUME StoredInv, Stored!Next, NEW k \in SettingKeys, table[k] # NoRow,
           table'[k] # table[k]
    PROVE  \E w \in Workers :
              /\ setting[w] \in {"insert", "upsert"} /\ key[w] = k
              /\ setting'[w] # setting[w]
              /\ Stored!Asks(w, k, table'[k]) \/ w \in overtaken
  <1> USE DEF Stored!Goto, Stored!local
  <1>0. Stored!TypeOK
    BY DEF StoredInv
  <1>1. ASSUME NEW w \in Workers, Stored!InsertDefault(w)
        PROVE  /\ setting[w] = "insert" /\ key[w] = k /\ w \in overtaken
               /\ setting'[w] # setting[w]
    <2>1. key[w] = k
      BY <1>0, <1>1
         DEF Stored!InsertDefault, Stored!UpsertSetting, Stored!TypeOK
    <2>2. setting[w] = "insert" /\ w \in overtaken
      BY <1>1, <2>1 DEF Stored!InsertDefault, StoredInv, LookedUp
    <2>3. setting'[w] # setting[w]
      BY <1>0, <1>1, <2>2, NextSettingTyped DEF Stored!InsertDefault
    <2> QED BY <2>1, <2>2, <2>3
  <1>2. ASSUME NEW w \in Workers, Stored!StoreUpdate(w)
        PROVE  /\ setting[w] = "upsert" /\ key[w] = k
               /\ setting'[w] # setting[w]
               /\ Stored!Asks(w, k, table'[k]) \/ w \in overtaken
    <2>1. key[w] = k /\ setting[w] = "upsert" /\ setting'[w] = "idle"
      BY <1>0, <1>2 DEF Stored!StoreUpdate, Stored!UpsertSetting, Stored!TypeOK
    <2>2. /\ table'[k] = Stored!Revised(key[w] \in SecretKeys, asked[w], read[w])
          /\ asked[w] \in Stored!Inputs
      BY <1>0, <1>2, <2>1 DEF Stored!StoreUpdate, Stored!UpsertSetting,
         Stored!TypeOK, StoredInv, LookedUp
    <2>3. CASE k \in SecretKeys /\ asked[w] = Stored!Mask
      <3>1. table'[k] = read[w]
        BY <2>1, <2>2, <2>3 DEF Stored!Revised
      <3>2. w \in overtaken
        BY <2>1, <3>1 DEF StoredInv, LookedUp
      <3> QED BY <2>1, <3>2
    <2>4. CASE ~(k \in SecretKeys /\ asked[w] = Stored!Mask)
      <3> DEFINE new == [value |-> asked[w],
                         sealed |-> k \in SecretKeys /\ asked[w] # Stored!Empty]
      <3>1. table'[k] = new
        BY <2>1, <2>2, <2>4, Zenon DEF Stored!Revised
      <3>2. new.value = asked[w]
        OBVIOUS
      <3>3. new.sealed = (k \in SecretKeys /\ asked[w] # Stored!Empty)
        OBVIOUS
      <3> HIDE DEF new
      <3>4. Stored!Asks(w, k, table'[k])
        BY <2>4, <3>1, <3>2, <3>3, Zenon DEF Stored!Asks
      <3> QED BY <2>1, <3>4
    <2> QED BY <2>3, <2>4
  <1>3. ASSUME table' = table PROVE FALSE
    BY <1>3
  <1> QED BY <1>1, <1>2, <1>3
          DEF Stored!Next, Stored!BootstrapDefaults, Stored!Begin,
              Stored!LookUp,
              Stored!Update, Stored!GetSetting, Stored!Fail

\* Settings, requests and rows keep their types (settings.go:60-110,
\* bootstrap.go:46-59).
THEOREM SettingsTypeCorrect == Stored!Spec => []Stored!TypeOK
  <1>1. StoredInv => Stored!TypeOK
    BY DEF StoredInv
  <1> QED BY <1>1, StoredInductive, PTL

\* A stored setting changes only as a request asks, a secret never to its mask,
\* unless the writer was overtaken after its look, with any number of processes
\* starting and requests under way (settings.go:79-82, bootstrap.go:46-59).
THEOREM SettingsAreKept == Stored!Spec => ValueKept
  <1> DEFINE Kept == \A k \in SettingKeys :
                table[k] # NoRow /\ table'[k] # table[k] =>
                   \E w \in Workers :
                      /\ setting[w] \in {"insert", "upsert"} /\ key[w] = k
                      /\ setting'[w] # setting[w]
                      /\ Stored!Asks(w, k, table'[k]) \/ w \in overtaken
  <1>1. StoredInv /\ [Stored!Next]_(Stored!vars) => [Kept]_(Stored!vars)
    BY StepKeepsValues
  <1> QED BY <1>1, StoredInductive, PTL
          DEF Stored!Spec, ValueKept, Stored!ValueKept
=============================================================================
