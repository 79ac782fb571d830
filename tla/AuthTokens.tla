----------------------------- MODULE AuthTokens -----------------------------
(***************************************************************************)
(* Logins, refresh tokens, MFA and the user rows they hang on.  A login or *)
(* a refresh reads the user, decides between a full and a setup-only pair  *)
(* of tokens and stores one refresh token; logout and deactivation revoke  *)
(* all of a user's; SetupMFA, VerifyMFA and Users.Update read a row,       *)
(* change a field and write the whole row back.                            *)
(*                                                                         *)
(* Every handler runs on a worker of its own and every SQL statement whose *)
(* answer or effect matters is an action.  A statement may fail, which     *)
(* ends the request, but for the reading of security.mfa_required: a login *)
(* or a refresh whose reading failed goes on as if MFA were not required.  *)
(* A crash of the API server ends the request of every worker.             *)
(* A refresh token that has expired, a wrong password or a wrong code is   *)
(* refused without a trace and is no step.                                 *)
(***************************************************************************)
EXTENDS Integers, FiniteSets

CONSTANTS Users, Workers, NoRow,
          Root,            \* the user with id 1, whom Delete refuses
          MaxTokens,       \* bound: refresh tokens ever stored
          MaxLogins,       \* bound: logins ever started
          MaxSetups,       \* bound: TOTP secrets ever generated
          MaxPasswords     \* bound: passwords ever set after the first

ASSUME BoundsType == /\ MaxTokens \in Nat /\ MaxLogins \in Nat
                     /\ MaxSetups \in Nat /\ MaxPasswords \in Nat

Ids == 1..MaxTokens
Families == 1..MaxLogins   \* a login and all the refreshes that follow it
NoSecret == 0              \* the empty string

Rows == [active : BOOLEAN, mfa : BOOLEAN, secret : 0..MaxSetups,
         password : 0..MaxPasswords]
Tokens == [user : Users, revoked : BOOLEAN]

ASSUME NoRowType == NoRow \notin Rows \union Tokens \union Users

VARIABLES
    users,        \* the table users
    tokens,       \* the table refresh_tokens, by the order of its inserts
    issued,       \* how many refresh tokens were stored
    mfaRequired,  \* the setting security.mfa_required
    pc,           \* [Workers -> Points]: the next statement of a handler
    op,           \* [Workers -> Ops]: what the request asks for
    subject,      \* the user a worker is about
    presented,    \* the refresh token a worker was given
    row,          \* the user row a worker read, or will write back
    full,         \* workers that will sign the user's roles into the token
    unread,       \* those of them that could not read the setting
    setups, passwords, logins,
    family,       \* history: the login a token descends from
    chain,        \* history: the login a worker's token will descend from
    rotated,      \* history: how often a token was exchanged
    ended,        \* history: logins ended by a logout or a deactivation
    spared,       \* history: of those, the ones past their checks just then
    stale,        \* history: workers whose row was written since they read it
    lost,         \* history: users deactivated without the revocation
    lax,          \* history: workers that saw MFA on, or not required
    proved        \* history: <<user, secret>> a valid code was shown for

db == <<users, tokens, issued, mfaRequired>>
local == <<pc, op, subject, presented, row, full, unread>>
counters == <<setups, passwords, logins>>
history == <<family, chain, rotated, ended, spared, stale, lost, proved>>
vars == <<db, local, counters, history, lax>>

Updates == {"activate", "deactivate", "password"}
Ops == {"none", "login", "refresh", "setup", "verify"} \union Updates
Points == {"idle", "rotate", "user", "setting", "store", "write", "revoke_all"}

TypeOK ==
    /\ users \in [Users -> Rows \union {NoRow}]
    /\ tokens \in [Ids -> Tokens \union {NoRow}]
    /\ issued \in 0..MaxTokens
    /\ mfaRequired \in BOOLEAN
    /\ pc \in [Workers -> Points]
    /\ op \in [Workers -> Ops]
    /\ subject \in [Workers -> Users \union {NoRow}]
    /\ presented \in [Workers -> 0..MaxTokens]
    /\ row \in [Workers -> Rows \union {NoRow}]
    /\ full \subseteq Workers /\ unread \subseteq Workers
    /\ setups \in 0..MaxSetups /\ passwords \in 0..MaxPasswords
    /\ logins \in 0..MaxLogins
    /\ family \in [Ids -> 0..MaxLogins]
    /\ chain \in [Workers -> 0..MaxLogins]
    /\ rotated \in [Ids -> Nat]
    /\ ended \subseteq Families /\ spared \subseteq Families
    /\ stale \subseteq Workers /\ lax \subseteq Workers
    /\ lost \subseteq Users
    /\ proved \subseteq Users \X (0..MaxSetups)

NewUser == [active |-> TRUE, mfa |-> FALSE, secret |-> NoSecret, password |-> 0]

Init ==
    /\ users = [u \in Users |-> NewUser]
    /\ tokens = [i \in Ids |-> NoRow]
    /\ issued = 0 /\ setups = 0 /\ passwords = 0 /\ logins = 0
    /\ mfaRequired = FALSE
    /\ pc = [w \in Workers |-> "idle"]
    /\ op = [w \in Workers |-> "none"]
    /\ subject = [w \in Workers |-> NoRow]
    /\ presented = [w \in Workers |-> 0]
    /\ row = [w \in Workers |-> NoRow]
    /\ full = {} /\ unread = {} /\ lax = {}
    /\ family = [i \in Ids |-> 0]
    /\ chain = [w \in Workers |-> 0]
    /\ rotated = [i \in Ids |-> 0]
    /\ ended = {} /\ spared = {} /\ stale = {} /\ lost = {} /\ proved = {}

Live(i) == tokens[i] # NoRow /\ ~tokens[i].revoked
LiveOf(u) == {i \in Ids : Live(i) /\ tokens[i].user = u}
Exists(u) == users[u] # NoRow

-----------------------------------------------------------------------------
(* Control of a worker *)

Goto(w, point) == pc' = [pc EXCEPT ![w] = point]

\* A request of kind o about u arrives and its first statement is done.
Begin(w, o, u, point) ==
    /\ pc[w] = "idle"
    /\ Goto(w, point)
    /\ op' = [op EXCEPT ![w] = o]
    /\ subject' = [subject EXCEPT ![w] = u]
    /\ UNCHANGED <<stale, full, unread>>

\* The handler returns; a worker keeps nothing.
Reset(w) ==
    /\ Goto(w, "idle")
    /\ op' = [op EXCEPT ![w] = "none"]
    /\ subject' = [subject EXCEPT ![w] = NoRow]
    /\ presented' = [presented EXCEPT ![w] = 0]
    /\ row' = [row EXCEPT ![w] = NoRow]
    /\ chain' = [chain EXCEPT ![w] = 0]
    /\ full' = full \ {w}
    /\ unread' = unread \ {w}
Return(w) == Reset(w) /\ stale' = stale \ {w}

\* A statement failed, or the answer it gave ends the request.
Refused(w) ==
    /\ Return(w)
    /\ UNCHANGED <<db, counters, family, rotated, ended, spared,
                   lost, proved>>

\* The reading of the setting is the one statement that ends nothing when it
\* fails.  A crash at that point is one a statement later: nothing differs.
Fail(w) ==
    /\ pc[w] \notin {"idle", "setting"}
    /\ lost' = IF pc[w] = "revoke_all"
               THEN lost \union {subject[w]} ELSE lost
    /\ Return(w)
    /\ UNCHANGED <<db, counters, family, rotated, ended, spared, proved>>

-----------------------------------------------------------------------------
(* AuthService.Login and AuthService.Refresh *)

\* Login reads the user by name and checks the password and, if the user has
\* MFA, the code; TouchUserLogin changes nothing that is modelled.
Login(w, u) ==
    /\ Begin(w, "login", u, "setting")
    /\ Exists(u) /\ users[u].active
    /\ logins < MaxLogins
    /\ logins' = logins + 1
    /\ chain' = [chain EXCEPT ![w] = logins + 1]
    /\ row' = [row EXCEPT ![w] = users[u]]
    /\ UNCHANGED <<db, presented, setups, passwords, family, rotated,
                   ended, spared, lost, proved>>

\* Refresh looks the token up by its hash and checks that it is not revoked.
Refresh(w, i) ==
    /\ Live(i)
    /\ Begin(w, "refresh", tokens[i].user, "rotate")
    /\ presented' = [presented EXCEPT ![w] = i]
    /\ chain' = [chain EXCEPT ![w] = family[i]]
    /\ UNCHANGED <<db, row, counters, family, rotated, ended, spared,
                   lost, proved>>

\* UPDATE ... WHERE id = ? AND revoked_at IS NULL, and one row must change.
MutantRevocable(i) == tokens[i] # NoRow
Revocable(i) == tokens[i] # NoRow /\ ~tokens[i].revoked

RevokeRefreshToken(w) ==
    LET i == presented[w]
    IN  /\ pc[w] = "rotate"
        /\ \/ /\ Revocable(i)
              /\ tokens' = [tokens EXCEPT ![i].revoked = TRUE]
              /\ rotated' = [rotated EXCEPT ![i] = @ + 1]
              /\ Goto(w, "user")
              /\ presented' = [presented EXCEPT ![w] = 0]
              /\ UNCHANGED <<users, issued, mfaRequired, op, subject,
                             row, full, unread, counters, family, chain,
                             ended, spared, stale, lost, proved>>
           \/ ~Revocable(i) /\ Refused(w)

RefreshReadUser(w) ==
    /\ pc[w] = "user"
    /\ \/ /\ Exists(subject[w]) /\ users[subject[w]].active
          /\ row' = [row EXCEPT ![w] = users[subject[w]]]
          /\ Goto(w, "setting")
          /\ UNCHANGED <<db, op, subject, presented, full, unread, counters,
                         history>>
       \/ /\ Exists(subject[w]) => ~users[subject[w]].active
          /\ Refused(w)

\* Whether the tokens carry the user's roles, or only allow to set MFA up.
\* settingBool gives FALSE for a setting it cannot read, and then everybody
\* is entitled.
MutantEntitled(user, required) == TRUE
Entitled(user, required) == user.mfa \/ ~required

ReadMFASetting(w) ==
    /\ pc[w] = "setting"
    /\ \/ /\ Entitled(row[w], mfaRequired)
          /\ full' = full \union {w} /\ UNCHANGED unread
       \/ ~Entitled(row[w], mfaRequired) /\ UNCHANGED <<full, unread>>
       \/ /\ ~Entitled(row[w], mfaRequired)
          /\ full' = full \union {w} /\ unread' = unread \union {w}
    /\ row' = [row EXCEPT ![w] = NoRow]
    /\ Goto(w, "store")
    /\ UNCHANGED <<db, op, subject, presented, counters, history>>

\* The foreign key refuses a token for a user who was deleted meanwhile.
CreateRefreshToken(w) ==
    /\ pc[w] = "store"
    /\ \/ /\ Exists(subject[w]) /\ issued < MaxTokens
          /\ issued' = issued + 1
          /\ tokens' = [tokens EXCEPT ![issued + 1] =
                            [user |-> subject[w], revoked |-> FALSE]]
          /\ family' = [family EXCEPT ![issued + 1] = chain[w]]
          /\ Return(w)
          /\ UNCHANGED <<users, mfaRequired, counters, rotated, ended,
                         spared, lost, proved>>
       \/ ~Exists(subject[w]) /\ Refused(w)

-----------------------------------------------------------------------------
(* Whole-row updates: SetupMFA, VerifyMFA, UserService.Update *)

ReadForUpdate(w, o, u, new) ==
    /\ Exists(u)
    /\ Begin(w, o, u, "write")
    /\ row' = [row EXCEPT ![w] = new]
    /\ UNCHANGED <<db, presented, logins, family, chain, rotated,
                   ended, spared, lost>>

MaySetUp(user) == ~user.mfa

SetupMFA(w, u) ==
    /\ setups < MaxSetups
    /\ setups' = setups + 1
    /\ Exists(u) /\ MaySetUp(users[u])
    /\ ReadForUpdate(w, "setup", u, [users[u] EXCEPT !.secret = setups + 1])
    /\ UNCHANGED <<passwords, proved>>

\* The code is checked against the secret of the row that was read.
VerifyMFA(w, u) ==
    /\ Exists(u) /\ users[u].secret # NoSecret
    /\ proved' = proved \union {<<u, users[u].secret>>}
    /\ ReadForUpdate(w, "verify", u, [users[u] EXCEPT !.mfa = TRUE])
    /\ UNCHANGED <<setups, passwords>>

MutantUpdated(user, o, new) ==
    [NewUser EXCEPT !.active = o # "deactivate", !.password = new]
Updated(user, o, new) ==
    CASE o = "activate"   -> [user EXCEPT !.active = TRUE]
      [] o = "deactivate" -> [user EXCEPT !.active = FALSE]
      [] o = "password"   -> [user EXCEPT !.password = new]

Update(w, u, o) ==
    /\ o = "password" => passwords < MaxPasswords
    /\ passwords' = IF o = "password" THEN passwords + 1 ELSE passwords
    /\ Exists(u)
    /\ ReadForUpdate(w, o, u, Updated(users[u], o, passwords'))
    /\ UNCHANGED <<setups, proved>>

\* What UserService.Update still does after the row is written.
AfterWrite(o) == IF o = "deactivate" THEN "revoke_all" ELSE "idle"

\* UPDATE users SET <every column> WHERE id = ?.
UpdateUser(w) ==
    LET u == subject[w]
        deactivates == users[u].active /\ ~row[w].active
    IN  /\ pc[w] = "write"
        /\ \/ /\ Exists(u)
              /\ users' = [users EXCEPT ![u] = row[w]]
              /\ stale' = (stale \ {w}) \union
                     {x \in Workers \ {w} : pc[x] = "write" /\ subject[x] = u}
              /\ lost' = IF deactivates /\ op[w] # "deactivate"
                         THEN lost \union {u} ELSE lost
              /\ \/ /\ AfterWrite(op[w]) = "revoke_all"
                    /\ Goto(w, "revoke_all")
                    /\ UNCHANGED <<op, subject, presented, row, full, unread, chain>>
                 \/ AfterWrite(op[w]) = "idle" /\ Reset(w)
              /\ UNCHANGED <<tokens, issued, mfaRequired, counters,
                             family, rotated, ended, spared, proved>>
           \/ ~Exists(u) /\ Refused(w)

\* Workers whose login or refresh has passed its last look at refresh_tokens.
PastRotation(w) == pc[w] \in {"user", "setting", "store"}

RevokeUserRefreshTokens(u) ==
    LET running == {w \in Workers : subject[w] = u /\ op[w] \in {"login", "refresh"}}
    IN  /\ tokens' = [i \in Ids |-> IF i \in LiveOf(u)
                                    THEN [tokens[i] EXCEPT !.revoked = TRUE]
                                    ELSE tokens[i]]
        /\ ended' = ended \union {family[i] : i \in LiveOf(u)}
                          \union {chain[w] : w \in running}
        /\ spared' = spared \union {chain[w] : w \in {x \in running : PastRotation(x)}}
        /\ UNCHANGED <<users, issued, mfaRequired, counters, family,
                       rotated, lost, proved>>

RevokeAfterUpdate(w) == /\ pc[w] = "revoke_all"
                        /\ RevokeUserRefreshTokens(subject[w])
                        /\ Return(w)

\* The access token that asks for it may have outlived the user.
Logout(u) == /\ RevokeUserRefreshTokens(u)
             /\ UNCHANGED <<local, chain, stale>>

\* Deleting the row takes its refresh tokens with it.
DeleteUser(u) ==
    /\ u # Root /\ Exists(u)
    /\ users' = [users EXCEPT ![u] = NoRow]
    /\ tokens' = [i \in Ids |-> IF tokens[i] # NoRow /\ tokens[i].user = u
                                THEN NoRow ELSE tokens[i]]
    /\ UNCHANGED <<issued, mfaRequired, local, counters, history>>

RequireMFA == /\ mfaRequired' = ~mfaRequired
              /\ UNCHANGED <<users, tokens, issued, local, counters,
                             history>>

-----------------------------------------------------------------------------
(* The specification *)

Handle(w) == \/ \E u \in Users : \/ Login(w, u)
                                 \/ SetupMFA(w, u)
                                 \/ VerifyMFA(w, u)
                                 \/ \E o \in Updates : Update(w, u, o)
             \/ \E i \in Ids : Refresh(w, i)
             \/ RevokeRefreshToken(w)
             \/ RefreshReadUser(w)
             \/ ReadMFASetting(w)
             \/ CreateRefreshToken(w)
             \/ UpdateUser(w)
             \/ RevokeAfterUpdate(w)
             \/ Fail(w)

\* MFA is on for the user, or nobody requires it.
Lax(rows, required, u) == ~required \/ (rows[u] # NoRow /\ rows[u].mfa)

Observe == lax' = {w \in Workers : /\ op'[w] \in {"login", "refresh"}
                                   /\ \/ pc[w] # "idle" /\ w \in lax
                                      \/ Lax(users, mfaRequired, subject'[w])
                                      \/ Lax(users', mfaRequired', subject'[w])}

Next == /\ \/ \E w \in Workers : Handle(w)
           \/ \E u \in Users : Logout(u) \/ DeleteUser(u)
           \/ RequireMFA
        /\ Observe

Spec == Init /\ [][Next]_vars

(***************************************************************************)
(* Properties                                                              *)
(***************************************************************************)

\* Logout and deactivation end a login for good: of the logins they found,
\* only one whose login or refresh was past its checks at that very moment
\* ever holds a live token again (auth.go:95, users.go:118).
EndedStaysEnded ==
    \A i \in Ids : Live(i) /\ family[i] \in ended => family[i] \in spared

\* A deactivated user holds no live token, but for such a login, while the
\* deactivation is still running, or if its revocation failed or the row was
\* switched off by an overtaken write (users.go:115-122).
InactiveHoldsNothing ==
    \A u \in Users : Exists(u) /\ ~users[u].active =>
        \/ \A i \in LiveOf(u) : family[i] \in spared
        \/ u \in lost
        \/ \E w \in Workers : pc[w] = "revoke_all" /\ subject[w] = u

\* What was ended stays ended, for the login and for the user.
EndedIsOver == EndedStaysEnded /\ InactiveHoldsNothing

\* While MFA is required, tokens with the user's roles are signed only for a
\* user who was seen with MFA on, or who was checked while it was not yet
\* required; the others get the setup-only pair (auth.go:53, auth.go:87).  Only
\* a reading of the setting that failed lets anybody else through: it counts as
\* FALSE (settings_policy.go:14), although the setting is described as "Require
\* MFA for all users" (bootstrap.go:140).
RolesNeedMFA == \A w \in full \ unread : w \in lax

\* MFA is never on with a secret its owner has not shown a code for, however
\* SetupMFA, VerifyMFA and Update overtake each other: the whole row is
\* written, so flag and secret come from the same reading (auth.go:99-129).
SecretWasProved ==
    \A u \in Users : Exists(u) /\ users[u].mfa => <<u, users[u].secret>> \in proved

\* Roles are given for MFA, and MFA for a code.
MFAHolds == RolesNeedMFA /\ SecretWasProved

\* The columns a request means to change.
Meant(o) == CASE o = "setup" -> {"secret"}
              [] o = "verify" -> {"mfa"}
              [] o \in {"activate", "deactivate"} -> {"active"}
              [] o = "password" -> {"password"}
              [] OTHER -> {}

\* A user's row changes in the column a request is about and in no other,
\* unless the request was overtaken since it read the row: then, and only
\* then, a deactivation, a new password or MFA may be undone (users.go:115).
OnlyOvertakenUndo ==
    [][\A u \in Users, f \in {"active", "mfa", "secret", "password"} :
          users[u] # NoRow /\ users'[u] # NoRow /\ users[u][f] # users'[u][f] =>
             \E w \in Workers : /\ pc[w] = "write" /\ pc'[w] # "write"
                                /\ subject[w] = u
                                /\ (f \in Meant(op[w]) \/ w \in stale)]_vars

\* A refresh token is a one-time token: exchanged once, or withdrawn.
Status(i) == IF i > issued THEN "unminted"
             ELSE IF tokens[i] # NoRow /\ ~tokens[i].revoked THEN "open"
             ELSE IF tokens[i] # NoRow /\ rotated[i] = 1 THEN "spent"
             ELSE "withdrawn"
Promise == INSTANCE OneTimeToken WITH Tokens <- Ids,
                                      state <- [i \in Ids |-> Status(i)],
                                      served <- rotated

\* Every step of the code is one the promise of a one-time token allows: no
\* refresh token pays twice and none comes back after logout or deletion.
ImplementsOneTime == Promise!Spec

=============================================================================
