--------------------------- MODULE ConnectionToken ---------------------------
(***************************************************************************)
(* Connection tokens: how a user of the web UI hands a connection over to  *)
(* a proxy.  TokenService.Issue writes a row that lives five minutes;      *)
(* TokenService.VerifyWithOptions, called by the proxies, gives the        *)
(* account's secret in exchange for it and marks a one-time token used.    *)
(* Both are sequences of independent SQL statements outside a transaction  *)
(* (db.go opens a pool of 25 connections), so requests interleave with     *)
(* each other and with the administrators' updates between any two of      *)
(* their reads.  Each read is an action here.                              *)
(*                                                                         *)
(* Secrets, ports and addresses are not modelled: the port lookup and the  *)
(* two decryptions are one step that may fail.                             *)
(***************************************************************************)
EXTENDS Integers, FiniteSets

CONSTANTS Users, Assets, Accounts,
          AssetOf,          \* the asset an account belongs to (never updated)
          Tokens,           \* token values; uuid.NewString never repeats one
          Workers,          \* goroutines of the API server handling requests
          Spellings,        \* protocol names a request may carry
          TTL,              \* lifetime of a token: five minutes in the code
          NoRow,
          MaxTime,          \* bound: the clock stops here
          MaxAdminOps       \* bound: updates by administrators

Entities == Users \union Assets \union Accounts

ASSUME EntitiesDisjoint == /\ Users \intersect Assets = {}
                           /\ Users \intersect Accounts = {}
                           /\ Assets \intersect Accounts = {}
ASSUME AssetOfType == AssetOf \in [Accounts -> Assets]
ASSUME SpellingsType == Spellings \subseteq STRING
ASSUME BoundsType == TTL \in Nat \ {0} /\ MaxTime \in Nat /\ MaxAdminOps \in Nat

\* Case and blanks are already folded in Spellings.
canonicalConnectionProtocol(p) ==
    IF p = "" THEN "ssh" ELSE IF p = "postgresql" THEN "postgres" ELSE p

\* An empty expectation accepts every protocol.
canonicalExpectedProtocol(p) ==
    IF p = "" THEN "" ELSE canonicalConnectionProtocol(p)

\* The names that may be stored in a token, and asked for by a proxy.
Protocols == (Spellings \ {"", "postgresql"}) \union {"ssh", "postgres"}
Expectations == Protocols \union {""}

Unused == -1

Rows == [user : Users, account : Accounts, protocol : Protocols,
         reusable : BOOLEAN, expiresAt : Nat, usedAt : Nat \union {Unused}]

ASSUME NoRowType == NoRow \notin Rows

IssueRequests == [user : Users, asset : Assets, account : Accounts,
                  protocol : Protocols, reusable : BOOLEAN]
VerifyRequests == [token : Tokens, expected : Expectations, consume : BOOLEAN]

VARIABLES
    now,        \* the clock of the API server and of the database
    status,     \* [Entities -> {"active", "inactive", "gone"}]
    connect,    \* pairs <<user, account>> an effective permission covers
    rows,       \* the table connection_tokens
    pc,         \* [Workers -> Points]: the next statement of a handler
    req,        \* the request a worker handles
    tok,        \* the token row a verification read
    adminOps,
    minted,     \* history: how each token value was issued
    grants,     \* history: consuming verifications of a one-time token answered
    held        \* history: conditions that held at some point of the request

env == <<now, status, connect, adminOps>>
local == <<pc, req, tok>>
history == <<minted, grants, held>>
vars == <<env, rows, local, history>>

IssuePoints == {"issue_asset", "issue_account", "issue_permission", "insert"}
ReadPoints == {"user", "asset", "account", "permission", "target", "consume"}
\* "granted": the last verification of the worker was answered with a secret.
Points == {"idle", "granted", "load"} \union IssuePoints \union ReadPoints

\* What must be true for a connection to be granted.
Conditions == {"proxy", "unexpired", "protocol", "user", "asset", "account",
               "permission"}

TypeOK ==
    /\ now \in Nat
    /\ status \in [Entities -> {"active", "inactive", "gone"}]
    /\ connect \subseteq Users \X Accounts
    /\ adminOps \in Nat
    /\ rows \in [Tokens -> Rows \union {NoRow}]
    /\ pc \in [Workers -> Points]
    /\ req \in [Workers -> IssueRequests \union VerifyRequests \union {NoRow}]
    /\ tok \in [Workers -> Rows \union {NoRow}]
    /\ minted \in [Tokens -> {"never", "once", "many"}]
    /\ grants \in [Tokens -> Nat]
    /\ held \in [Workers -> SUBSET Conditions]

Init ==
    /\ now = 0
    /\ status \in [Entities -> {"active", "inactive"}]
    /\ connect \in SUBSET (Users \X Accounts)
    /\ adminOps = 0
    /\ rows = [t \in Tokens |-> NoRow]
    /\ pc = [w \in Workers |-> "idle"]
    /\ req = [w \in Workers |-> NoRow]
    /\ tok = [w \in Workers |-> NoRow]
    /\ minted = [t \in Tokens |-> "never"]
    /\ grants = [t \in Tokens |-> 0]
    /\ held = [w \in Workers |-> {}]

-----------------------------------------------------------------------------
(* Control of a worker *)

Goto(w, point) == pc' = [pc EXCEPT ![w] = point]

\* An early return: nothing but the worker's own state changes.
Fail(w) == /\ Goto(w, "idle")
           /\ req' = [req EXCEPT ![w] = NoRow]
           /\ tok' = [tok EXCEPT ![w] = NoRow]
           /\ held' = [held EXCEPT ![w] = {}]
           /\ UNCHANGED <<env, rows, minted, grants>>

\* One statement that only reads: go on if its answer allows it.
Step(w, from, to, allowed) ==
    /\ pc[w] = from
    /\ \/ /\ allowed
          /\ Goto(w, to)
          /\ UNCHANGED <<env, rows, req, tok, history>>
       \/ ~allowed /\ Fail(w)

-----------------------------------------------------------------------------
(* TokenService.Issue *)

\* Bound: as many requests in flight as there are token values left.
TokenLeft == Cardinality({x \in Workers : pc[x] \in IssuePoints})
                < Cardinality({t \in Tokens : minted[t] = "never"})

StartIssue(w, u, s, a, p, r) ==
    /\ pc[w] \in {"idle", "granted"}
    /\ TokenLeft
    /\ Goto(w, "issue_asset")
    /\ req' = [req EXCEPT ![w] =
                 [user |-> u, asset |-> s, account |-> a,
                  protocol |-> canonicalConnectionProtocol(p), reusable |-> r]]
    /\ held' = [held EXCEPT ![w] = {}]
    /\ UNCHANGED <<env, rows, tok, minted, grants>>

\* The code tests both IsActive flags after the second read; a request that
\* finds one of them false fails either way.
IssueReadAsset(w) ==
    Step(w, "issue_asset", "issue_account", status[req[w].asset] = "active")

IssueReadAccount(w) ==
    Step(w, "issue_account", "issue_permission",
         /\ AssetOf[req[w].account] = req[w].asset
         /\ status[req[w].account] = "active")

IssueReadPermission(w) ==
    Step(w, "issue_permission", "insert",
         <<req[w].user, req[w].account>> \in connect)

Exists(e) == status[e] # "gone"

\* uuid.NewString
NewValue(t) == minted[t] = "never"

\* The foreign keys refuse a row whose user, asset or account is gone.
ReferencesHold(q) == Exists(q.user) /\ Exists(q.asset) /\ Exists(q.account)

CreateConnectionToken(w) ==
    /\ pc[w] = "insert"
    /\ LET q == req[w]
       IN  \/ /\ ReferencesHold(q)
              /\ \E t \in Tokens :
                    /\ NewValue(t)
                    /\ rows' = [rows EXCEPT ![t] =
                          [user |-> q.user, account |-> q.account,
                           protocol |-> q.protocol, reusable |-> q.reusable,
                           expiresAt |-> now + TTL, usedAt |-> Unused]]
                    /\ minted' = [minted EXCEPT
                                    ![t] = IF q.reusable THEN "many" ELSE "once"]
              /\ Goto(w, "idle")
              /\ req' = [req EXCEPT ![w] = NoRow]
              /\ UNCHANGED <<env, tok, grants, held>>
           \/ ~ReferencesHold(q) /\ Fail(w)

-----------------------------------------------------------------------------
(* TokenService.VerifyWithOptions *)

\* The conditions on row and request that hold in the present state.
Holding(row, q) ==
    {c \in Conditions :
        \/ c = "unexpired" /\ now <= row.expiresAt
        \/ c = "protocol" /\ q.expected \in {"", row.protocol}
        \/ c = "user" /\ status[row.user] = "active"
        \/ c = "asset" /\ status[AssetOf[row.account]] = "active"
        \/ c = "account" /\ status[row.account] = "active"
        \/ c = "permission" /\ <<row.user, row.account>> \in connect}

\* AuthorizeProxy is a pure test of the request: the shared secret and the
\* address whitelist.  A request that fails it touches nothing.
StartVerify(w, t, p, consume, trusted) ==
    /\ pc[w] \in {"idle", "granted"}
    /\ \/ /\ trusted
          /\ Goto(w, "load")
          /\ req' = [req EXCEPT ![w] =
                       [token |-> t, expected |-> canonicalExpectedProtocol(p),
                        consume |-> consume]]
          /\ held' = [held EXCEPT ![w] = {"proxy"}]
          /\ UNCHANGED <<env, rows, tok, minted, grants>>
       \/ ~trusted /\ Fail(w)

\* The tests on the row alone: not found, expired, used, or for a protocol
\* other than the proxy's.
Presentable(row, q) == /\ row # NoRow
                       /\ now <= row.expiresAt
                       /\ row.usedAt = Unused
                       /\ q.expected = "" \/ row.protocol = q.expected

LoadToken(w) ==
    /\ pc[w] = "load"
    /\ LET row == rows[req[w].token]
       IN  \/ /\ Presentable(row, req[w])
              /\ Goto(w, "user")
              /\ tok' = [tok EXCEPT ![w] = row]
              /\ held' = [held EXCEPT ![w] = @ \union Holding(row, req[w])]
              /\ UNCHANGED <<env, rows, req, minted, grants>>
           \/ ~Presentable(row, req[w]) /\ Fail(w)

VerifyReadUser(w) ==
    Step(w, "user", "asset", status[tok[w].user] = "active")

VerifyReadAsset(w) ==
    Step(w, "asset", "account", status[AssetOf[tok[w].account]] = "active")

VerifyReadAccount(w) ==
    Step(w, "account", "permission", status[tok[w].account] = "active")

\* HasAssetPermission; the permission is asked for again because it may have
\* been withdrawn since Issue asked for it.
MutantPermissionAtIssue(w) == Step(w, "permission", "target", TRUE)
VerifyReadPermission(w) ==
    Step(w, "permission", "target", <<tok[w].user, tok[w].account>> \in connect)

\* The request is answered with the target and the secret.  What the history
\* counts does not depend on the branch the code took.
Answer(w) ==
    /\ Goto(w, "granted")
    /\ grants' = [grants EXCEPT ![req[w].token] =
                     IF req[w].consume /\ minted[req[w].token] = "once"
                     THEN @ + 1 ELSE @]
    /\ req' = [req EXCEPT ![w] = NoRow]
    /\ tok' = [tok EXCEPT ![w] = NoRow]
    /\ UNCHANGED <<env, minted, held>>

MutantConsumePreview(w) == ~tok[w].reusable
MustConsume(w) == req[w].consume /\ ~tok[w].reusable

\* GetAssetProtocolPort and the two DecryptString calls; a failure leaves the
\* token as it was.
ResolveTarget(w) ==
    /\ pc[w] = "target"
    /\ \/ /\ MustConsume(w)
          /\ Goto(w, "consume")
          /\ UNCHANGED <<env, rows, req, tok, history>>
       \/ /\ ~MustConsume(w)
          /\ Answer(w)
          /\ UNCHANGED rows
       \/ Fail(w)

\* The WHERE clause of the UPDATE that sets used_at.
MutantExpiresNow(row) == /\ row # NoRow
                         /\ ~row.reusable
                         /\ row.usedAt = Unused
                         /\ row.expiresAt >= now
Consumable(row) == /\ row # NoRow
                   /\ ~row.reusable
                   /\ row.usedAt = Unused
                   /\ row.expiresAt > now

\* One UPDATE ... WHERE ... RETURNING statement.
ConsumeConnectionToken(w) ==
    /\ pc[w] = "consume"
    /\ LET t == req[w].token
       IN  \/ /\ Consumable(rows[t])
              /\ rows' = [rows EXCEPT ![t].usedAt = now]
              /\ Answer(w)
           \/ ~Consumable(rows[t]) /\ Fail(w)

-----------------------------------------------------------------------------
(* Administrators and time *)

\* Requests in flight take note of the conditions that hold afterwards.
Observe ==
    held' = [w \in Workers |->
                IF pc[w] \in ReadPoints
                THEN held[w] \union Holding(tok[w], req[w])'
                ELSE held[w]]

\* Workers do not move: only what the administrator changed and held do.
AdminStep == /\ adminOps < MaxAdminOps
             /\ adminOps' = adminOps + 1
             /\ UNCHANGED <<now, local, minted, grants>>
             /\ Observe

\* UpdateUser, UpdateAsset and UpdateAccount write is_active.
SetActive(e, s) ==
    /\ Exists(e)
    /\ s # status[e]
    /\ status' = [status EXCEPT ![e] = s]
    /\ UNCHANGED <<connect, rows>>
    /\ AdminStep

\* What ON DELETE CASCADE removes with e.
Cascade(e) == {e} \union {a \in Accounts : AssetOf[a] = e}

Delete(e) ==
    /\ Exists(e)
    /\ status' = [x \in Entities |-> IF x \in Cascade(e) THEN "gone" ELSE status[x]]
    /\ rows' = [t \in Tokens |->
                  IF /\ rows[t] # NoRow
                     /\ \/ rows[t].user = e
                        \/ rows[t].account \in Cascade(e)
                  THEN NoRow ELSE rows[t]]
    /\ UNCHANGED connect
    /\ AdminStep

\* A permission is created, edited, deleted, or its dates pass.
ChangePermission(u, a) ==
    /\ connect' = IF <<u, a>> \in connect THEN connect \ {<<u, a>>}
                                          ELSE connect \union {<<u, a>>}
    /\ UNCHANGED <<status, rows>>
    /\ AdminStep

Tick == /\ now < MaxTime
        /\ now' = now + 1
        /\ UNCHANGED <<status, connect, adminOps, rows, local, history>>

-----------------------------------------------------------------------------

Issue(w) ==
    \/ \E u \in Users, s \in Assets, a \in Accounts, p \in Spellings,
          r \in BOOLEAN : StartIssue(w, u, s, a, p, r)
    \/ IssueReadAsset(w)
    \/ IssueReadAccount(w)
    \/ IssueReadPermission(w)
    \/ CreateConnectionToken(w)

Verify(w) ==
    \/ \E t \in Tokens, p \in Spellings, consume, trusted \in BOOLEAN :
          StartVerify(w, t, p, consume, trusted)
    \/ LoadToken(w)
    \/ VerifyReadUser(w)
    \/ VerifyReadAsset(w)
    \/ VerifyReadAccount(w)
    \/ VerifyReadPermission(w)
    \/ ResolveTarget(w)
    \/ ConsumeConnectionToken(w)

Admin ==
    \/ \E e \in Entities, s \in {"active", "inactive"} : SetActive(e, s)
    \/ \E e \in Entities : Delete(e)
    \/ \E u \in Users, a \in Accounts : ChangePermission(u, a)

Next == \/ \E w \in Workers : Issue(w) \/ Verify(w)
        \/ Admin
        \/ Tick

Spec == Init /\ [][Next]_vars

-----------------------------------------------------------------------------
(* Properties *)

\* A one-time token pays for at most one connection, however many proxies
\* present it at the same time: all of them may pass the test on the row they
\* loaded, only one UPDATE finds used_at NULL.
AtMostOneGrant == \A t \in Tokens : grants[t] <= 1

\* used_at is set exactly when the token paid for a connection, in time.  A
\* verification that fails at any check, or that only looks (consume=false),
\* leaves the token good for the next one, and a reusable token is never spent.
SpentIffServed ==
    \A t \in Tokens : rows[t] # NoRow =>
        /\ rows[t].usedAt # Unused <=> grants[t] > 0
        /\ rows[t].usedAt < rows[t].expiresAt
        /\ rows[t].reusable => rows[t].usedAt = Unused

\* No connection is granted to a request during the whole of which one of the
\* conditions was false: the checks are spread over seven statements and
\* need not hold together, but none of them is skipped or answered from
\* something older than the request.
NoGrantWhileDenied ==
    \A w \in Workers : pc[w] = "granted" => held[w] = Conditions

\* The promise: minted once, redeemed once, withdrawn for good.
TokenState(t) == CASE minted[t] = "never" -> "unminted"
                   [] minted[t] # "never" /\ rows[t] = NoRow -> "withdrawn"
                   [] rows[t] # NoRow /\ minted[t] = "many" -> "many"
                   [] rows[t] # NoRow /\ minted[t] = "once" ->
                        IF rows[t].usedAt = Unused THEN "open" ELSE "spent"

Promise == INSTANCE OneTimeToken WITH
    state <- [t \in Tokens |-> TokenState(t)], served <- grants

\* Every behaviour of the code is one the promise allows.
ImplementsPromise == Promise!Spec

=============================================================================
