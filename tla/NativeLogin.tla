----------------------------- MODULE NativeLogin -----------------------------
(***************************************************************************)
(* How a native RDP client logs in.  Its user name is a route, user, asset *)
(* and account in one, and its password is the user's RDP proxy password,  *)
(* which is kept apart from the login's.  Resolve verifies the one against *)
(* the other and gives the account's secret away; users and administrators *)
(* set and disable proxy passwords meanwhile, and disable, delete or       *)
(* change what the route leads to.                                         *)
(*                                                                         *)
(* Resolve reads five rows with five statements, and each is an action.    *)
(* A name that is no route, a password that is too short and what Status   *)
(* returns leave no trace and are no step; nor are the lines of the audit  *)
(* log.  What follows a login that is answered is in SessionStore.         *)
(***************************************************************************)
EXTENDS Naturals

CONSTANTS Users, Assets, Accounts, Passwords,
          AssetOf,          \* [Accounts -> Assets]
          Workers,          \* goroutines of the API server handling requests
          NoRow,
          MaxChanges        \* bound: changes by users and administrators

Entities == Users \union Assets \union Accounts
\* What an account's secret is: only a password logs into a Windows host.
Secrets == {"password", "key", "empty"}

Credentials == [password : Passwords, enabled : BOOLEAN]
\* RDPRouteUsername and the password presented with it.
Routes == [user : Users, asset : Assets, account : Accounts,
           password : Passwords]
Settings == [user : Users, password : Passwords]

VARIABLES
    status,      \* [Entities -> {"active", "inactive", "gone"}]
    credential,  \* the table rdp_proxy_credentials
    connect,     \* pairs <<user, account>> an effective permission covers
    secret,      \* [Accounts -> Secrets]
    pc,          \* [Workers -> Points]: the next statement of a handler
    req,         \* what a worker was asked
    given,       \* the secret of the account row a worker read
    changes,     \* changes so far
    held         \* history: conditions that held at some point of the request

env == <<status, credential, connect, secret, changes>>
vars == <<env, pc, req, given, held>>

Points == {"idle", "user", "credential", "asset", "account", "permission",
           "target", "answered", "set"}
Conditions == {"user", "password", "asset", "account", "secret", "permission"}

TypeOK ==
    /\ status \in [Entities -> {"active", "inactive", "gone"}]
    /\ credential \in [Users -> Credentials \union {NoRow}]
    /\ connect \subseteq Users \X Accounts
    /\ secret \in [Accounts -> Secrets]
    /\ changes \in Nat
    /\ pc \in [Workers -> Points]
    /\ req \in [Workers -> Routes \union Settings \union {NoRow}]
    /\ given \in [Workers -> Secrets \union {NoRow}]
    /\ held \in [Workers -> SUBSET Conditions]

Init ==
    /\ status = [e \in Entities |-> "active"]
    /\ credential = [u \in Users |-> NoRow]
    /\ connect = Users \X Accounts
    /\ secret = [c \in Accounts |-> "password"]
    /\ changes = 0
    /\ pc = [w \in Workers |-> "idle"]
    /\ req = [w \in Workers |-> NoRow]
    /\ given = [w \in Workers |-> NoRow]
    /\ held = [w \in Workers |-> {}]

-----------------------------------------------------------------------------
(* Conditions of a login *)

Verifies(u, password) == /\ credential[u] # NoRow
                         /\ credential[u].enabled
                         /\ credential[u].password = password

Active(e) == status[e] = "active"

\* The conditions of route r that are true now.
Now(r) == {c \in Conditions :
    \/ c = "user" /\ Active(r.user)
    \/ c = "password" /\ Verifies(r.user, r.password)
    \/ c = "asset" /\ Active(r.asset)
    \/ c = "account" /\ Active(r.account) /\ AssetOf[r.account] = r.asset
    \/ c = "secret" /\ secret[r.account] = "password"
    \/ c = "permission" /\ <<r.user, r.account>> \in connect}

Resolving(w) == pc[w] \in Points \ {"idle", "set"}

\* What is true before a step is seen by every request under way.
Observe ==
    held' = [w \in Workers |->
                IF pc'[w] \in {"idle", "set"} THEN {}
                ELSE IF Resolving(w) THEN held[w] \union Now(req[w])
                ELSE {}]

-----------------------------------------------------------------------------
(* NativeRDPResolverService.Resolve *)

Goto(w, point) == pc' = [pc EXCEPT ![w] = point]

\* The request is refused, a statement fails, or the handler is done.
Return(w) ==
    /\ pc[w] # "idle"
    /\ Goto(w, "idle")
    /\ req' = [req EXCEPT ![w] = NoRow]
    /\ given' = [given EXCEPT ![w] = NoRow]
    /\ UNCHANGED env

Resolve(w, r) ==
    /\ pc[w] = "idle"
    /\ Goto(w, "user")
    /\ req' = [req EXCEPT ![w] = r]
    /\ UNCHANGED <<env, given>>

\* One statement that only reads: go on if its answer allows it.
Step(w, from, to, allowed) ==
    /\ pc[w] = from /\ allowed
    /\ Goto(w, to)
    /\ UNCHANGED <<env, req, given>>

VerifyUser(w) == Step(w, "user", "credential", Active(req[w].user))
VerifyPassword(w) ==
    Step(w, "credential", "asset", Verifies(req[w].user, req[w].password))
ReadAsset(w) == Step(w, "asset", "account", Active(req[w].asset))

\* The account must be one of the asset's; its secret is kept.
ReadAccount(w) ==
    /\ pc[w] = "account"
    /\ Active(req[w].account) /\ AssetOf[req[w].account] = req[w].asset
    /\ given' = [given EXCEPT ![w] = secret[req[w].account]]
    /\ Goto(w, "permission")
    /\ UNCHANGED <<env, req>>

MutantUncheckedPermission(w) == Step(w, "permission", "target", TRUE)
ReadPermission(w) == Step(w, "permission", "target",
                          <<req[w].user, req[w].account>> \in connect)

\* There is a port, and a password that can be decrypted.
Answer(w) == Step(w, "target", "answered", given[w] = "password")

-----------------------------------------------------------------------------
(* RDPProxyCredentialService *)

Change == changes < MaxChanges /\ changes' = changes + 1

\* Set and Reset: the user is looked up, then the row is written.
StartSet(w, in) ==
    /\ pc[w] = "idle"
    /\ status[in.user] # "gone"
    /\ Change
    /\ Goto(w, "set")
    /\ req' = [req EXCEPT ![w] = in]
    /\ UNCHANGED <<status, credential, connect, secret, given>>

\* The foreign key refuses a user deleted meanwhile.
UpsertRDPProxyCredential(w) ==
    /\ pc[w] = "set"
    /\ LET in == req[w]
       IN credential' = [credential EXCEPT ![in.user] =
             IF status[in.user] = "gone" THEN NoRow
             ELSE [password |-> in.password, enabled |-> TRUE]]
    /\ Goto(w, "idle")
    /\ req' = [req EXCEPT ![w] = NoRow]
    /\ UNCHANGED <<status, connect, secret, changes, given>>

Disable(u) ==
    /\ Change
    /\ credential[u] # NoRow
    /\ credential' = [credential EXCEPT ![u].enabled = FALSE]
    /\ UNCHANGED <<status, connect, secret, pc, req, given>>

-----------------------------------------------------------------------------
(* Administrators *)

\* A row is activated, deactivated or deleted; a user's credential goes with
\* the user and an account with its asset.
HangsOn(x, e) == x \in Accounts /\ AssetOf[x] = e

SetStatus(e, s) ==
    /\ Change
    /\ status[e] \notin {"gone", s}
    /\ status' = [x \in Entities |->
          IF x = e \/ (s = "gone" /\ HangsOn(x, e)) THEN s ELSE status[x]]
    /\ credential' = [u \in Users |->
          IF u = e /\ s = "gone" THEN NoRow ELSE credential[u]]
    /\ UNCHANGED <<connect, secret, pc, req, given>>

ChangePermission(u, c) ==
    /\ Change
    /\ connect' = IF <<u, c>> \in connect THEN connect \ {<<u, c>>}
                  ELSE connect \union {<<u, c>>}
    /\ UNCHANGED <<status, credential, secret, pc, req, given>>

ChangeSecret(c, s) ==
    /\ Change
    /\ secret[c] # s
    /\ secret' = [secret EXCEPT ![c] = s]
    /\ UNCHANGED <<status, credential, connect, pc, req, given>>

Next ==
    /\ \/ \E w \in Workers :
             \/ \E r \in Routes : Resolve(w, r)
             \/ VerifyUser(w) \/ VerifyPassword(w) \/ ReadAsset(w)
             \/ ReadAccount(w) \/ ReadPermission(w) \/ Answer(w)
             \/ \E in \in Settings : StartSet(w, in)
             \/ UpsertRDPProxyCredential(w)
             \/ Return(w)
       \/ \E u \in Users : Disable(u)
       \/ \E e \in Entities : \E s \in {"active", "inactive", "gone"} :
             SetStatus(e, s)
       \/ \E u \in Users : \E c \in Accounts : ChangePermission(u, c)
       \/ \E c \in Accounts : \E s \in Secrets : ChangeSecret(c, s)
    /\ Observe

Spec == Init /\ [][Next]_vars

-----------------------------------------------------------------------------
(* Properties *)

\* A native client gets a target only if every condition of its route was true
\* at some moment of its request, although each is looked at once and only one
\* after the other: never with a password disabled before it asked, an account
\* of another asset or a permission withdrawn earlier (rdp_native.go:110).
NoTargetWhileDenied ==
    \A w \in Workers : pc[w] = "answered" => held[w] = Conditions
=============================================================================
