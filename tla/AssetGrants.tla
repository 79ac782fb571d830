----------------------------- MODULE AssetGrants -----------------------------
(***************************************************************************)
(* Who may use which account of which asset: the tables of assets,         *)
(* accounts and asset permissions, the administrators' requests that edit  *)
(* them, and Store.HasAssetPermission, the query a connection token is     *)
(* issued and redeemed by.                                                 *)
(*                                                                         *)
(* A create or a delete is one statement or one transaction.  An update    *)
(* reads the row and later writes all of it back, so two of them overlap.  *)
(* An id is never given twice (AUTOINCREMENT).  Secrets are numbered in    *)
(* the order in which they were set; names and addresses are left out.     *)
(* The tree of nodes and the user groups are fixed: no code writes them    *)
(* after the bootstrap, and the table asset_nodes stays empty.             *)
(***************************************************************************)
EXTENDS Integers, FiniteSets

CONSTANTS Users, Groups, Nodes, Assets, Accounts, Permissions,
          MemberOf,         \* [Groups -> SUBSET Users]: the table group_users
          Parent,           \* [Nodes -> Nodes \union {NoRow}]: a tree
          AssetOf,          \* [Accounts -> Assets]
          Workers,          \* goroutines of the API server handling requests
          Inputs,           \* what a request about a permission may carry
          AssetInputs,      \* ... and one about an asset
          NoRow,
          MaxRequests,      \* bound: requests of administrators
          MaxTime           \* bound: the clock stops here

Given == {"on", "off", "absent"}   \* a pointer to a Boolean
Links == [users : SUBSET Users, groups : SUBSET Groups, assets : SUBSET Assets,
          nodes : SUBSET Nodes, accounts : SUBSET Accounts]

AssetRows == [node : Nodes \union {NoRow}, active : BOOLEAN]
AccountRows == [secret : Nat, active : BOOLEAN]

VARIABLES
    assets, accounts,   \* rows, or NoRow before and after they exist
    rule, links,        \* asset_permissions, and its five tables of links
    users,              \* the rows of users that exist
    created,            \* ids that were given
    now,                \* the clock of the database
    doing, request, row,  \* of a worker: the update, what it asks, what it read
    requests,           \* requests so far
    secrets,            \* the latest secret given out
    asked               \* history: the links last asked for, of a permission

tables == <<assets, accounts, rule, links, users>>
local == <<doing, request, row>>
vars == <<tables, created, now, local, requests, secrets, asked>>

TypeOK ==
    /\ assets \in [Assets -> AssetRows \union {NoRow}]
    /\ accounts \in [Accounts -> AccountRows \union {NoRow}]
    /\ DOMAIN rule = Permissions /\ DOMAIN links = Permissions
    /\ \A p \in Permissions :
          /\ links[p] \in Links /\ asked[p] \in Links
          /\ rule[p] # NoRow =>
                /\ rule[p].active \in BOOLEAN
                /\ rule[p].from \in Int /\ rule[p].until \in Int
    /\ users \subseteq Users
    /\ created \subseteq Assets \union Accounts \union Permissions
    /\ now \in 0..MaxTime
    /\ doing \in [Workers -> {"idle", "asset", "account", "permission"}]
    /\ requests \in 0..MaxRequests /\ secrets \in Nat \ {0}

NoLinks == [users |-> {}, groups |-> {}, assets |-> {}, nodes |-> {},
            accounts |-> {}]

Empty == 0   \* the empty string where a secret should be

\* Some assets and accounts exist already.
Init ==
    /\ created \in SUBSET (Assets \union Accounts)
    /\ \A c \in Accounts \intersect created : AssetOf[c] \in created
    /\ assets \in [Assets -> AssetRows \union {NoRow}]
    /\ \A s \in Assets : IF s \in created THEN assets[s] # NoRow /\ assets[s].active
                                         ELSE assets[s] = NoRow
    /\ accounts = [c \in Accounts |->
          IF c \in created THEN [secret |-> 1, active |-> TRUE] ELSE NoRow]
    /\ rule = [p \in Permissions |-> NoRow]
    /\ links = [p \in Permissions |-> NoLinks]
    /\ users = Users
    /\ now = 0 /\ requests = 0 /\ secrets = 1
    /\ doing = [w \in Workers |-> "idle"]
    /\ request = [w \in Workers |-> NoRow]
    /\ row = [w \in Workers |-> NoRow]
    /\ asked = [p \in Permissions |-> NoLinks]

-----------------------------------------------------------------------------
(* What a permission grants *)

LivingAssets == {s \in Assets : assets[s] # NoRow}
LivingAccounts == {c \in Accounts : accounts[c] # NoRow}

\* The nodes an asset hangs on: its node_id and everything above that.
Above[n \in Nodes] == {n} \union IF Parent[n] = NoRow
                               THEN {} ELSE Above[Parent[n]]
NodesOf(s) == IF assets[s].node = NoRow THEN {} ELSE Above[assets[s].node]

InForce(p) == rule[p].active /\ rule[p].from <= now /\ now < rule[p].until

Named(p, u) == \/ u \in links[p].users
               \/ \E g \in links[p].groups : u \in MemberOf[g]
Covers(p, s) == \/ s \in links[p].assets
                \/ links[p].nodes \intersect NodesOf(s) # {}

MutantNoneNamed(p, c) == \/ c \in links[p].accounts
                         \/ links[p].accounts \intersect
                               {d \in Accounts : AssetOf[d] = AssetOf[c]} = {}
\* A permission that names no account is about all of them.
Allows(p, c) == c \in links[p].accounts \/ links[p].accounts = {}

Grants(p, u, s, c) == /\ rule[p] # NoRow
                      /\ InForce(p) /\ "connect" \in rule[p].actions
                      /\ Named(p, u) /\ Covers(p, s) /\ Allows(p, c)
HasAssetPermission(u, s, c) == \E p \in Permissions : Grants(p, u, s, c)

\* An account is used on its own asset.
GrantedBy(p) == {g \in users \X LivingAccounts :
                   Grants(p, g[1], AssetOf[g[2]], g[2])}

-----------------------------------------------------------------------------
(* Control of a worker *)

Quiet == UNCHANGED <<local, now, users>>

\* A request that is one statement, or one transaction.
Ask == requests < MaxRequests /\ requests' = requests + 1
AtOnce == Ask /\ Quiet

\* An update reads the row it is about ...
Read(w, what, in, r) ==
    /\ Ask
    /\ doing[w] = "idle" /\ r # NoRow
    /\ doing' = [doing EXCEPT ![w] = what]
    /\ request' = [request EXCEPT ![w] = in]
    /\ row' = [row EXCEPT ![w] = r]
    /\ UNCHANGED <<tables, created, now, secrets, asked>>

\* ... and returns when it has written it, or could not.
Return(w) ==
    /\ doing' = [doing EXCEPT ![w] = "idle"]
    /\ request' = [request EXCEPT ![w] = NoRow]
    /\ row' = [row EXCEPT ![w] = NoRow]
    /\ UNCHANGED <<created, now, users, requests>>

Fail(w) ==
    /\ doing[w] # "idle"
    /\ Return(w)
    /\ UNCHANGED <<tables, secrets, asked>>

\* IsActive is a pointer: what is not given is kept.
Chosen(given, kept) == IF given = "absent" THEN kept ELSE given = "on"

-----------------------------------------------------------------------------
(* Assets and accounts *)

\* The rows of the tables of links go with what they link.
Unlink(Us, Ss, Cs) ==
    links' = [p \in Permissions |->
                 [links[p] EXCEPT !.users = @ \ Us, !.assets = @ \ Ss,
                                  !.accounts = @ \ Cs]]

CreateAsset(s, in) ==
    /\ AtOnce
    /\ s \notin created
    /\ created' = created \union {s}
    /\ assets' = [assets EXCEPT ![s] = [node |-> in.node,
                                       active |-> Chosen(in.active, TRUE)]]
    /\ UNCHANGED <<accounts, rule, links, secrets, asked>>

StartUpdateAsset(w, s, in) ==
    Read(w, "asset", [id |-> s, node |-> in.node, active |-> in.active],
         assets[s])

\* Every column is in the request: what was read does not matter.
UpdateAsset(w) ==
    /\ doing[w] = "asset"
    /\ LET in == request[w]
       IN assets' = [assets EXCEPT ![in.id] =
             IF @ = NoRow THEN NoRow
             ELSE [node |-> in.node, active |-> in.active = "on"]]
    /\ Return(w)
    /\ UNCHANGED <<accounts, rule, links, secrets, asked>>

DeleteAsset(s) ==
    /\ AtOnce
    /\ assets[s] # NoRow
    /\ assets' = [assets EXCEPT ![s] = NoRow]
    /\ LET Gone == {c \in Accounts : AssetOf[c] = s}
       IN /\ accounts' = [c \in Accounts |->
                             IF c \in Gone THEN NoRow ELSE accounts[c]]
          /\ Unlink({}, {s}, Gone)
    /\ UNCHANGED <<rule, created, secrets, asked>>

CreateAccount(c) ==
    /\ AtOnce
    /\ c \notin created /\ assets[AssetOf[c]] # NoRow
    /\ created' = created \union {c}
    /\ secrets' = secrets + 1
    /\ accounts' = [accounts EXCEPT ![c] = [secret |-> secrets', active |-> TRUE]]
    /\ UNCHANGED <<assets, rule, links, asked>>

StartUpdateAccount(w, c, active, rotates) ==
    Read(w, "account", [id |-> c, active |-> active, rotates |-> rotates],
         accounts[c])

MutantKeepsNothing(w) ==
    LET in == request[w]
    IN [secret |-> IF in.rotates THEN secrets + 1 ELSE Empty,
        active |-> Chosen(in.active, row[w].active)]
\* An empty secret in the request keeps the one that was read.
Revised(w) ==
    LET in == request[w]
    IN [secret |-> IF in.rotates THEN secrets + 1 ELSE row[w].secret,
        active |-> Chosen(in.active, row[w].active)]

UpdateAccount(w) ==
    /\ doing[w] = "account"
    /\ LET in == request[w]
       IN /\ accounts' = [accounts EXCEPT ![in.id] =
                IF @ = NoRow THEN NoRow ELSE Revised(w)]
          /\ secrets' = IF in.rotates THEN secrets + 1 ELSE secrets
    /\ Return(w)
    /\ UNCHANGED <<assets, rule, links, asked>>

DeleteAccount(c) ==
    /\ AtOnce
    /\ accounts[c] # NoRow
    /\ accounts' = [accounts EXCEPT ![c] = NoRow]
    /\ Unlink({}, {}, {c})
    /\ UNCHANGED <<assets, rule, created, secrets, asked>>

-----------------------------------------------------------------------------
(* Permissions and users *)

\* No action at all stands for "connect".
NormalizeActions(actions) ==
    IF actions \ {""} = {} THEN {"connect"} ELSE actions \ {""}

permissionLinks(in) ==
    [users |-> in.users, groups |-> in.groups, assets |-> in.assets,
     nodes |-> in.nodes, accounts |-> in.accounts]

Revision(in, active) ==
    [active |-> active, actions |-> NormalizeActions(in.actions),
     from |-> in.from, until |-> in.until]

\* Foreign keys of the tables of links.
ReferencesHold(in) == /\ in.users \subseteq users
                      /\ in.assets \subseteq LivingAssets
                      /\ in.accounts \subseteq LivingAccounts

\* A link that cannot be inserted rolls the transaction back.
MutantNoRollback(p, in, revision) ==
    /\ rule' = [rule EXCEPT ![p] = revision]
    /\ links' = [links EXCEPT ![p] =
          IF ReferencesHold(in) THEN permissionLinks(in)
          ELSE [NoLinks EXCEPT !.users = in.users \intersect users,
                               !.groups = in.groups]]
    /\ asked' = IF ReferencesHold(in)
                THEN [asked EXCEPT ![p] = permissionLinks(in)] ELSE asked
WritePermission(p, in, revision) ==
    IF ReferencesHold(in)
    THEN /\ rule' = [rule EXCEPT ![p] = revision]
         /\ links' = [links EXCEPT ![p] = permissionLinks(in)]
         /\ asked' = [asked EXCEPT ![p] = permissionLinks(in)]
    ELSE UNCHANGED <<rule, links, asked>>

CreatePermission(p, in) ==
    /\ AtOnce
    /\ p \notin created
    /\ created' = IF ReferencesHold(in) THEN created \union {p} ELSE created
    /\ WritePermission(p, in, Revision(in, Chosen(in.active, TRUE)))
    /\ UNCHANGED <<assets, accounts, secrets>>

StartUpdatePermission(w, p, in) ==
    Read(w, "permission", [id |-> p, in |-> in], rule[p])

UpdatePermission(w) ==
    /\ doing[w] = "permission"
    /\ LET p == request[w].id
           in == request[w].in
       IN \/ /\ rule[p] # NoRow
             /\ WritePermission(p, in,
                   Revision(in, Chosen(in.active, row[w].active)))
          \/ /\ rule[p] = NoRow
             /\ UNCHANGED <<rule, links, asked>>
    /\ Return(w)
    /\ UNCHANGED <<assets, accounts, users, secrets>>

DeletePermission(p) ==
    /\ AtOnce
    /\ rule[p] # NoRow
    /\ rule' = [rule EXCEPT ![p] = NoRow]
    /\ links' = [links EXCEPT ![p] = NoLinks]
    /\ UNCHANGED <<assets, accounts, created, secrets, asked>>

DeleteUser(u) ==
    /\ Ask
    /\ u \in users
    /\ users' = users \ {u}
    /\ Unlink({u}, {}, {})
    /\ UNCHANGED <<assets, accounts, rule, created, now, local, secrets, asked>>

Tick == /\ now < MaxTime
        /\ now' = now + 1
        /\ UNCHANGED <<tables, created, local, requests, secrets, asked>>

Next ==
    \/ \E s \in Assets : \E in \in AssetInputs : CreateAsset(s, in)
    \/ \E s \in Assets : DeleteAsset(s)
    \/ \E c \in Accounts : CreateAccount(c) \/ DeleteAccount(c)
    \/ \E p \in Permissions : \E in \in Inputs : CreatePermission(p, in)
    \/ \E p \in Permissions : DeletePermission(p)
    \/ \E u \in Users : DeleteUser(u)
    \/ \E w \in Workers :
          \/ \E s \in Assets : \E in \in AssetInputs : StartUpdateAsset(w, s, in)
          \/ \E c \in Accounts : \E given \in Given : \E rotates \in BOOLEAN :
                StartUpdateAccount(w, c, given, rotates)
          \/ \E p \in Permissions : \E in \in Inputs :
                StartUpdatePermission(w, p, in)
          \/ UpdateAsset(w) \/ UpdateAccount(w) \/ UpdatePermission(w)
          \/ Fail(w)
    \/ Tick

Spec == Init /\ [][Next]_vars

-----------------------------------------------------------------------------
(* Properties *)

\* A permission is always linked with all its last accepted edit asked for,
\* less what was deleted since: never with a part of it, and never with what
\* an edit that failed had wanted (store.go:467-525).
LinkedAsAsked ==
    \A p \in Permissions : rule[p] # NoRow =>
       links[p] = [asked[p] EXCEPT !.users = @ \intersect users,
                                   !.assets = @ \intersect LivingAssets,
                                   !.accounts = @ \intersect LivingAccounts]

Edited(p) == asked'[p] # asked[p] \/ rule'[p] # rule[p]
Begins(p) == now' > now /\ rule[p].from = now'
LastNamedDeleted(p) == links[p].accounts # {} /\ links'[p].accounts = {}
IsNew(c) == accounts[c] = NoRow
Moved(s) == assets'[s].node # assets[s].node

\* A permission comes to be about a user and an account only by an edit of it,
\* by a new account, by a move of the asset, on the day it begins, or when the
\* last account it names is deleted: from then on it is about every account
\* (store.go:615).
GrantsGrowByEdit ==
    [][\A p \in Permissions : \A g \in GrantedBy(p)' \ GrantedBy(p) :
          \/ Edited(p) \/ Begins(p) \/ LastNamedDeleted(p)
          \/ IsNew(g[2]) \/ Moved(AssetOf[g[2]])]_vars

\* The step of an update of c ...
Writes(w, c) == /\ doing[w] = "account" /\ request[w].id = c
                /\ doing'[w] = "idle"
\* ... whose row was changed since it was read.
Overtaken(w, c) == Writes(w, c) /\ row[w] # accounts[c]
Reactivates(w, c) == Writes(w, c) /\ request[w].active = "on"

\* A rotated secret or a withdrawn account comes back only by a request that
\* says so, or by one that read the row before and wrote all of it back after
\* (assets.go:169).
RevertNeedsOverlap ==
    [][\A c \in Accounts : accounts[c] # NoRow /\ accounts'[c] # NoRow =>
          /\ accounts'[c].secret < accounts[c].secret =>
                \E w \in Workers : Overtaken(w, c)
          /\ ~accounts[c].active /\ accounts'[c].active =>
                \E w \in Workers : Overtaken(w, c) \/ Reactivates(w, c)]_vars
=============================================================================
