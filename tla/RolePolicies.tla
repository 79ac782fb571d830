---------------------------- MODULE RolePolicies ----------------------------
(***************************************************************************)
(* Roles and what they may do: rows of the table roles, the casbin rules   *)
(* that name a role as their subject, kept in the table casbin_rules and   *)
(* in the memory of the one enforcer, and the start of the API server that *)
(* creates the defaults.  The two copies of the rules are changed one      *)
(* after the other by every call, and a request makes many calls.          *)
(*                                                                         *)
(* A handler runs on a worker of its own; every SQL statement and every    *)
(* change of the enforcer's memory is an action.  casbin is modelled from  *)
(* its use: AddPolicy skips a rule its memory has, else tells the adapter  *)
(* first; RemoveFilteredPolicy tells the adapter first.                    *)
(***************************************************************************)
EXTENDS Integers, FiniteSets

CONSTANTS Workers, Nobody,
          Names,            \* role names
          DefaultNames,     \* those BootstrapDefaults creates
          Super,            \* the one ensureAdmin gives to the administrator
          Perms,            \* <<path, method>> pairs
          Defaults,         \* ensureDefaultPolicies: <<name, perm>> pairs
          MaxRoles,         \* bound: role rows ever inserted
          MaxRequests,      \* bound: requests of several statements ever started
          MaxFailures       \* bound: failed statements and crashes

\* Nothing checks that a role has a name; to casbin an empty one means every
\* role at once.  The roles here have names.
ASSUME NamesType == /\ DefaultNames \subseteq Names /\ Super \in DefaultNames
                    /\ Defaults \subseteq DefaultNames \X Perms
                    /\ Nobody \notin Names \union Workers
ASSUME BoundsType == MaxRoles \in Nat /\ MaxRequests \in Nat /\ MaxFailures \in Nat

Ids == 1..MaxRoles
Rules == Names \X Perms

VARIABLES
    phase,      \* of the API server
    roles,      \* [Ids -> Names \union {Nobody}]: the table roles
    last,       \* the last role id given out
    admin,      \* whether a user is called "admin", as the administrator is
    held,       \* the role ids of that user: user_roles
    withdrawn,  \* history: a request took the super role from that user
    db,         \* the table casbin_rules
    mem,        \* the rules in the enforcer
    pc, req,    \* per worker: next statement, and the request it is about
    todo,       \* per worker: rules still to add
    kept,       \* per worker: the old policies a rename read
    rule,       \* per worker: the rule the adapter has and the memory not yet
    undoing,    \* workers in restoreRolePolicies
    requests, failures,
    faults,     \* history: failures of a worker's request
    before,     \* history: the rules in memory when the request began
    together,   \* history: workers whose request ran beside another one
    torn,       \* history: one of those failed since the start
    loose,      \* history: names a cut-off or overlapping request was about
    cut         \* history: the start was cut off before the role was given

tables == <<roles, last, admin, held, withdrawn>>
policy == <<db, mem>>
local == <<pc, req, todo, kept, rule, undoing>>
history == <<faults, before, together, torn, loose, cut>>
vars == <<phase, tables, policy, local, requests, failures, history>>

Phases == {"roles", "admin", "assign", "policies", "up"}
Points == {"idle", "row", "snapshot", "remove_db", "remove_mem", "add_db",
           "add_mem", "save", "row_back"}
Requests == [op : {"set", "rename", "delete"}, id : Ids, old : Names,
             new : Names, asked : SUBSET Perms]
NoRequest == [op |-> "none"]

TypeOK ==
    /\ phase \in Phases
    /\ roles \in [Ids -> Names \union {Nobody}]
    /\ last \in 0..MaxRoles /\ held \subseteq Ids
    /\ admin \in BOOLEAN /\ withdrawn \in BOOLEAN
    /\ db \subseteq Rules /\ mem \subseteq Rules
    /\ pc \in [Workers -> Points]
    /\ req \in [Workers -> Requests \union {NoRequest}]
    /\ todo \in [Workers -> SUBSET Rules] /\ kept \in [Workers -> SUBSET Perms]
    /\ rule \in [Workers -> Rules \union {Nobody}]
    /\ undoing \subseteq Workers /\ together \subseteq Workers
    /\ requests \in Nat /\ failures \in Nat
    /\ faults \in [Workers -> Nat] /\ before \in [Workers -> SUBSET Rules]
    /\ torn \in BOOLEAN /\ cut \in BOOLEAN /\ loose \subseteq Names

Init ==
    /\ phase = "roles"
    /\ roles = [i \in Ids |-> Nobody] /\ last = 0
    /\ admin = FALSE /\ held = {} /\ withdrawn = FALSE
    /\ db = {} /\ mem = {}
    /\ pc = [w \in Workers |-> "idle"]
    /\ req = [w \in Workers |-> NoRequest]
    /\ todo = [w \in Workers |-> {}] /\ kept = [w \in Workers |-> {}]
    /\ rule = [w \in Workers |-> Nobody]
    /\ undoing = {} /\ together = {} /\ loose = {}
    /\ requests = 0 /\ failures = 0
    /\ faults = [w \in Workers |-> 0] /\ before = [w \in Workers |-> {}]
    /\ torn = FALSE /\ cut = FALSE

Of(rules, name) == {r \in rules : r[1] = name}
Taken == {roles[i] : i \in Ids} \ {Nobody}
Busy == {w \in Workers : pc[w] # "idle"}
IdOf(name) == CHOOSE i \in Ids : roles[i] = name

-----------------------------------------------------------------------------
(* The start: BootstrapDefaults, ensureAdmin, NewEnforcer *)

InsertRole(name) == /\ last < MaxRoles /\ name \notin Taken
                    /\ last' = last + 1
                    /\ roles' = [roles EXCEPT ![last + 1] = name]

\* UpsertRole for each default role; one that exists is left alone.
UpsertRole == /\ phase = "roles"
              /\ \E name \in DefaultNames : InsertRole(name)
              /\ UNCHANGED <<phase, admin, held, withdrawn, policy, local,
                             requests, failures, history>>

MutantSkipAdmin == "policies"
MutantCreateAlways == "admin"
AfterRoles == IF admin THEN "policies" ELSE "admin"

RolesReady == /\ phase = "roles" /\ DefaultNames \subseteq Taken
              /\ phase' = AfterRoles
              /\ UNCHANGED <<tables, policy, local, requests, failures, history>>

CreateAdmin == /\ phase = "admin" /\ ~admin
               /\ admin' = TRUE
               /\ phase' = "assign"
               /\ UNCHANGED <<roles, last, held, withdrawn, policy, local,
                              requests, failures, history>>

\* SetUserRoles of the new user.
AssignAdmin == /\ phase = "assign"
               /\ held' = {IdOf(Super)}
               /\ withdrawn' = FALSE /\ cut' = FALSE
               /\ phase' = "policies"
               /\ UNCHANGED <<roles, last, admin, policy, local, requests,
                              failures, faults, before, together, torn, loose>>

\* LoadPolicy, the default policies, SavePolicy.  Until the save each default
\* is one more row, which the next start adds again.
StartPolicies(rules) == rules \union Defaults

NewEnforcer == /\ phase = "policies"
               /\ mem' = StartPolicies(db)
               /\ db' = StartPolicies(db)
               /\ phase' = "up"
               /\ torn' = FALSE
               /\ UNCHANGED <<tables, local, requests, failures, faults, before,
                              together, loose, cut>>

\* The process ends, with every request in it, and is started again.
Restart ==
    /\ failures < MaxFailures
    /\ failures' = failures + 1
    /\ phase' = "roles"
    /\ mem' = {}
    /\ pc' = [w \in Workers |-> "idle"]
    /\ req' = [w \in Workers |-> NoRequest]
    /\ todo' = [w \in Workers |-> {}] /\ kept' = [w \in Workers |-> {}]
    /\ rule' = [w \in Workers |-> Nobody]
    /\ undoing' = {} /\ together' = {}
    /\ faults' = [w \in Workers |-> 0] /\ before' = [w \in Workers |-> {}]
    /\ loose' = loose \union UNION {{req[w].old, req[w].new} : w \in Busy}
    /\ cut' = (cut \/ phase = "assign")
    /\ UNCHANGED <<tables, db, requests, torn>>

-----------------------------------------------------------------------------
(* Requests *)

\* One that is alone from its first statement to its last is "undisturbed".
Begin(w, r, point) ==
    /\ phase = "up" /\ pc[w] = "idle" /\ requests < MaxRequests
    /\ requests' = requests + 1
    /\ pc' = [pc EXCEPT ![w] = point]
    /\ req' = [req EXCEPT ![w] = r]
    /\ before' = [before EXCEPT ![w] = mem]
    /\ together' = IF Busy = {} THEN together ELSE together \union Busy \union {w}
    /\ UNCHANGED <<phase, tables, policy, todo, kept, rule, undoing, failures,
                   faults, torn, loose, cut>>

\* Each begins with GetRole.
SetRolePermissions(w, i, perms) ==
    /\ roles[i] # Nobody
    /\ Begin(w, [op |-> "set", id |-> i, old |-> roles[i], new |-> roles[i],
                 asked |-> perms], "remove_db")
UpdateRole(w, i, name) ==
    /\ roles[i] # Nobody
    /\ Begin(w, [op |-> "rename", id |-> i, old |-> roles[i], new |-> name,
                 asked |-> {}], "row")
DeleteRole(w, i) ==
    /\ roles[i] # Nobody
    /\ Begin(w, [op |-> "delete", id |-> i, old |-> roles[i], new |-> roles[i],
                 asked |-> {}], "row")

\* One statement, and no policy.  The bound on ids leaves enough of them for
\* the defaults of the starts still to come.
CreateRole(name) ==
    /\ phase = "up"
    /\ last + Cardinality(DefaultNames) * (1 + MaxFailures - failures) <= MaxRoles
    /\ InsertRole(name)
    /\ together' = together \union Busy
    /\ UNCHANGED <<phase, admin, held, withdrawn, policy, local, requests,
                   failures, faults, before, torn, loose, cut>>

-----------------------------------------------------------------------------
(* Requests about the user called "admin", one statement each *)

NoRoleChanges == UNCHANGED <<phase, roles, last, policy, local, requests,
                             failures, history>>

\* The roles a user gets replace those it had, in one transaction.
SetUserRoles(ids) ==
    /\ phase = "up" /\ admin /\ \A i \in ids : roles[i] # Nobody
    /\ held' = ids
    /\ withdrawn' = (withdrawn \/ \A i \in ids : roles[i] # Super)
    /\ UNCHANGED admin /\ NoRoleChanges

\* The user gets another name, or is deleted if it is not the first one; then
\* another user, with roles of its own, may be created or renamed "admin".
RenameAdmin ==
    /\ phase = "up" /\ admin
    /\ admin' = FALSE /\ held' = {} /\ withdrawn' = TRUE
    /\ NoRoleChanges
NameAdmin(ids) ==
    /\ phase = "up" /\ ~admin /\ \A i \in ids : roles[i] # Nobody
    /\ admin' = TRUE /\ held' = ids
    /\ UNCHANGED withdrawn /\ NoRoleChanges

UpdateAdmin == \/ RenameAdmin
               \/ \E ids \in SUBSET Ids : SetUserRoles(ids) \/ NameAdmin(ids)

-----------------------------------------------------------------------------
(* Requests about a role, statement by statement *)

Goto(w, point) == pc' = [pc EXCEPT ![w] = point]

\* The handler answers.  What overlapped another request is remembered.
Return(w) ==
    /\ Goto(w, "idle")
    /\ req' = [req EXCEPT ![w] = NoRequest]
    /\ todo' = [todo EXCEPT ![w] = {}] /\ kept' = [kept EXCEPT ![w] = {}]
    /\ rule' = [rule EXCEPT ![w] = Nobody]
    /\ undoing' = undoing \ {w} /\ together' = together \ {w}
    /\ faults' = [faults EXCEPT ![w] = 0] /\ before' = [before EXCEPT ![w] = {}]
    /\ loose' = IF w \in together \/ faults[w] > 0
                THEN loose \union {req[w].old, req[w].new} ELSE loose
    /\ UNCHANGED <<torn, cut>>

\* The name whose rules go, and the one that gets those in todo.
Source(w) == IF w \in undoing THEN req[w].new ELSE req[w].old
Target(w) == IF w \in undoing THEN req[w].old ELSE req[w].new

\* UPDATE or DELETE of the row; deleting takes the assignments with it.
Rename(i, name) == IF roles[i] = Nobody \/ name \in Taken \ {roles[i]} THEN roles
                   ELSE [roles EXCEPT ![i] = name]
ChangeRow(w) ==
    LET i == req[w].id
    IN  /\ pc[w] = "row"
        /\ \/ /\ req[w].op = "delete"
              /\ roles' = [roles EXCEPT ![i] = Nobody]
              /\ held' = held \ {i}
              /\ Goto(w, "remove_db")
              /\ UNCHANGED <<req, todo, kept, rule, undoing, history>>
           \/ /\ req[w].op = "rename"
              /\ roles[i] # Nobody /\ req[w].new \notin Taken \ {roles[i]}
              /\ roles' = Rename(i, req[w].new)
              /\ held' = held
              /\ Goto(w, "snapshot")
              /\ UNCHANGED <<req, todo, kept, rule, undoing, history>>
           \/ /\ req[w].op = "rename"
              /\ roles[i] = Nobody \/ req[w].new \in Taken \ {roles[i]}
              /\ UNCHANGED <<roles, held>>
              /\ Return(w)
        /\ withdrawn' = (withdrawn \/ (roles[i] = Super /\ roles'[i] # Super))
        /\ UNCHANGED <<phase, last, admin, policy, requests, failures>>

\* renameRolePolicies reads the policies of the old name from memory.
Snapshot(w) ==
    LET old == {r[2] : r \in Of(mem, req[w].old)}
    IN  /\ pc[w] = "snapshot"
        /\ \/ /\ req[w].old # req[w].new /\ old # {}
              /\ kept' = [kept EXCEPT ![w] = old]
              /\ Goto(w, "remove_db")
              /\ UNCHANGED <<req, todo, rule, undoing, history>>
           \/ (req[w].old = req[w].new \/ old = {}) /\ Return(w)
        /\ UNCHANGED <<phase, tables, policy, requests, failures>>

RemoveFromTable(w) ==
    /\ pc[w] = "remove_db"
    /\ db' = db \ Of(db, Source(w))
    /\ Goto(w, "remove_mem")
    /\ UNCHANGED <<phase, tables, mem, req, todo, kept, rule, undoing, requests,
                   failures, history>>

ToAdd(w) == {Target(w)} \X (IF req[w].op = "rename" THEN kept[w] ELSE req[w].asked)

RemoveFromMemory(w) ==
    /\ pc[w] = "remove_mem"
    /\ mem' = mem \ Of(mem, Source(w))
    /\ todo' = [todo EXCEPT ![w] = ToAdd(w)]
    /\ Goto(w, "add_db")
    /\ UNCHANGED <<phase, tables, db, req, kept, rule, undoing, requests,
                   failures, history>>

\* AddPolicy: a rule in memory is not added again; a unique violation of the
\* table is not an error.
AddToTable(w) ==
    /\ pc[w] = "add_db"
    /\ \/ /\ todo[w] = {}
          /\ Goto(w, "save")
          /\ UNCHANGED <<db, todo, rule>>
       \/ \E r \in todo[w] :
             /\ todo' = [todo EXCEPT ![w] = @ \ {r}]
             /\ \/ r \in mem /\ UNCHANGED <<db, rule, pc>>
                \/ /\ r \notin mem
                   /\ db' = db \union {r}
                   /\ rule' = [rule EXCEPT ![w] = r]
                   /\ Goto(w, "add_mem")
    /\ UNCHANGED <<phase, tables, mem, req, kept, undoing, requests, failures,
                   history>>

AddToMemory(w) ==
    /\ pc[w] = "add_mem"
    /\ mem' = mem \union {rule[w]}
    /\ rule' = [rule EXCEPT ![w] = Nobody]
    /\ Goto(w, "add_db")
    /\ UNCHANGED <<phase, tables, db, req, todo, kept, undoing, requests,
                   failures, history>>

\* SavePolicy: one transaction that rewrites the table from memory.
MutantSaved == db
Saved == mem
SavePolicy(w) ==
    /\ pc[w] = "save"
    /\ db' = Saved
    /\ \/ /\ w \in undoing
          /\ Goto(w, "row_back")
          /\ UNCHANGED <<req, todo, kept, rule, undoing, history>>
       \/ w \notin undoing /\ Return(w)
    /\ UNCHANGED <<phase, tables, mem, requests, failures>>

\* UpdateRole of the old row, after a rename that failed; its error is ignored.
RestoreRow(w) ==
    /\ pc[w] = "row_back"
    /\ roles' = Rename(req[w].id, req[w].old)
    /\ Return(w)
    /\ UNCHANGED <<phase, last, admin, held, withdrawn, policy, requests, failures>>

-----------------------------------------------------------------------------
(* A statement of a request fails *)

\* Where the request goes on: to restoreRolePolicies, past a call whose error
\* is ignored, to the row, or nowhere.
MutantAfterFailure(w) == IF req[w].op = "rename" THEN "row_back" ELSE "idle"
AfterFailure(w) ==
    IF req[w].op # "rename" \/ pc[w] \in {"row", "row_back"} THEN "idle"
    ELSE IF w \in undoing
         THEN IF pc[w] = "remove_db" THEN "add_db" ELSE "row_back"
         ELSE IF pc[w] = "remove_db" THEN "row_back" ELSE "remove_db"

Fail(w) ==
    /\ pc[w] \in {"row", "remove_db", "add_db", "save", "row_back"}
    /\ pc[w] = "add_db" => todo[w] \ mem # {}
    /\ failures < MaxFailures
    /\ failures' = failures + 1
    /\ torn' = (torn \/ w \in together)
    /\ loose' = loose \union {req[w].old, req[w].new}
    /\ \/ /\ AfterFailure(w) = "idle"
          /\ pc' = [pc EXCEPT ![w] = "idle"]
          /\ req' = [req EXCEPT ![w] = NoRequest]
          /\ todo' = [todo EXCEPT ![w] = {}] /\ kept' = [kept EXCEPT ![w] = {}]
          /\ undoing' = undoing \ {w} /\ together' = together \ {w}
          /\ faults' = [faults EXCEPT ![w] = 0]
          /\ before' = [before EXCEPT ![w] = {}]
       \/ /\ AfterFailure(w) # "idle"
          /\ Goto(w, AfterFailure(w))
          /\ undoing' = IF AfterFailure(w) = "remove_db"
                        THEN undoing \union {w} ELSE undoing
          /\ todo' = [todo EXCEPT ![w] = IF AfterFailure(w) = "add_db"
                                         THEN ToAdd(w) ELSE {}]
          /\ faults' = [faults EXCEPT ![w] = @ + 1]
          /\ UNCHANGED <<req, kept, before, together>>
    /\ UNCHANGED <<phase, tables, policy, rule, requests, cut>>

-----------------------------------------------------------------------------
Start == UpsertRole \/ RolesReady \/ CreateAdmin \/ AssignAdmin \/ NewEnforcer
Handle(w) ==
    \/ \E i \in Ids : \/ \E perms \in SUBSET Perms : SetRolePermissions(w, i, perms)
                      \/ \E name \in Names : UpdateRole(w, i, name)
                      \/ DeleteRole(w, i)
    \/ ChangeRow(w) \/ Snapshot(w) \/ RemoveFromTable(w) \/ RemoveFromMemory(w)
    \/ AddToTable(w) \/ AddToMemory(w) \/ SavePolicy(w) \/ RestoreRow(w)
    \/ Fail(w)

Next == \/ Start
        \/ Restart
        \/ \E name \in Names : CreateRole(name)
        \/ UpdateAdmin
        \/ \E w \in Workers : Handle(w)

Spec == Init /\ [][Next]_vars

\* The program runs on; nothing makes anybody send a request.
Fairness == /\ WF_vars(Start)
            /\ \A w \in Workers : WF_vars(pc[w] # "idle" /\ Handle(w))
FairSpec == Spec /\ Fairness

(***************************************************************************)
(* Properties                                                              *)
(***************************************************************************)

\* Between requests the enforcer decides by what the table says, however the
\* two-step changes of concurrent requests interleaved and whatever failed,
\* unless one failed while another ran: each ends with SavePolicy, so the last
\* one to end settles both (handlers.go:522, handlers.go:596, adapter.go:57).
QuietAgreement == phase = "up" /\ Busy = {} /\ ~torn => mem = db

\* No rule waits for a role that does not exist, to come alive when somebody
\* uses the name again, but for names that a failed, cut-off or overlapping
\* request was about (handlers.go:557: the row goes first, the rules after).
RulesHaveRoles ==
    phase = "up" /\ Busy = {} => \A r \in mem : r[1] \in Taken \union loose

\* Between requests memory, table and rows of roles go together.
QuietIsSettled == QuietAgreement /\ RulesHaveRoles

\* What an undisturbed request that did not fail leaves in memory.
Intended(w) ==
    LET b == before[w]
        own == Of(b, req[w].old)
    IN  CASE req[w].op = "set" -> (b \ own) \union ({req[w].old} \X req[w].asked)
          [] req[w].op = "delete" -> b \ own
          [] req[w].op = "rename" -> (b \ own) \union
                                     ({req[w].new} \X {r[2] : r \in own})

\* A request that ran alone does what it was asked and touches no other role,
\* and a rename that failed in one place, with all its calls back and forth,
\* leaves the role with its old name and its old rules (handlers.go:486-540).
DoneOrUndone ==
    [][\A w \in Workers :
          pc[w] \in {"snapshot", "save", "row_back"} /\ pc'[w] = "idle"
          /\ phase' = "up" /\ w \notin together =>
             \/ faults[w] = 0 /\ failures' = failures /\ mem' = Intended(w)
                /\ (pc[w] = "save" => db' = mem')
             \/ faults[w] = 1 /\ failures' = failures /\ roles'[req[w].id] = req[w].old
                /\ \A n \in Names \ {req[w].new} : Of(mem', n) = Of(before[w], n)
             \/ faults[w] + (failures' - failures) > 1
             \/ faults[w] + (failures' - failures) = 1 /\ req[w].op # "rename"]_vars

\* A start that completes finds the table and the memory alike, every default
\* role and rule in place, and an administrator (bootstrap.go:33-92).
StartsComplete ==
    [][phase # "up" /\ phase' = "up" =>
          /\ mem' = db' /\ Defaults \subseteq mem'
          /\ DefaultNames \subseteq Taken /\ admin]_vars

AdminHasSuper == admin /\ \E i \in held : roles[i] = Super

\* The administrator keeps the super role through all that happens to roles,
\* renames that fail and are undone, requests that overtake each other, crashes
\* and starts, until a request takes it: new roles or another name for the user,
\* or a new name or the end for the role.  Excepted is one whose first start was
\* cut off before it gave the role: a later one finds the user and gives none
\* (bootstrap.go:70-92, store.go:212-223, handlers.go:486-540).
AdminIsSuper == phase = "up" /\ ~withdrawn /\ ~cut => AdminHasSuper

\* How far a request has come.  Adding a rule takes two steps of one stage, and
\* the undoing comes after all the rest.
Order == [row |-> 1, snapshot |-> 2, remove_db |-> 3, remove_mem |-> 4,
          add_db |-> 5, add_mem |-> 5, save |-> 6, row_back |-> 12]
Stage(w) == Order[pc[w]] + (IF w \in undoing THEN 6 ELSE 0)

Advances(w) ==
    \/ Stage(w)' > Stage(w)
    \/ /\ Stage(w)' = Stage(w)
       /\ todo'[w] \subseteq todo[w]
       /\ todo'[w] # todo[w] \/ (pc[w] = "add_mem" /\ pc'[w] = "add_db")

\* No order of calls, failures and other requests sends a request round in
\* circles, back to the calls of a rename or into a second undoing: each step
\* ends it, brings it to a later stage, or leaves fewer rules to be added but
\* for the one that is on its way to the memory (handlers.go:486-540).
RequestsAdvance ==
    [][\A w \in Workers :
          pc[w] # "idle" /\ pc'[w] # "idle" =>
             \/ UNCHANGED <<pc[w], todo[w], rule[w], w \in undoing>>
             \/ Advances(w)]_vars

\* The API server comes up complete after every crash, and ends every request
\* (handlers.go:502-540).
StartsAndEnds == /\ StartsComplete
                 /\ RequestsAdvance
                 /\ phase # "up" ~> phase = "up"
                 /\ \A w \in Workers : pc[w] # "idle" ~> pc[w] = "idle"

=============================================================================
