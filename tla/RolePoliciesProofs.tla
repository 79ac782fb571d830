-------------------------- MODULE RolePoliciesProofs --------------------------
(***************************************************************************)
(* Proofs about RolePolicies, for any workers, roles, rules and bounds:    *)
(* the types, what a start leaves, how table and memory come together      *)
(* again, and what a request that ran alone does when it ends.  The        *)
(* invariant has a part for each, over one that says what a worker holds   *)
(* at each statement.                                                      *)
(***************************************************************************)
EXTENDS RolePolicies, TLAPS

NamesOf(w) == {req[w].old, req[w].new}
\* Past its first change of a policy.
Touched(w) == pc[w] \in {"remove_mem", "add_db", "add_mem", "save", "row_back"}
Alone(w) == pc[w] # "idle" /\ w \notin together

\* Names some request may have left rules of.
Named(n) == \/ n \in loose
            \/ \E w \in Workers : pc[w] # "idle" /\ n \in NamesOf(w)
\* ... or may have left different in table and memory.
Unsettled(n) == \/ n \in loose
                \/ \E w \in Workers : Touched(w) /\ n \in NamesOf(w)

\* Rows: ids are given out in order, names are unique, and the start has got as
\* far as it says.
RowsOK ==
    /\ \A i \in Ids : i > last => roles[i] = Nobody
    /\ \A i, j \in Ids : roles[i] # Nobody /\ roles[i] = roles[j] => i = j
    /\ phase \in {"admin", "assign", "policies"} => DefaultNames \subseteq Taken
    /\ phase \in {"assign", "policies"} => admin

\* Unless a request withdrew it, and but in between the two statements of the
\* start and after a start that was cut off there, the user has the role, and
\* whoever undoes a rename of that row gives it back its name.
KeepsSuper(i) ==
    /\ roles[i] = Super
    /\ \A w \in Workers : pc[w] # "idle" /\ req[w].id = i => req[w].old = Super
AdminOK ==
    /\ phase = "up" /\ ~admin => withdrawn
    /\ admin /\ ~cut /\ ~withdrawn /\ phase # "assign" =>
          \E i \in held : KeepsSuper(i)

\* What a worker holds fits the statement it is at.
RequestOK(w) ==
    IF pc[w] = "idle"
    THEN w \notin together /\ w \notin undoing /\ faults[w] = 0
    ELSE /\ phase = "up" /\ requests > 0
         /\ req[w] \in Requests /\ req[w].id <= last
         /\ req[w].op # "rename" => req[w].old = req[w].new /\ faults[w] = 0
         /\ req[w].op = "delete" => req[w].asked = {}
         /\ pc[w] = "row" => req[w].op # "set"
         /\ pc[w] = "snapshot" => req[w].op = "rename"
         /\ req[w].op = "rename" /\ pc[w] \notin {"row", "snapshot"} =>
               req[w].old # req[w].new
         /\ faults[w] > 0 <=> pc[w] = "row_back" \/ w \in undoing
         /\ w \in undoing => pc[w] \notin {"row", "snapshot"}
         /\ pc[w] \in {"add_db", "add_mem"} => todo[w] \subseteq {Target(w)} \X Perms
         /\ pc[w] = "add_mem" => rule[w] \in {Target(w)} \X Perms
         /\ pc[w] = "save" => todo[w] = {}

\* One that no other ran beside is the only one.
AloneOK == \A v, w \in Workers : Alone(w) /\ pc[v] # "idle" => v = w

Typed == TypeOK /\ RowsOK /\ (\A w \in Workers : RequestOK(w)) /\ AloneOK

\* Table and memory, while nothing tore them apart: alike at every statement of
\* one that is alone, else alike or about to be saved.
Apart(w) == /\ pc[w] = "remove_mem" => db = mem \ Of(mem, Source(w))
            /\ pc[w] = "add_mem" => db = mem \union {rule[w]}
            /\ pc[w] \notin {"remove_mem", "add_mem"} => db = mem
AgreeOK ==
    phase = "up" /\ ~torn =>
       /\ \A w \in Workers : Alone(w) => Apart(w)
       /\ \/ db = mem
          \/ \E w \in Workers :
                pc[w] \in {"remove_mem", "add_db", "add_mem", "save"}

\* Every rule has a role, or a name some request is or was about.
NamesOK ==
    /\ \A r \in db \union mem : r[1] \in Taken \/ Named(r[1])
    /\ phase = "up" =>
          \A r \in Rules : (r \in db /\ r \notin mem) \/ (r \in mem /\ r \notin db)
                              => Unsettled(r[1])
    /\ \A w \in Workers : pc[w] # "idle" =>
          \A n \in Names : roles[req[w].id] = n => Named(n)

PermsOf(rules) == {r[2] : r \in rules}

\* The row of one that is alone.
OwnRow(w) ==
    LET i == req[w].id
    IN /\ req[w].op = "set" \/ pc[w] = "row" => roles[i] = req[w].old
       /\ req[w].op = "rename" /\ pc[w] # "row" =>
             /\ roles[i] = req[w].new
             /\ req[w].old # req[w].new => req[w].old \notin Taken

\* Whom the rules in memory are about, name by name, while one that did not
\* fail is alone ...
Doing(w) ==
    LET own == Of(before[w], req[w].old)
        new == IF req[w].op = "rename" THEN PermsOf(own) ELSE req[w].asked
        adding == IF pc[w] = "add_mem" THEN {rule[w]} ELSE {}
    IN /\ pc[w] \in {"row", "snapshot", "remove_db", "remove_mem"} =>
             mem = before[w]
       /\ req[w].op = "rename" /\ pc[w] \notin {"row", "snapshot"} =>
             kept[w] = PermsOf(own)
       /\ pc[w] \in {"add_db", "add_mem", "save"} =>
             mem \union todo[w] \union adding
                = (before[w] \ own) \union ({req[w].new} \X new)

\* ... and while one that failed once goes back.
Undoing(w) ==
    LET own == Of(before[w], req[w].old)
        adding == IF pc[w] = "add_mem" THEN {rule[w]} ELSE {}
    IN /\ \A n \in Names \ {req[w].old, req[w].new} :
             Of(mem, n) = Of(before[w], n)
       /\ pc[w] = "row_back" => Of(mem, req[w].old) = own
       /\ pc[w] # "row_back" => kept[w] = PermsOf(own)
       /\ pc[w] \in {"remove_db", "remove_mem"} => Of(mem, req[w].old) = {}
       /\ pc[w] \in {"add_db", "add_mem", "save"} =>
             Of(mem, req[w].old) \union todo[w] \union adding = own

Does(w) == /\ OwnRow(w)
           /\ faults[w] = 0 => Doing(w)
           /\ faults[w] = 1 => Undoing(w)
AloneDoes == \A w \in Workers : Alone(w) => Does(w)

-----------------------------------------------------------------------------
(* Every variable keeps its type, and what a worker holds its fit *)

Same(v) ==
    /\ pc'[v] = pc[v] /\ req'[v] = req[v] /\ todo'[v] = todo[v]
    /\ kept'[v] = kept[v] /\ rule'[v] = rule[v] /\ faults'[v] = faults[v]
    /\ before'[v] = before[v]
    /\ v \in undoing' <=> v \in undoing
\* A step of w leaves what the others hold.
Frame(w) ==
    \A v \in Workers \ {w} : Same(v) /\ (v \in together' <=> v \in together)
Calm == UNCHANGED <<phase, last, admin, requests, cut>>

LEMMA NobodyApart ==
    /\ Nobody \notin Names /\ Nobody \notin Workers
    /\ Super \in Names /\ DefaultNames \subseteq Names /\ Defaults \subseteq Rules
  BY NamesType DEF Rules

LEMMA RequestFrame ==
    ASSUME NEW v \in Workers, RequestOK(v), Same(v),
           v \in together' <=> v \in together,
           last \in Nat, last' \in Nat, last <= last',
           requests \in Nat, requests' \in Nat, requests <= requests',
           phase' = phase
    PROVE  RequestOK(v)'
  <1>1. Target(v)' = Target(v)
    BY DEF Same, Target
  <1>2. req[v] \in Requests /\ req[v].id <= last => req[v].id <= last'
    BY DEF Requests, Ids
  <1>3. requests > 0 => requests' > 0
    OBVIOUS
  <1> QED BY <1>1, <1>2, <1>3 DEF RequestOK, Same

\* A worker that returns holds nothing.
LEMMA ReturnTyped ==
    ASSUME Typed, NEW w \in Workers, Return(w), pc[w] # "idle"
    PROVE  /\ pc' \in [Workers -> Points] /\ pc'[w] = "idle"
           /\ req' \in [Workers -> Requests \union {NoRequest}]
           /\ todo' \in [Workers -> SUBSET Rules]
           /\ kept' \in [Workers -> SUBSET Perms]
           /\ rule' \in [Workers -> Rules \union {Nobody}]
           /\ undoing' \subseteq Workers /\ together' \subseteq Workers
           /\ faults' \in [Workers -> Nat]
           /\ before' \in [Workers -> SUBSET Rules]
           /\ loose' \subseteq Names /\ loose \subseteq loose'
           /\ UNCHANGED <<torn, cut>>
           /\ Frame(w) /\ RequestOK(w)'
           /\ w \notin together'
           /\ w \in together \/ faults[w] > 0 => NamesOf(w) \subseteq loose'
  <1>1. req[w] \in Requests
    BY DEF Typed, RequestOK
  <1>2. /\ pc' = [pc EXCEPT ![w] = "idle"]
        /\ req' = [req EXCEPT ![w] = NoRequest]
        /\ todo' = [todo EXCEPT ![w] = {}] /\ kept' = [kept EXCEPT ![w] = {}]
        /\ rule' = [rule EXCEPT ![w] = Nobody]
        /\ undoing' = undoing \ {w} /\ together' = together \ {w}
        /\ faults' = [faults EXCEPT ![w] = 0]
        /\ before' = [before EXCEPT ![w] = {}]
        /\ UNCHANGED <<torn, cut>>
    BY DEF Return, Goto
  <1>3. Frame(w)
    BY <1>2 DEF Frame, Same, Typed, TypeOK
  <1>4. /\ loose' \subseteq Names /\ loose \subseteq loose'
        /\ w \in together \/ faults[w] > 0 => NamesOf(w) \subseteq loose'
    <2>1. req[w].old \in Names /\ req[w].new \in Names
      BY <1>1 DEF Requests
    <2> QED BY <2>1 DEF Return, NamesOf, Typed, TypeOK
  <1>5. pc'[w] = "idle" /\ faults'[w] = 0
    BY <1>2 DEF Typed, TypeOK
  <1>6. RequestOK(w)'
    BY <1>2, <1>5 DEF RequestOK
  <1>7. /\ pc' \in [Workers -> Points]
        /\ req' \in [Workers -> Requests \union {NoRequest}]
        /\ todo' \in [Workers -> SUBSET Rules]
        /\ kept' \in [Workers -> SUBSET Perms]
        /\ rule' \in [Workers -> Rules \union {Nobody}]
        /\ undoing' \subseteq Workers /\ together' \subseteq Workers
        /\ faults' \in [Workers -> Nat]
        /\ before' \in [Workers -> SUBSET Rules]
    BY <1>2 DEF Typed, TypeOK, Points
  <1> QED BY <1>2, <1>3, <1>4, <1>5, <1>6, <1>7

\* What can be renamed stays unique.
LEMMA RenameTyped ==
    ASSUME Typed, NEW i \in Ids, NEW name \in Names
    PROVE  /\ Rename(i, name) \in [Ids -> Names \union {Nobody}]
           /\ \A j \in Ids : roles[j] = Nobody => Rename(i, name)[j] = Nobody
           /\ \A j, k \in Ids :
                 Rename(i, name)[j] # Nobody
                 /\ Rename(i, name)[j] = Rename(i, name)[k] => j = k
  <1> DEFINE new == [roles EXCEPT ![i] = name]
  <1>1. roles \in [Ids -> Names \union {Nobody}]
    BY DEF Typed, TypeOK
  <1>2. \A j, k \in Ids : roles[j] # Nobody /\ roles[j] = roles[k] => j = k
    BY DEF Typed, RowsOK
  <1>3. CASE roles[i] = Nobody \/ name \in Taken \ {roles[i]}
    BY <1>1, <1>2, <1>3 DEF Rename
  <1>4. CASE ~(roles[i] = Nobody \/ name \in Taken \ {roles[i]})
    <2>1. Rename(i, name) = new
      BY <1>4 DEF Rename
    <2>2. new \in [Ids -> Names \union {Nobody}]
      BY <1>1
    <2>3. \A j \in Ids : new[j] = IF j = i THEN name ELSE roles[j]
      BY <1>1
    <2>4. \A j \in Ids \ {i} : roles[j] # name
      <3>1. name # Nobody
        BY NobodyApart
      <3>2. \A j \in Ids : roles[j] = name => name \in Taken
        BY <3>1 DEF Taken
      <3> QED BY <1>2, <1>4, <3>1, <3>2
    <2> HIDE DEF new
    <2>5. \A j \in Ids : roles[j] = Nobody => new[j] = Nobody
      BY <1>4, <2>3
    <2>6. ASSUME NEW j \in Ids, NEW k \in Ids, new[j] # Nobody, new[j] = new[k]
          PROVE  j = k
      BY <1>2, <2>3, <2>4, <2>6
    <2> QED BY <2>1, <2>2, <2>5, <2>6
  <1> QED BY <1>3, <1>4

\* A step of one worker keeps the types if what that worker holds has them.
LEMMA TypedStep ==
    ASSUME Typed, NEW w \in Workers, pc[w] # "idle", Frame(w), Calm,
           TypeOK', RequestOK(w)',
           w \in together => w \in together' \/ pc'[w] = "idle",
           \A i \in Ids : roles[i] = Nobody => roles'[i] = Nobody,
           \A i, j \in Ids : roles'[i] # Nobody /\ roles'[i] = roles'[j] => i = j
    PROVE  Typed'
  <1>1. phase = "up" /\ phase' = "up" /\ last' = last /\ requests' = requests
    BY DEF Typed, RequestOK, Calm
  <1>2. RowsOK'
    BY <1>1 DEF Typed, RowsOK, Calm, Ids
  <1>3. last \in Nat /\ requests \in Nat
    BY DEF Typed, TypeOK
  <1>4. ASSUME NEW v \in Workers PROVE RequestOK(v)'
    <2>1. CASE v = w
      BY <2>1
    <2>2. CASE v # w
      <3>1. Same(v) /\ (v \in together' <=> v \in together) /\ RequestOK(v)
        BY <2>2 DEF Frame, Typed
      <3> QED BY <1>1, <1>3, <3>1, RequestFrame
    <2> QED BY <2>1, <2>2
  <1>5. ASSUME NEW u \in Workers, NEW v \in Workers, Alone(u)', pc'[v] # "idle"
        PROVE  u = v
    <2>1. \A x \in Workers : pc'[x] # "idle" => pc[x] # "idle"
      BY DEF Frame, Same
    <2>2. Alone(u)
      BY <1>5, <2>1 DEF Alone, Frame
    <2> QED BY <1>5, <2>1, <2>2 DEF Typed, AloneOK
  <1>6. AloneOK'
    BY <1>5 DEF AloneOK
  <1> QED BY <1>2, <1>4, <1>6 DEF Typed

\* ... with one case for a row that is left alone and one for a return.
LEMMA TypedReturn ==
    ASSUME Typed, NEW w \in Workers, pc[w] # "idle", Return(w), Calm,
           UNCHANGED <<held, withdrawn, failures>>,
           db' \subseteq Rules, mem' \subseteq Rules,
           roles' \in [Ids -> Names \union {Nobody}],
           \A i \in Ids : roles[i] = Nobody => roles'[i] = Nobody,
           \A i, j \in Ids : roles'[i] # Nobody /\ roles'[i] = roles'[j] => i = j
    PROVE  Typed' /\ Frame(w)
  <1>1. TypeOK'
    BY ReturnTyped DEF Typed, TypeOK, Calm
  <1>2. Frame(w) /\ RequestOK(w)' /\ pc'[w] = "idle"
    BY ReturnTyped
  <1> QED BY <1>1, <1>2, TypedStep

LEMMA RolesUnique ==
    ASSUME Typed
    PROVE  \A i, j \in Ids : roles[i] # Nobody /\ roles[i] = roles[j] => i = j
  BY DEF Typed, RowsOK

LEMMA ChangeRowTyped ==
    ASSUME Typed, NEW w \in Workers, ChangeRow(w)
    PROVE  Typed' /\ Frame(w)
  <1> DEFINE i == req[w].id
  <1>1. /\ pc[w] = "row" /\ pc[w] # "idle"
        /\ UNCHANGED <<phase, last, admin, db, mem, requests, failures>>
    BY DEF ChangeRow, policy
  <1>0. /\ withdrawn' \in BOOLEAN
        /\ roles' = roles => withdrawn' = withdrawn
    BY DEF ChangeRow, Typed, TypeOK
  <1>2. /\ req[w] \in Requests /\ i \in Ids /\ req[w].new \in Names
        /\ w \notin undoing
    BY <1>1 DEF Typed, RequestOK, Requests
  <1>3. CASE /\ req[w].op = "delete"
             /\ roles' = [roles EXCEPT ![i] = Nobody]
             /\ held' = held \ {i}
             /\ Goto(w, "remove_db")
             /\ UNCHANGED <<req, todo, kept, rule, undoing, history>>
    <2>1. TypeOK'
      BY <1>0, <1>1, <1>2, <1>3 DEF Typed, TypeOK, Goto, history, Points
    <2>2. Frame(w)
      BY <1>3 DEF Typed, TypeOK, Goto, history, Frame, Same
    <2>3. pc'[w] = "remove_db"
      BY <1>3 DEF Typed, TypeOK, Goto
    <2>4. RequestOK(w)'
      BY <1>1, <1>2, <1>3, <2>3 DEF Typed, RequestOK, history
    <2>5. /\ \A j \in Ids : roles[j] = Nobody => roles'[j] = Nobody
          /\ \A j, k \in Ids : roles'[j] # Nobody /\ roles'[j] = roles'[k] => j = k
      BY <1>2, <1>3, RolesUnique DEF Typed, TypeOK
    <2>6. Calm /\ together' = together
      BY <1>1, <1>3 DEF Calm, history
    <2> QED BY <1>1, <2>1, <2>2, <2>4, <2>5, <2>6, TypedStep
  <1>4. CASE /\ req[w].op = "rename"
             /\ roles' = Rename(i, req[w].new)
             /\ held' = held
             /\ Goto(w, "snapshot")
             /\ UNCHANGED <<req, todo, kept, rule, undoing, history>>
    <2>0. /\ roles' \in [Ids -> Names \union {Nobody}]
          /\ \A j \in Ids : roles[j] = Nobody => roles'[j] = Nobody
          /\ \A j, k \in Ids : roles'[j] # Nobody /\ roles'[j] = roles'[k] => j = k
      BY <1>2, <1>4, RenameTyped
    <2>1. TypeOK'
      BY <1>0, <1>1, <1>4, <2>0 DEF Typed, TypeOK, Goto, history, Points
    <2>2. Frame(w)
      BY <1>4 DEF Typed, TypeOK, Goto, history, Frame, Same
    <2>3. pc'[w] = "snapshot"
      BY <1>4 DEF Typed, TypeOK, Goto
    <2>4. RequestOK(w)'
      BY <1>1, <1>2, <1>4, <2>3 DEF Typed, RequestOK, history
    <2>6. Calm /\ together' = together
      BY <1>1, <1>4 DEF Calm, history
    <2> QED BY <1>1, <2>0, <2>1, <2>2, <2>4, <2>6, TypedStep
  <1>5. CASE UNCHANGED <<roles, held>> /\ Return(w)
    <2>1. Calm
      BY <1>1, <1>5, ReturnTyped DEF Calm
    <2> QED BY <1>0, <1>1, <1>5, <2>1, TypedReturn, RolesUnique DEF Typed, TypeOK
  <1> QED BY <1>3, <1>4, <1>5 DEF ChangeRow

LEMMA SnapshotTyped ==
    ASSUME Typed, NEW w \in Workers, Snapshot(w)
    PROVE  Typed' /\ Frame(w)
  <1> DEFINE old == {r[2] : r \in Of(mem, req[w].old)}
  <1>1. /\ pc[w] = "snapshot" /\ pc[w] # "idle"
        /\ UNCHANGED <<phase, roles, last, held, admin, withdrawn, db, mem,
                       requests, failures>>
    BY DEF Snapshot, policy, tables
  <1>2. req[w] \in Requests /\ w \notin undoing
    BY <1>1 DEF Typed, RequestOK
  <1>3. old \subseteq Perms
    BY DEF Of, Rules, Typed, TypeOK
  <1>4. CASE /\ req[w].old # req[w].new
             /\ kept' = [kept EXCEPT ![w] = old]
             /\ Goto(w, "remove_db")
             /\ UNCHANGED <<req, todo, rule, undoing, history>>
    <2> HIDE DEF old
    <2>1. TypeOK'
      BY <1>1, <1>3, <1>4 DEF Typed, TypeOK, Goto, history, Points
    <2>2. Frame(w)
      BY <1>4 DEF Typed, TypeOK, Goto, history, Frame, Same
    <2>3. pc'[w] = "remove_db"
      BY <1>4 DEF Typed, TypeOK, Goto
    <2>4. RequestOK(w)'
      BY <1>1, <1>2, <1>4, <2>3 DEF Typed, RequestOK, history
    <2>6. Calm /\ together' = together /\ roles' = roles
      BY <1>1, <1>4 DEF Calm, history
    <2> QED BY <1>1, <2>1, <2>2, <2>4, <2>6, TypedStep, RolesUnique
  <1>5. CASE Return(w)
    <2>1. Calm
      BY <1>1, <1>5, ReturnTyped DEF Calm
    <2> QED BY <1>1, <1>5, <2>1, TypedReturn, RolesUnique DEF Typed, TypeOK
  <1> QED BY <1>4, <1>5 DEF Snapshot

LEMMA RemoveFromTableTyped ==
    ASSUME Typed, NEW w \in Workers, RemoveFromTable(w)
    PROVE  Typed' /\ Frame(w)
  <1>1. /\ pc[w] = "remove_db" /\ pc[w] # "idle"
        /\ db' = db \ Of(db, Source(w)) /\ Goto(w, "remove_mem")
        /\ UNCHANGED <<phase, roles, last, held, admin, withdrawn, mem, req,
                       todo, kept, rule, undoing, requests, failures, faults,
                       before, together, torn, loose, cut>>
    BY DEF RemoveFromTable, history, tables
  <1>2. TypeOK'
    BY <1>1 DEF Typed, TypeOK, Goto, Points
  <1>3. Frame(w)
    BY <1>1 DEF Typed, TypeOK, Goto, Frame, Same
  <1>4. pc'[w] = "remove_mem"
    BY <1>1 DEF Typed, TypeOK, Goto
  <1>5. RequestOK(w)'
    BY <1>1, <1>4 DEF Typed, RequestOK
  <1> QED BY <1>1, <1>2, <1>3, <1>5, TypedStep, RolesUnique DEF Calm

LEMMA ToAddTyped ==
    ASSUME Typed, NEW w \in Workers, pc[w] # "idle"
    PROVE  ToAdd(w) \subseteq {Target(w)} \X Perms /\ ToAdd(w) \in SUBSET Rules
           /\ Target(w) \in NamesOf(w) /\ Source(w) \in NamesOf(w)
           /\ NamesOf(w) \subseteq Names
  <1>1. req[w] \in Requests /\ kept[w] \in SUBSET Perms
    BY DEF Typed, RequestOK, TypeOK
  <1>2. req[w].asked \in SUBSET Perms /\ req[w].old \in Names /\ req[w].new \in Names
    BY <1>1 DEF Requests
  <1>3. ToAdd(w) \subseteq {Target(w)} \X Perms
    BY <1>1, <1>2 DEF ToAdd
  <1>4. Target(w) \in NamesOf(w) /\ Source(w) \in NamesOf(w)
    BY DEF Target, Source, NamesOf
  <1>5. NamesOf(w) \subseteq Names
    BY <1>2 DEF NamesOf
  <1> QED BY <1>3, <1>4, <1>5 DEF Rules

LEMMA RemoveFromMemoryTyped ==
    ASSUME Typed, NEW w \in Workers, RemoveFromMemory(w)
    PROVE  Typed' /\ Frame(w)
  <1> DEFINE add == ToAdd(w)
  <1>1. /\ pc[w] = "remove_mem" /\ pc[w] # "idle"
        /\ mem' = mem \ Of(mem, Source(w)) /\ Goto(w, "add_db")
        /\ todo' = [todo EXCEPT ![w] = add]
        /\ UNCHANGED <<phase, roles, last, held, admin, withdrawn, db, req,
                       kept, rule, undoing, requests, failures, faults, before,
                       together, torn, loose, cut>>
    BY DEF RemoveFromMemory, history, tables
  <1>2. add \in SUBSET Rules /\ add \subseteq {Target(w)} \X Perms
    BY <1>1, ToAddTyped
  <1> HIDE DEF add
  <1>3. TypeOK'
    BY <1>1, <1>2 DEF Typed, TypeOK, Goto, Points
  <1>4. Frame(w)
    BY <1>1 DEF Typed, TypeOK, Goto, Frame, Same
  <1>5. pc'[w] = "add_db" /\ todo'[w] = add /\ Target(w)' = Target(w)
    BY <1>1 DEF Typed, TypeOK, Goto, Target
  <1>6. RequestOK(w)'
    BY <1>1, <1>2, <1>5 DEF Typed, RequestOK
  <1> QED BY <1>1, <1>3, <1>4, <1>6, TypedStep, RolesUnique DEF Calm

LEMMA AddToTableTyped ==
    ASSUME Typed, NEW w \in Workers, AddToTable(w)
    PROVE  Typed' /\ Frame(w)
  <1>1. /\ pc[w] = "add_db" /\ pc[w] # "idle"
        /\ UNCHANGED <<phase, roles, last, held, admin, withdrawn, mem, req,
                       kept, undoing, requests, failures, faults, before,
                       together, torn, loose, cut>>
    BY DEF AddToTable, history, tables
  <1>2. todo[w] \subseteq Rules /\ todo[w] \subseteq {Target(w)} \X Perms
    BY <1>1 DEF Typed, TypeOK, RequestOK
  <1>3. Target(w)' = Target(w)
    BY <1>1 DEF Target
  <1>4. CASE /\ todo[w] = {}
             /\ Goto(w, "save")
             /\ UNCHANGED <<db, todo, rule>>
    <2>1. TypeOK'
      BY <1>1, <1>4 DEF Typed, TypeOK, Goto, Points
    <2>2. Frame(w)
      BY <1>1, <1>4 DEF Typed, TypeOK, Goto, Frame, Same
    <2>3. pc'[w] = "save"
      BY <1>4 DEF Typed, TypeOK, Goto
    <2>4. RequestOK(w)'
      BY <1>1, <1>3, <1>4, <2>3 DEF Typed, RequestOK
    <2> QED BY <1>1, <2>1, <2>2, <2>4, TypedStep, RolesUnique DEF Calm
  <1>5. ASSUME NEW r \in todo[w], r \in mem, UNCHANGED <<db, rule, pc>>,
               todo' = [todo EXCEPT ![w] = @ \ {r}]
        PROVE  Typed' /\ Frame(w)
    <2>1. TypeOK'
      BY <1>1, <1>2, <1>5 DEF Typed, TypeOK
    <2>2. Frame(w)
      BY <1>1, <1>5 DEF Typed, TypeOK, Frame, Same
    <2>3. todo'[w] \subseteq todo[w]
      BY <1>5 DEF Typed, TypeOK
    <2>4. RequestOK(w)'
      BY <1>1, <1>2, <1>3, <1>5, <2>3 DEF Typed, RequestOK
    <2> QED BY <1>1, <2>1, <2>2, <2>4, TypedStep, RolesUnique DEF Calm
  <1>6. ASSUME NEW r \in todo[w], db' = db \union {r},
               rule' = [rule EXCEPT ![w] = r], Goto(w, "add_mem"),
               todo' = [todo EXCEPT ![w] = @ \ {r}]
        PROVE  Typed' /\ Frame(w)
    <2>1. TypeOK'
      BY <1>1, <1>2, <1>6 DEF Typed, TypeOK, Points, Goto
    <2>2. Frame(w)
      BY <1>1, <1>6 DEF Typed, TypeOK, Frame, Same, Goto
    <2>3. todo'[w] \subseteq todo[w] /\ rule'[w] = r /\ pc'[w] = "add_mem"
      BY <1>6 DEF Typed, TypeOK, Goto
    <2>4. RequestOK(w)'
      BY <1>1, <1>2, <1>3, <1>6, <2>3 DEF Typed, RequestOK
    <2> QED BY <1>1, <2>1, <2>2, <2>4, TypedStep, RolesUnique DEF Calm
  <1> QED BY <1>4, <1>5, <1>6 DEF AddToTable

LEMMA AddToMemoryTyped ==
    ASSUME Typed, NEW w \in Workers, AddToMemory(w)
    PROVE  Typed' /\ Frame(w)
  <1>1. /\ pc[w] = "add_mem" /\ pc[w] # "idle"
        /\ mem' = mem \union {rule[w]} /\ Goto(w, "add_db")
        /\ rule' = [rule EXCEPT ![w] = Nobody]
        /\ UNCHANGED <<phase, roles, last, held, admin, withdrawn, db, req,
                       todo, kept, undoing, requests, failures, faults, before,
                       together, torn, loose, cut>>
    BY DEF AddToMemory, history, tables
  <1>2. rule[w] \in Rules
    <2>1. rule[w] \in {Target(w)} \X Perms
      BY <1>1 DEF Typed, RequestOK
    <2> QED BY <1>1, <2>1, ToAddTyped DEF Rules
  <1>3. TypeOK'
    BY <1>1, <1>2 DEF Typed, TypeOK, Goto, Points
  <1>4. Frame(w)
    BY <1>1 DEF Typed, TypeOK, Goto, Frame, Same
  <1>5. pc'[w] = "add_db" /\ Target(w)' = Target(w)
    BY <1>1 DEF Typed, TypeOK, Goto, Target
  <1>6. RequestOK(w)'
    BY <1>1, <1>5 DEF Typed, RequestOK
  <1> QED BY <1>1, <1>3, <1>4, <1>6, TypedStep, RolesUnique DEF Calm

LEMMA SavePolicyTyped ==
    ASSUME Typed, NEW w \in Workers, SavePolicy(w)
    PROVE  Typed' /\ Frame(w)
  <1>1. /\ pc[w] = "save" /\ pc[w] # "idle" /\ db' = mem
        /\ UNCHANGED <<phase, roles, last, held, admin, withdrawn, mem,
                       requests, failures>>
    BY DEF SavePolicy, Saved, tables
  <1>2. CASE /\ w \in undoing
             /\ Goto(w, "row_back")
             /\ UNCHANGED <<req, todo, kept, rule, undoing, history>>
    <2>1. TypeOK'
      BY <1>1, <1>2 DEF Typed, TypeOK, Goto, Points, history
    <2>2. Frame(w)
      BY <1>1, <1>2 DEF Typed, TypeOK, Goto, Frame, Same, history
    <2>3. pc'[w] = "row_back"
      BY <1>2 DEF Typed, TypeOK, Goto
    <2>4. RequestOK(w)'
      BY <1>1, <1>2, <2>3 DEF Typed, RequestOK, history
    <2>5. Calm /\ together' = together
      BY <1>1, <1>2 DEF Calm, history
    <2> QED BY <1>1, <2>1, <2>2, <2>4, <2>5, TypedStep, RolesUnique
  <1>3. CASE Return(w)
    <2>1. Calm
      BY <1>1, <1>3, ReturnTyped DEF Calm
    <2> QED BY <1>1, <1>3, <2>1, TypedReturn, RolesUnique DEF Typed, TypeOK
  <1> QED BY <1>2, <1>3 DEF SavePolicy

LEMMA RestoreRowTyped ==
    ASSUME Typed, NEW w \in Workers, RestoreRow(w)
    PROVE  Typed' /\ Frame(w)
  <1>1. /\ pc[w] = "row_back" /\ pc[w] # "idle" /\ Return(w)
        /\ roles' = Rename(req[w].id, req[w].old)
        /\ UNCHANGED <<phase, last, held, admin, withdrawn, db, mem, requests,
                       failures>>
    BY DEF RestoreRow, policy
  <1>2. req[w].id \in Ids /\ req[w].old \in Names
    BY <1>1 DEF Typed, RequestOK, Requests
  <1>3. Calm
    BY <1>1, ReturnTyped DEF Calm
  <1>4. /\ roles' \in [Ids -> Names \union {Nobody}]
        /\ \A j \in Ids : roles[j] = Nobody => roles'[j] = Nobody
        /\ \A j, k \in Ids : roles'[j] # Nobody /\ roles'[j] = roles'[k] => j = k
    BY <1>1, <1>2, RenameTyped
  <1> QED BY <1>1, <1>3, <1>4, TypedReturn DEF Typed, TypeOK

\* Where a request that failed goes on.
LEMMA AfterFailureIs ==
    ASSUME Typed, NEW w \in Workers, Fail(w)
    PROVE  \/ /\ AfterFailure(w) = "idle"
              /\ req[w].op # "rename" \/ pc[w] \in {"row", "row_back"}
           \/ /\ AfterFailure(w) = "add_db"
              /\ w \in undoing /\ pc[w] = "remove_db" /\ req[w].op = "rename"
           \/ /\ AfterFailure(w) = "row_back"
              /\ w \in undoing /\ pc[w] \in {"add_db", "save"}
              /\ req[w].op = "rename"
           \/ /\ AfterFailure(w) = "row_back"
              /\ w \notin undoing /\ pc[w] = "remove_db" /\ req[w].op = "rename"
           \/ /\ AfterFailure(w) = "remove_db"
              /\ w \notin undoing /\ pc[w] \in {"add_db", "save"}
              /\ req[w].op = "rename"
  BY DEF Fail, AfterFailure

LEMMA FailTyped ==
    ASSUME Typed, NEW w \in Workers, Fail(w)
    PROVE  Typed' /\ Frame(w)
  <1> DEFINE next == AfterFailure(w)
             add == ToAdd(w)
  <1>1. /\ pc[w] \in {"row", "remove_db", "add_db", "save", "row_back"}
        /\ pc[w] # "idle" /\ failures' = failures + 1
        /\ torn' = (torn \/ w \in together)
        /\ loose' = loose \union {req[w].old, req[w].new}
        /\ UNCHANGED <<phase, roles, last, held, admin, withdrawn, db, mem,
                       rule, requests, cut>>
    BY DEF Fail, tables, policy
  <1>2. loose' \subseteq Names /\ torn' \in BOOLEAN
    <2>1. req[w] \in Requests
      BY <1>1 DEF Typed, RequestOK
    <2> QED BY <1>1, <2>1 DEF Typed, TypeOK, Requests
  <1>3. CASE next = "idle"
    <2>1. /\ pc' = [pc EXCEPT ![w] = "idle"]
          /\ req' = [req EXCEPT ![w] = NoRequest]
          /\ todo' = [todo EXCEPT ![w] = {}] /\ kept' = [kept EXCEPT ![w] = {}]
          /\ undoing' = undoing \ {w} /\ together' = together \ {w}
          /\ faults' = [faults EXCEPT ![w] = 0]
          /\ before' = [before EXCEPT ![w] = {}]
      BY <1>3 DEF Fail
    <2>2. TypeOK'
      BY <1>1, <1>2, <2>1 DEF Typed, TypeOK, Points
    <2>3. Frame(w)
      BY <1>1, <2>1 DEF Typed, TypeOK, Frame, Same
    <2>4. pc'[w] = "idle" /\ faults'[w] = 0
      BY <2>1 DEF Typed, TypeOK
    <2>5. RequestOK(w)'
      BY <2>1, <2>4 DEF RequestOK
    <2> QED BY <1>1, <2>1, <2>2, <2>3, <2>4, <2>5, TypedStep, RolesUnique DEF Calm
  <1>4. CASE next # "idle"
    <2>1. /\ pc' = [pc EXCEPT ![w] = next]
          /\ undoing' = IF next = "remove_db" THEN undoing \union {w} ELSE undoing
          /\ todo' = [todo EXCEPT ![w] = IF next = "add_db" THEN add ELSE {}]
          /\ faults' = [faults EXCEPT ![w] = @ + 1]
          /\ UNCHANGED <<req, kept, before, together>>
      BY <1>4 DEF Fail, Goto
    <2>2. next \in Points /\ req[w].op = "rename"
      BY <1>4, AfterFailureIs DEF Points
    <2>3. add \in SUBSET Rules /\ add \subseteq {Target(w)} \X Perms
      BY <1>1, ToAddTyped
    <2>4. CASE next = "add_db"
      <3> HIDE DEF next, add
      <3>1. TypeOK'
        BY <1>1, <1>2, <2>1, <2>2, <2>3 DEF Typed, TypeOK
      <3>2. Frame(w)
        BY <1>1, <2>1, <2>4 DEF Typed, TypeOK, Frame, Same
      <3>3. /\ pc'[w] = "add_db" /\ todo'[w] = add /\ faults'[w] > 0
            /\ Target(w)' = Target(w)
        BY <2>1, <2>4 DEF Typed, TypeOK, Target
      <3>4. w \in undoing /\ pc[w] = "remove_db"
        BY <2>4, AfterFailureIs DEF next
      <3>5. RequestOK(w)'
        BY <1>1, <2>1, <2>2, <2>3, <2>4, <3>3, <3>4 DEF Typed, RequestOK
      <3> QED BY <1>1, <2>1, <3>1, <3>2, <3>5, TypedStep, RolesUnique DEF Calm
    <2>5. CASE next = "remove_db"
      <3> HIDE DEF next, add
      <3>1. TypeOK'
        BY <1>1, <1>2, <2>1, <2>2, <2>3 DEF Typed, TypeOK
      <3>2. Frame(w)
        BY <1>1, <2>1, <2>5 DEF Typed, TypeOK, Frame, Same
      <3>3. pc'[w] = "remove_db" /\ faults'[w] > 0 /\ w \in undoing'
        BY <2>1, <2>5 DEF Typed, TypeOK
      <3>4. pc[w] \in {"add_db", "save"}
        BY <2>5, AfterFailureIs DEF next
      <3>5. RequestOK(w)'
        BY <1>1, <2>1, <2>2, <3>3, <3>4 DEF Typed, RequestOK
      <3> QED BY <1>1, <2>1, <3>1, <3>2, <3>5, TypedStep, RolesUnique DEF Calm
    <2>6. CASE next = "row_back"
      <3> HIDE DEF next, add
      <3>1. TypeOK'
        BY <1>1, <1>2, <2>1, <2>2, <2>3 DEF Typed, TypeOK
      <3>2. Frame(w)
        BY <1>1, <2>1, <2>6 DEF Typed, TypeOK, Frame, Same
      <3>3. pc'[w] = "row_back" /\ faults'[w] > 0
        BY <2>1, <2>6 DEF Typed, TypeOK
      <3>4. pc[w] \in {"remove_db", "add_db", "save"}
        BY <2>6, AfterFailureIs DEF next
      <3>5. RequestOK(w)'
        BY <1>1, <2>1, <2>2, <2>6, <3>3, <3>4 DEF Typed, RequestOK
      <3> QED BY <1>1, <2>1, <3>1, <3>2, <3>5, TypedStep, RolesUnique DEF Calm
    <2> QED BY <1>4, <2>4, <2>5, <2>6, AfterFailureIs
  <1> QED BY <1>3, <1>4

\* A new request is beside all that run.
LEMMA BeginTyped ==
    ASSUME Typed, NEW w \in Workers, NEW r \in Requests, NEW point \in Points,
           Begin(w, r, point), r.id <= last,
           r.op # "rename" => r.old = r.new, r.op = "delete" => r.asked = {},
           point \in {"row", "remove_db"},
           point = "row" <=> r.op # "set"
    PROVE  /\ Typed' /\ (\A v \in Workers \ {w} : Same(v))
           /\ pc'[w] = point /\ req'[w] = r /\ before'[w] = mem
           /\ pc[w] = "idle" /\ phase = "up" /\ faults'[w] = 0 /\ w \notin undoing'
           /\ \A v \in Workers : v \in together => v \in together'
           /\ \A v \in Workers : Alone(v)' => v = w /\ Busy = {}
           /\ UNCHANGED <<phase, roles, last, held, admin, withdrawn, db, mem,
                          torn, loose, cut, faults, undoing>>
  <1>1. /\ phase = "up" /\ pc[w] = "idle" /\ requests < MaxRequests
        /\ requests' = requests + 1
        /\ pc' = [pc EXCEPT ![w] = point]
        /\ req' = [req EXCEPT ![w] = r]
        /\ before' = [before EXCEPT ![w] = mem]
        /\ together' = IF Busy = {} THEN together
                       ELSE together \union Busy \union {w}
        /\ UNCHANGED <<phase, roles, last, held, admin, withdrawn, db, mem,
                       todo, kept, rule, undoing, failures, faults, torn,
                       loose, cut>>
    BY DEF Begin, tables, policy
  <1>2. TypeOK'
    BY <1>1 DEF Typed, TypeOK, Busy
  <1>3. pc'[w] = point /\ req'[w] = r /\ before'[w] = mem
    BY <1>1 DEF Typed, TypeOK
  <1>4. \A v \in Workers \ {w} : Same(v)
    BY <1>1 DEF Typed, TypeOK, Same
  <1>5. w \notin together /\ w \notin undoing /\ faults[w] = 0
    BY <1>1 DEF Typed, RequestOK
  <1>6. RequestOK(w)'
    BY <1>1, <1>3, <1>5 DEF Typed, TypeOK, RequestOK
  <1>7. ASSUME NEW v \in Workers \ {w} PROVE RequestOK(v)'
    <2>1. Same(v) /\ Target(v)' = Target(v) /\ RequestOK(v)
      BY <1>4 DEF Same, Target, Typed
    <2>2. pc[v] = "idle" => v \notin together'
      BY <1>1, <2>1 DEF RequestOK, Busy
    <2>3. requests \in Nat
      BY DEF Typed, TypeOK
    <2> QED BY <1>1, <2>1, <2>2, <2>3 DEF RequestOK, Same
  <1>8. RowsOK'
    BY <1>1 DEF Typed, RowsOK, Taken
  <1>9. ASSUME NEW v \in Workers, Alone(v)' PROVE v = w /\ Busy = {}
    <2>1. CASE Busy = {}
      <3>1. v # w => pc'[v] = "idle"
        BY <1>4, <2>1 DEF Same, Busy
      <3> QED BY <1>9, <2>1, <3>1 DEF Alone
    <2>2. CASE Busy # {}
      <3>1. v # w => pc'[v] = pc[v]
        BY <1>4 DEF Same
      <3> QED BY <1>1, <1>9, <2>2, <3>1 DEF Alone, Busy
    <2> QED BY <2>1, <2>2
  <1>10. AloneOK'
    <2> SUFFICES ASSUME NEW u \in Workers, NEW v \in Workers, Alone(u)',
                        pc'[v] # "idle"
                 PROVE  u = v
      BY DEF AloneOK
    <2>1. u = w /\ Busy = {}
      BY <1>9
    <2>2. v # w => pc'[v] = "idle"
      BY <1>4, <2>1 DEF Same, Busy
    <2> QED BY <2>1, <2>2
  <1>11. \A v \in Workers : RequestOK(v)'
    BY <1>6, <1>7
  <1> QED BY <1>1, <1>2, <1>3, <1>4, <1>5, <1>8, <1>9, <1>10, <1>11 DEF Typed

\* One of the three requests begins.
Begins(w) == \E r \in Requests, point \in Points :
    /\ Begin(w, r, point) /\ r.id <= last
    /\ roles[r.id] = r.old
    /\ r.op # "rename" => r.old = r.new
    /\ r.op = "delete" => r.asked = {}
    /\ point \in {"row", "remove_db"}
    /\ point = "row" <=> r.op # "set"

LEMMA BeginIs ==
    ASSUME Typed, NEW w \in Workers, NEW i \in Ids
    PROVE  /\ \A perms \in SUBSET Perms :
                 SetRolePermissions(w, i, perms) => Begins(w)
           /\ \A name \in Names : UpdateRole(w, i, name) => Begins(w)
           /\ DeleteRole(w, i) => Begins(w)
  <1>1. roles[i] # Nobody => roles[i] \in Names /\ i <= last
    BY BoundsType DEF Typed, TypeOK, RowsOK, Ids
  <1>2. ASSUME NEW perms \in SUBSET Perms, SetRolePermissions(w, i, perms)
        PROVE  Begins(w)
    <2> DEFINE r == [op |-> "set", id |-> i, old |-> roles[i],
                     new |-> roles[i], asked |-> perms]
    <2>1. r \in Requests /\ Begin(w, r, "remove_db") /\ r.id = i
          /\ r.op = "set" /\ r.old = roles[i] /\ r.new = roles[i]
      BY <1>1, <1>2 DEF SetRolePermissions, Requests
    <2>2. "remove_db" \in Points
      BY DEF Points
    <2> HIDE DEF r
    <2>3. r.id <= last /\ roles[r.id] = r.old /\ r.old = r.new
      BY <1>1, <1>2, <2>1 DEF SetRolePermissions
    <2> QED BY <2>1, <2>2, <2>3 DEF Begins
  <1>3. ASSUME NEW name \in Names, UpdateRole(w, i, name)
        PROVE  Begins(w)
    <2> DEFINE r == [op |-> "rename", id |-> i, old |-> roles[i],
                     new |-> name, asked |-> {}]
    <2>1. r \in Requests /\ Begin(w, r, "row") /\ r.id = i
          /\ r.op = "rename" /\ r.old = roles[i]
      BY <1>1, <1>3 DEF UpdateRole, Requests
    <2>2. "row" \in Points
      BY DEF Points
    <2> HIDE DEF r
    <2>3. r.id <= last /\ roles[r.id] = r.old
      BY <1>1, <1>3, <2>1 DEF UpdateRole
    <2> QED BY <2>1, <2>2, <2>3 DEF Begins
  <1>4. ASSUME DeleteRole(w, i)
        PROVE  Begins(w)
    <2> DEFINE r == [op |-> "delete", id |-> i, old |-> roles[i],
                     new |-> roles[i], asked |-> {}]
    <2>1. r \in Requests /\ Begin(w, r, "row") /\ r.id = i /\ r.asked = {}
          /\ r.op = "delete" /\ r.old = roles[i] /\ r.new = roles[i]
      BY <1>1, <1>4 DEF DeleteRole, Requests
    <2>2. "row" \in Points
      BY DEF Points
    <2> HIDE DEF r
    <2>3. r.id <= last /\ roles[r.id] = r.old /\ r.old = r.new
      BY <1>1, <1>4, <2>1 DEF DeleteRole
    <2> QED BY <2>1, <2>2, <2>3 DEF Begins
  <1> QED BY <1>2, <1>3, <1>4

LEMMA InsertRoleTyped ==
    ASSUME Typed, NEW name \in Names, InsertRole(name)
    PROVE  /\ last' \in 0..MaxRoles /\ last' = last + 1
           /\ roles' \in [Ids -> Names \union {Nobody}]
           /\ \A i \in Ids : i > last' => roles'[i] = Nobody
           /\ \A i, j \in Ids : roles'[i] # Nobody /\ roles'[i] = roles'[j] => i = j
           /\ Taken' = Taken \union {name}
           /\ \A i \in Ids : i <= last => roles'[i] = roles[i]
           /\ \A i \in Ids : roles[i] # Nobody => roles'[i] = roles[i]
           /\ name \notin Taken
  <1>1. /\ last < MaxRoles /\ name \notin Taken /\ last' = last + 1
        /\ roles' = [roles EXCEPT ![last + 1] = name]
    BY DEF InsertRole
  <1>2. /\ last \in 0..MaxRoles /\ roles \in [Ids -> Names \union {Nobody}]
        /\ \A i \in Ids : i > last => roles[i] = Nobody
    BY DEF Typed, TypeOK, RowsOK
  <1>3. last + 1 \in Ids /\ last' \in 0..MaxRoles /\ roles[last + 1] = Nobody
    BY <1>1, <1>2, BoundsType DEF Ids
  <1>4. \A i \in Ids : roles'[i] = IF i = last + 1 THEN name ELSE roles[i]
    BY <1>1, <1>2
  <1>5. name # Nobody
    BY NobodyApart
  <1>6. \A i \in Ids : roles[i] # name
    BY <1>1, <1>5 DEF Taken
  <1>7. roles' \in [Ids -> Names \union {Nobody}]
    BY <1>1, <1>2
  <1>8. \A i \in Ids : i > last' => roles'[i] = Nobody
    BY <1>1, <1>2, <1>4 DEF Ids
  <1>9. \A i, j \in Ids : roles'[i] # Nobody /\ roles'[i] = roles'[j] => i = j
    BY <1>4, <1>6, RolesUnique
  <1>10. Taken' = Taken \union {name}
    <2>1. ASSUME NEW n PROVE n \in Taken' <=> n \in Taken \union {name}
      <3>1. n \in Taken' <=> n # Nobody /\ \E i \in Ids : roles'[i] = n
        BY DEF Taken
      <3>2. n \in Taken <=> n # Nobody /\ \E i \in Ids : roles[i] = n
        BY DEF Taken
      <3> QED BY <1>3, <1>4, <1>5, <3>1, <3>2
    <2> QED BY <2>1
  <1>11. /\ \A i \in Ids : i <= last => roles'[i] = roles[i]
         /\ \A i \in Ids : roles[i] # Nobody => roles'[i] = roles[i]
    BY <1>2, <1>3, <1>4 DEF Ids
  <1> QED BY <1>1, <1>3, <1>7, <1>8, <1>9, <1>10, <1>11

\* The workers of a step that leaves them alone.
LEMMA IdleTyped ==
    ASSUME Typed, UNCHANGED <<pc, req, todo, kept, rule, undoing, faults,
                              before, together, requests>>,
           phase' = phase \/ phase # "up", last' \in Nat, last <= last'
    PROVE  (\A w \in Workers : RequestOK(w)') /\ AloneOK'
  <1>1. ASSUME NEW w \in Workers PROVE RequestOK(w)'
    <2>1. CASE pc[w] = "idle"
      BY <2>1 DEF Typed, RequestOK
    <2>2. CASE pc[w] # "idle"
      <3>1. phase' = phase
        BY <2>2 DEF Typed, RequestOK
      <3>2. Same(w) /\ last \in Nat /\ requests \in Nat
        BY DEF Same, Typed, TypeOK
      <3> QED BY <3>1, <3>2, RequestFrame DEF Typed
    <2> QED BY <2>1, <2>2
  <1>2. AloneOK'
    BY DEF Typed, AloneOK, Alone
  <1> QED BY <1>1, <1>2

LEMMA StartTyped ==
    ASSUME Typed, Start
    PROVE  Typed' /\ \A w \in Workers : pc[w] = "idle" /\ pc'[w] = "idle"
  <1>0. phase # "up" /\ UNCHANGED <<pc, req, todo, kept, rule, undoing, faults,
                                    before, together, requests>>
    BY DEF Start, UpsertRole, RolesReady, CreateAdmin, AssignAdmin,
           NewEnforcer, local, history
  <1>1. \A w \in Workers : pc[w] = "idle"
    BY <1>0 DEF Typed, RequestOK
  <1>2. last \in Nat /\ last <= last
    BY DEF Typed, TypeOK
  <1>3. CASE UpsertRole
    <2>1. PICK name \in DefaultNames : InsertRole(name)
      BY <1>3 DEF UpsertRole
    <2>2. phase = "roles" /\ UNCHANGED <<phase, held, admin, withdrawn, db,
                                         mem, failures, torn, loose, cut>>
      BY <1>3 DEF UpsertRole, policy, history
    <2>3. name \in Names
      BY NobodyApart
    <2>4. TypeOK' /\ RowsOK'
      BY <1>0, <2>1, <2>2, <2>3, InsertRoleTyped DEF Typed, TypeOK, RowsOK
    <2>5. last' \in Nat /\ last <= last'
      BY <1>2, <2>1, <2>3, InsertRoleTyped
    <2> QED BY <1>0, <1>1, <2>2, <2>4, <2>5, IdleTyped DEF Typed
  <1>4. CASE RolesReady
    <2>1. TypeOK' /\ RowsOK' /\ last' = last
      BY <1>0, <1>4 DEF RolesReady, AfterRoles, tables, policy, history, Typed,
                        TypeOK, RowsOK, Phases, Taken
    <2> QED BY <1>0, <1>1, <1>2, <2>1, IdleTyped DEF Typed
  <1>5. CASE CreateAdmin
    <2>1. TypeOK' /\ RowsOK' /\ last' = last
      BY <1>0, <1>5 DEF CreateAdmin, policy, history, Typed,
                        TypeOK, RowsOK, Phases, Taken
    <2> QED BY <1>0, <1>1, <1>2, <2>1, IdleTyped DEF Typed
  <1>6. CASE AssignAdmin
    <2>1. IdOf(Super) \in Ids /\ roles[IdOf(Super)] = Super
      <3>1. Super \in Taken
        BY <1>6, NamesType DEF AssignAdmin, Typed, RowsOK
      <3>2. \E i \in Ids : roles[i] = Super
        BY <3>1 DEF Taken
      <3> QED BY <3>2 DEF IdOf
    <2>2. TypeOK' /\ RowsOK' /\ last' = last
      BY <1>0, <1>6, <2>1 DEF AssignAdmin, policy, history, Typed,
                              TypeOK, RowsOK, Phases, Taken
    <2> QED BY <1>0, <1>1, <1>2, <2>2, IdleTyped DEF Typed
  <1>7. CASE NewEnforcer
    <2>1. StartPolicies(db) \subseteq Rules
      BY NobodyApart DEF StartPolicies, Typed, TypeOK
    <2>2. TypeOK' /\ RowsOK' /\ last' = last
      BY <1>0, <1>7, <2>1 DEF NewEnforcer, tables, local, Typed,
                              TypeOK, RowsOK, Phases, Taken
    <2> QED BY <1>0, <1>1, <1>2, <2>2, IdleTyped DEF Typed
  <1> QED BY <1>3, <1>4, <1>5, <1>6, <1>7 DEF Start

LEMMA RestartTyped ==
    ASSUME Typed, Restart
    PROVE  Typed' /\ (\A w \in Workers : pc'[w] = "idle" /\ ~Alone(w)')
           /\ (\A w \in Workers : pc[w] # "idle" => NamesOf(w) \subseteq loose')
           /\ loose \subseteq loose'
  <1>1. /\ failures' = failures + 1 /\ phase' = "roles" /\ mem' = {}
        /\ pc' = [w \in Workers |-> "idle"]
        /\ req' = [w \in Workers |-> NoRequest]
        /\ todo' = [w \in Workers |-> {}] /\ kept' = [w \in Workers |-> {}]
        /\ rule' = [w \in Workers |-> Nobody]
        /\ undoing' = {} /\ together' = {}
        /\ faults' = [w \in Workers |-> 0] /\ before' = [w \in Workers |-> {}]
        /\ loose' = loose \union UNION {{req[w].old, req[w].new} : w \in Busy}
        /\ cut' = (cut \/ phase = "assign")
        /\ UNCHANGED <<roles, last, held, admin, withdrawn, db, requests,
                       torn>>
    BY DEF Restart, tables
  <1>2. \A w \in Workers : pc[w] # "idle" => NamesOf(w) \subseteq Names
    BY DEF Typed, RequestOK, Requests, NamesOf
  <1>3. loose' \subseteq Names /\ loose \subseteq loose'
    BY <1>1, <1>2 DEF Busy, NamesOf, Typed, TypeOK
  <1>4. \A w \in Workers : pc[w] # "idle" => NamesOf(w) \subseteq loose'
    BY <1>1 DEF Busy, NamesOf
  <1>5. TypeOK'
    BY <1>1, <1>3 DEF Typed, TypeOK, Points, Phases
  <1>6. RowsOK'
    BY <1>1 DEF Typed, RowsOK
  <1>7. \A w \in Workers : RequestOK(w)' /\ pc'[w] = "idle" /\ ~Alone(w)'
    BY <1>1 DEF RequestOK, Alone
  <1>8. AloneOK'
    BY <1>7 DEF AloneOK
  <1> QED BY <1>3, <1>4, <1>5, <1>6, <1>7, <1>8 DEF Typed

LEMMA CreateRoleTyped ==
    ASSUME Typed, NEW name \in Names, CreateRole(name)
    PROVE  /\ Typed' /\ (\A w \in Workers : ~Alone(w)')
           /\ \A w \in Workers : Same(w)
           /\ \A w \in Workers : w \in together => w \in together'
           /\ UNCHANGED <<phase, held, admin, withdrawn, db, mem, requests,
                          torn, loose, cut>>
           /\ phase = "up"
  <1>1. /\ phase = "up" /\ InsertRole(name)
        /\ together' = together \union Busy
        /\ UNCHANGED <<phase, held, admin, withdrawn, db, mem, pc, req, todo,
                       kept, rule, undoing, requests, failures, faults, before,
                       torn, loose, cut>>
    BY DEF CreateRole, local, policy
  <1>2. TypeOK' /\ RowsOK'
    BY <1>1, InsertRoleTyped DEF Typed, TypeOK, RowsOK, Busy
  <1>3. ASSUME NEW w \in Workers PROVE RequestOK(w)' /\ ~Alone(w)' /\ Same(w)
    <2>1. Same(w) /\ Target(w)' = Target(w) /\ RequestOK(w)
      BY <1>1 DEF Same, Target, Typed
    <2>2. /\ pc[w] = "idle" => w \notin together'
          /\ pc[w] # "idle" => w \in together'
      BY <1>1, <2>1 DEF RequestOK, Busy
    <2>3. last \in Nat /\ last' = last + 1
      BY <1>1, InsertRoleTyped DEF Typed, TypeOK
    <2>4. req[w] \in Requests /\ req[w].id <= last => req[w].id <= last'
      BY <2>3 DEF Requests, Ids
    <2>5. RequestOK(w)'
      BY <1>1, <2>1, <2>2, <2>4 DEF RequestOK
    <2> QED BY <1>1, <2>1, <2>2, <2>5 DEF Alone
  <1>4. AloneOK'
    BY <1>3 DEF AloneOK
  <1> QED BY <1>1, <1>2, <1>3, <1>4 DEF Typed

\* Neither a role nor a rule changes.
LEMMA UpdateAdminLeaves == UpdateAdmin => NoRoleChanges /\ phase = "up"
  BY DEF UpdateAdmin, RenameAdmin, SetUserRoles, NameAdmin

LEMMA UpdateAdminTyped ==
    ASSUME Typed, UpdateAdmin
    PROVE  Typed'
  <1>1. /\ held' \subseteq Ids /\ admin' \in BOOLEAN /\ withdrawn' \in BOOLEAN
        /\ UNCHANGED <<phase, roles, last, db, mem, pc, req, todo, kept,
                       rule, undoing, requests, failures, faults, before,
                       together, torn, loose, cut>>
    BY DEF UpdateAdmin, RenameAdmin, SetUserRoles, NameAdmin, NoRoleChanges,
           policy, local, history, Typed, TypeOK
  <1>2. last \in Nat /\ last <= last
    BY DEF Typed, TypeOK
  <1>3. phase = "up"
    BY UpdateAdminLeaves
  <1>4. TypeOK' /\ RowsOK'
    BY <1>1, <1>3 DEF Typed, TypeOK, RowsOK, Taken
  <1> QED BY <1>1, <1>2, <1>4, IdleTyped DEF Typed

-----------------------------------------------------------------------------
(* Steps *)

\* A statement of a request that has begun.
Moves(w) ==
    \/ ChangeRow(w) \/ Snapshot(w) \/ RemoveFromTable(w) \/ RemoveFromMemory(w)
    \/ AddToTable(w) \/ AddToMemory(w) \/ SavePolicy(w) \/ RestoreRow(w)
    \/ Fail(w)

LEMMA MovesTyped ==
    ASSUME Typed, NEW w \in Workers, Moves(w)
    PROVE  /\ Typed' /\ Frame(w) /\ pc[w] # "idle" /\ Calm
           /\ phase = "up" /\ requests > 0
  <1>1. Typed' /\ Frame(w)
    BY ChangeRowTyped, SnapshotTyped, RemoveFromTableTyped,
       RemoveFromMemoryTyped, AddToTableTyped, AddToMemoryTyped,
       SavePolicyTyped, RestoreRowTyped, FailTyped
       DEF Moves
  <1>2. pc[w] # "idle"
    BY DEF Moves, ChangeRow, Snapshot, RemoveFromTable, RemoveFromMemory,
           AddToTable, AddToMemory, SavePolicy, RestoreRow, Fail
  <1>3. Calm
    BY DEF Moves, ChangeRow, Snapshot, RemoveFromTable, RemoveFromMemory,
           AddToTable, AddToMemory, SavePolicy, RestoreRow, Fail, Calm, tables,
           Return, history
  <1> QED BY <1>1, <1>2, <1>3 DEF Typed, RequestOK

LEMMA BeginsTyped ==
    ASSUME Typed, NEW w \in Workers, Begins(w)
    PROVE  /\ Typed' /\ (\A v \in Workers \ {w} : Same(v))
           /\ pc'[w] \in {"row", "remove_db"} /\ req'[w] \in Requests
           /\ pc'[w] = "row" <=> req'[w].op # "set"
           /\ before'[w] = mem /\ roles'[req'[w].id] = req'[w].old
           /\ pc[w] = "idle" /\ phase = "up" /\ faults'[w] = 0 /\ w \notin undoing'
           /\ \A v \in Workers : v \in together => v \in together'
           /\ \A v \in Workers : Alone(v)' => v = w /\ Busy = {}
           /\ UNCHANGED <<phase, roles, last, held, admin, withdrawn, db, mem,
                          torn, loose, cut, faults, undoing>>
  <1>1. PICK r \in Requests, point \in Points :
            /\ Begin(w, r, point) /\ r.id <= last
            /\ roles[r.id] = r.old
            /\ r.op # "rename" => r.old = r.new
            /\ r.op = "delete" => r.asked = {}
            /\ point \in {"row", "remove_db"}
            /\ point = "row" <=> r.op # "set"
    BY DEF Begins
  <1> QED BY <1>1, BeginTyped

LEMMA HandleIs ==
    ASSUME Typed, NEW w \in Workers, Handle(w)
    PROVE  Begins(w) \/ Moves(w)
  BY BeginIs DEF Handle, Moves

\* What a step can be.
LEMMA StepIs ==
    ASSUME Typed, [Next]_vars
    PROVE  \/ Start \/ Restart
           \/ \E name \in Names : CreateRole(name)
           \/ UpdateAdmin
           \/ \E w \in Workers : Begins(w) \/ Moves(w)
           \/ UNCHANGED vars
  BY HandleIs DEF Next

LEMMA StutterTyped ==
    ASSUME Typed, UNCHANGED vars
    PROVE  Typed'
  BY DEF vars, tables, policy, local, history, Typed, TypeOK, RowsOK, RequestOK,
         AloneOK, Alone, Target, Taken

LEMMA InitTyped == Init => Typed
  <1> SUFFICES ASSUME Init PROVE Typed
    OBVIOUS
  <1>1. TypeOK
    <2>1. /\ phase \in Phases /\ roles \in [Ids -> Names \union {Nobody}]
          /\ last \in 0..MaxRoles /\ held \subseteq Ids
          /\ admin \in BOOLEAN /\ withdrawn \in BOOLEAN
          /\ db \subseteq Rules /\ mem \subseteq Rules
      <3>1. last \in 0..MaxRoles
        BY BoundsType DEF Init
      <3>2. phase \in Phases
        BY DEF Init, Phases
      <3>3. roles \in [Ids -> Names \union {Nobody}]
        BY Zenon DEF Init
      <3> QED BY <3>1, <3>2, <3>3 DEF Init
    <2>2. /\ pc \in [Workers -> Points]
          /\ req \in [Workers -> Requests \union {NoRequest}]
      BY DEF Init, Points
    <2>3. /\ todo \in [Workers -> SUBSET Rules]
          /\ kept \in [Workers -> SUBSET Perms]
          /\ rule \in [Workers -> Rules \union {Nobody}]
      BY DEF Init
    <2>4. /\ undoing \subseteq Workers /\ together \subseteq Workers
          /\ requests \in Nat /\ failures \in Nat
          /\ faults \in [Workers -> Nat]
          /\ before \in [Workers -> SUBSET Rules]
          /\ torn \in BOOLEAN /\ cut \in BOOLEAN /\ loose \subseteq Names
      BY DEF Init
    <2> QED BY <2>1, <2>2, <2>3, <2>4 DEF TypeOK
  <1>2. RowsOK
    BY DEF Init, RowsOK
  <1>3. \A w \in Workers : RequestOK(w)
    BY DEF Init, RequestOK
  <1>4. AloneOK
    BY DEF Init, AloneOK
  <1> QED BY <1>1, <1>2, <1>3, <1>4 DEF Typed

LEMMA NextTyped ==
    ASSUME Typed, [Next]_vars
    PROVE  Typed'
  BY StepIs, StartTyped, RestartTyped, CreateRoleTyped, UpdateAdminTyped,
     BeginsTyped, MovesTyped, StutterTyped

\* The type invariant (TypeOK): every variable keeps its type, rows, rules and
\* what each worker holds, through failures and restarts.
THEOREM TypeCorrect == Spec => []TypeOK
  <1>1. Init => Typed
    BY InitTyped
  <1>2. Typed /\ [Next]_vars => Typed'
    BY NextTyped
  <1>3. Typed => TypeOK
    BY DEF Typed
  <1> QED BY <1>1, <1>2, <1>3, PTL DEF Spec

-----------------------------------------------------------------------------
(* The start *)

\* A step that leaves the row and the assignment of it alone, and whose workers
\* keep their requests, take one up about the row as it is, or return.
LEMMA SuperKept ==
    ASSUME NEW i \in held, KeepsSuper(i), i \in held', roles'[i] = roles[i],
           \A w \in Workers : pc'[w] # "idle" =>
              \/ pc[w] # "idle" /\ req'[w] = req[w]
              \/ req'[w].id = i => req'[w].old = roles[i]
    PROVE  KeepsSuper(i)'
  BY DEF KeepsSuper

LEMMA StartKeepsAdmin ==
    ASSUME Typed, AdminOK, Start
    PROVE  AdminOK'
  <1>0. (\A w \in Workers : pc'[w] = "idle") /\ held \subseteq Ids
    BY StartTyped DEF Typed, TypeOK
  <1>1. CASE UpsertRole
    <2>1. PICK name \in DefaultNames : InsertRole(name)
      BY <1>1 DEF UpsertRole
    <2>2. \A i \in Ids : roles[i] # Nobody => roles'[i] = roles[i]
      BY <2>1, NobodyApart, InsertRoleTyped
    <2> QED BY <1>0, <1>1, <2>2, NobodyApart
            DEF AdminOK, KeepsSuper, UpsertRole, history
  <1>2. CASE RolesReady
    BY <1>0, <1>2 DEF AdminOK, KeepsSuper, RolesReady, AfterRoles, tables, history
  <1>3. CASE CreateAdmin
    BY <1>3 DEF AdminOK, CreateAdmin
  <1>4. CASE AssignAdmin
    <2>1. Super \in Taken
      BY <1>4, NamesType DEF AssignAdmin, Typed, RowsOK
    <2>2. \E i \in Ids : roles[i] = Super
      BY <2>1 DEF Taken
    <2>3. roles[IdOf(Super)] = Super
      BY <2>2 DEF IdOf
    <2> QED BY <1>0, <1>4, <2>3 DEF AdminOK, KeepsSuper, AssignAdmin
  <1>5. CASE NewEnforcer
    BY <1>0, <1>5 DEF AdminOK, KeepsSuper, NewEnforcer, tables, Typed, RowsOK
  <1> QED BY <1>1, <1>2, <1>3, <1>4, <1>5 DEF Start

LEMMA UpdateKeepsAdmin ==
    ASSUME Typed, AdminOK, UpdateAdmin
    PROVE  AdminOK'
  <1>0. UNCHANGED <<phase, roles, pc, req, cut>> /\ phase = "up"
    BY UpdateAdminLeaves DEF NoRoleChanges, local, history
  <1>1. CASE RenameAdmin
    BY <1>1 DEF RenameAdmin, AdminOK
  <1>2. ASSUME NEW ids \in SUBSET Ids, NameAdmin(ids) PROVE AdminOK'
    BY <1>2 DEF NameAdmin, AdminOK
  <1>3. ASSUME NEW ids \in SUBSET Ids, SetUserRoles(ids) PROVE AdminOK'
    <2>1. /\ admin /\ admin' /\ held' = ids
          /\ withdrawn' = (withdrawn \/ \A i \in ids : roles[i] # Super)
      BY <1>3 DEF SetUserRoles
    <2>2. ASSUME ~cut, ~withdrawn' PROVE \E i \in held' : KeepsSuper(i)'
      <3>1. PICK j \in ids : roles[j] = Super
        BY <2>1, <2>2
      <3>2. PICK i \in held : KeepsSuper(i)
        BY <1>0, <2>1, <2>2 DEF AdminOK
      <3>3. i = j
        BY <3>1, <3>2, RolesUnique, NobodyApart DEF KeepsSuper, Typed, TypeOK
      <3> QED BY <1>0, <2>1, <3>1, <3>2, <3>3 DEF KeepsSuper
    <2> QED BY <1>0, <2>1, <2>2 DEF AdminOK
  <1> QED BY <1>1, <1>2, <1>3 DEF UpdateAdmin

\* Every statement of a request leaves the row or withdraws the role, and the
\* undoing of a rename gives the row the name it has.
LEMMA MoveKeepsAdmin ==
    ASSUME Typed, AdminOK, NEW w \in Workers, Moves(w)
    PROVE  AdminOK'
  <1>0. /\ Typed' /\ Frame(w) /\ Calm /\ pc[w] # "idle"
        /\ req[w].id \in Ids /\ req[w].old \in Names /\ req[w].new \in Names
    BY MovesTyped DEF Typed, RequestOK, Requests
  <1>1. \A v \in Workers : pc'[v] # "idle" => pc[v] # "idle" /\ req'[v] = req[v]
    <2>1. pc'[w] # "idle" => req'[w] = req[w]
      BY DEF Moves, ChangeRow, Snapshot, RemoveFromTable, RemoveFromMemory,
             AddToTable, AddToMemory, SavePolicy, RestoreRow, Fail, Return,
             Goto, Typed, TypeOK
    <2> QED BY <1>0, <2>1 DEF Frame, Same
  <1>2. ASSUME NEW i \in held, KeepsSuper(i), ~withdrawn'
        PROVE  ~withdrawn /\ i \in held' /\ roles'[i] = roles[i]
    <2>1. /\ i \in Ids /\ roles[i] = Super /\ Super # Nobody
          /\ req[w].id = i => req[w].old = Super
      BY <1>0, <1>2, NobodyApart DEF KeepsSuper, Typed, TypeOK
    <2>2. CASE ChangeRow(w)
      <3>1. ~withdrawn /\ ~(roles[req[w].id] = Super /\ roles'[req[w].id] # Super)
        BY <1>2, <2>2 DEF ChangeRow, Typed, TypeOK
      <3>2. CASE roles' = [roles EXCEPT ![req[w].id] = Nobody] /\ held' = held \ {req[w].id}
        BY <1>0, <2>1, <3>1, <3>2 DEF Typed, TypeOK
      <3>3. CASE roles' = Rename(req[w].id, req[w].new) /\ held' = held
        BY <1>0, <2>1, <3>1, <3>3 DEF Rename, Typed, TypeOK
      <3>4. CASE UNCHANGED <<roles, held>>
        BY <3>1, <3>4
      <3> QED BY <2>2, <3>2, <3>3, <3>4 DEF ChangeRow
    <2>3. CASE RestoreRow(w)
      <3>1. /\ roles' = Rename(req[w].id, req[w].old)
            /\ UNCHANGED <<held, withdrawn>>
        BY <2>3 DEF RestoreRow
      <3> QED BY <1>0, <1>2, <2>1, <3>1 DEF Rename, Typed, TypeOK
    <2>4. CASE ~ChangeRow(w) /\ ~RestoreRow(w)
      <3>1. UNCHANGED <<roles, held, withdrawn>>
        BY <2>4 DEF Moves, Snapshot, RemoveFromTable, RemoveFromMemory,
                    AddToTable, AddToMemory, SavePolicy, Fail, tables
      <3> QED BY <1>2, <3>1
    <2> QED BY <2>2, <2>3, <2>4
  <1>3. withdrawn => withdrawn'
    BY DEF Moves, ChangeRow, Snapshot, RemoveFromTable, RemoveFromMemory,
           AddToTable, AddToMemory, SavePolicy, RestoreRow, Fail, tables
  <1>4. ASSUME admin, ~cut, ~withdrawn', phase # "assign"
        PROVE  \E i \in held' : KeepsSuper(i)'
    <2>1. PICK i \in held : KeepsSuper(i)
      BY <1>3, <1>4 DEF AdminOK
    <2>2. i \in held' /\ roles'[i] = roles[i]
      BY <1>2, <1>4, <2>1
    <2> QED BY <1>1, <2>1, <2>2, SuperKept
  <1> QED BY <1>0, <1>3, <1>4 DEF AdminOK, Calm

LEMMA AdminStep ==
    ASSUME Typed, AdminOK, [Next]_vars
    PROVE  AdminOK'
  <1>0. held \subseteq Ids
    BY DEF Typed, TypeOK
  <1>1. CASE UNCHANGED vars
    BY <1>1 DEF AdminOK, KeepsSuper, vars, tables, local, history
  <1>2. CASE Restart
    BY <1>2, RestartTyped DEF AdminOK, KeepsSuper, Restart, tables
  <1>3. CASE \E name \in Names : CreateRole(name)
    <2>1. PICK name \in Names : CreateRole(name)
      BY <1>3
    <2>2. /\ InsertRole(name)
          /\ UNCHANGED <<phase, held, admin, withdrawn, pc, req, cut>>
      BY <2>1 DEF CreateRole, local
    <2>3. \A i \in Ids : roles[i] # Nobody => roles'[i] = roles[i]
      BY <2>2, InsertRoleTyped
    <2> QED BY <1>0, <2>2, <2>3, NobodyApart DEF AdminOK, KeepsSuper
  <1>4. ASSUME NEW w \in Workers, Begins(w) PROVE AdminOK'
    <2>1. /\ \A v \in Workers \ {w} : Same(v)
          /\ roles'[req'[w].id] = req'[w].old
          /\ UNCHANGED <<phase, roles, held, admin, withdrawn, cut>>
      BY <1>4, BeginsTyped
    <2>2. ASSUME NEW i \in held, KeepsSuper(i) PROVE KeepsSuper(i)'
      BY <2>1, <2>2, SuperKept DEF Same
    <2> QED BY <2>1, <2>2 DEF AdminOK
  <1>5. ASSUME NEW w \in Workers, Moves(w) PROVE AdminOK'
    BY <1>5, MoveKeepsAdmin
  <1> QED BY <1>1, <1>2, <1>3, <1>4, <1>5, StepIs, StartKeepsAdmin,
             UpdateKeepsAdmin

\* The administrator keeps the super role through failing and overlapping
\* requests, crashes and starts, until a request about the user or the role
\* takes it, unless the first start was cut off between the user's row and the
\* role's (bootstrap.go:70-92, store.go:212-223, handlers.go:486-540).
THEOREM AdministratorHasRole == Spec => []AdminIsSuper
  <1>1. Init => Typed /\ AdminOK
    BY InitTyped DEF Init, AdminOK
  <1>2. Typed /\ AdminOK /\ [Next]_vars => Typed' /\ AdminOK'
    BY NextTyped, AdminStep
  <1>3. Typed /\ AdminOK => AdminIsSuper
    BY DEF AdminOK, KeepsSuper, AdminIsSuper, AdminHasSuper
  <1> QED BY <1>1, <1>2, <1>3, PTL DEF Spec

\* A start that completes finds the table and the memory alike, every default
\* role and rule in place, and an administrator (bootstrap.go:33-92).
THEOREM StartIsComplete == Spec => StartsComplete
  <1>1. ASSUME Typed, [Next]_vars, phase # "up", phase' = "up"
        PROVE  /\ mem' = db' /\ Defaults \subseteq mem'
               /\ DefaultNames \subseteq Taken /\ admin
    <2>1. NewEnforcer
      <3>1. \A w \in Workers : ~Moves(w) /\ ~Begins(w)
        BY <1>1, MovesTyped, BeginsTyped
      <3> QED
        BY <1>1, <3>1, StepIs, UpdateAdminLeaves
           DEF Start, UpsertRole, RolesReady, AfterRoles, CreateAdmin,
               AssignAdmin, Restart, CreateRole, vars
    <2> QED BY <1>1, <2>1 DEF NewEnforcer, StartPolicies, Typed, RowsOK
  <1>2. Typed /\ [Next]_vars =>
           [phase # "up" /\ phase' = "up" =>
               /\ mem' = db' /\ Defaults \subseteq mem'
               /\ DefaultNames \subseteq Taken /\ admin]_vars
    BY <1>1
  <1>3. Init => Typed
    BY InitTyped
  <1>4. Typed /\ [Next]_vars => Typed'
    BY NextTyped
  <1> QED BY <1>2, <1>3, <1>4, PTL DEF Spec, StartsComplete

-----------------------------------------------------------------------------
(* No request goes round in circles *)

\* The calls in their order.
LEMMA CallsAdvance ==
    ASSUME Typed, NEW w \in Workers, pc'[w] # "idle",
           \/ ChangeRow(w) \/ Snapshot(w) \/ RemoveFromTable(w)
           \/ RemoveFromMemory(w) \/ SavePolicy(w) \/ RestoreRow(w)
    PROVE  Advances(w)
  <1>1. ~Return(w)
    BY DEF Return, Goto, Typed, TypeOK
  <1>2. w \in undoing' <=> w \in undoing
    BY <1>1 DEF ChangeRow, Snapshot, RemoveFromTable, RemoveFromMemory,
                SavePolicy, RestoreRow
  <1>3. \/ pc[w] = "row" /\ pc'[w] \in {"remove_db", "snapshot"}
        \/ pc[w] = "snapshot" /\ pc'[w] = "remove_db"
        \/ pc[w] = "remove_db" /\ pc'[w] = "remove_mem"
        \/ pc[w] = "remove_mem" /\ pc'[w] = "add_db"
        \/ pc[w] = "save" /\ pc'[w] = "row_back"
    BY <1>1 DEF ChangeRow, Snapshot, RemoveFromTable, RemoveFromMemory,
                SavePolicy, RestoreRow, Goto, Typed, TypeOK
  <1>4. Stage(w)' > Stage(w)
    BY <1>2, <1>3 DEF Stage, Order
  <1> QED BY <1>4 DEF Advances

\* A rule is added in two steps.
LEMMA AddingAdvances ==
    ASSUME Typed, NEW w \in Workers, AddToTable(w) \/ AddToMemory(w)
    PROVE  Advances(w)
  <1>1. w \in undoing' <=> w \in undoing
    BY DEF AddToTable, AddToMemory
  <1>2. CASE AddToMemory(w)
    <2>1. pc[w] = "add_mem" /\ pc'[w] = "add_db" /\ todo' = todo
      BY <1>2 DEF AddToMemory, Goto, Typed, TypeOK
    <2>2. Stage(w)' = Stage(w)
      BY <1>1, <2>1 DEF Stage, Order
    <2> QED BY <2>1, <2>2 DEF Advances
  <1>3. CASE AddToTable(w) /\ Goto(w, "save")
    <2>1. pc[w] = "add_db" /\ pc'[w] = "save"
      BY <1>3 DEF AddToTable, Goto, Typed, TypeOK
    <2>2. Stage(w)' > Stage(w)
      BY <1>1, <2>1 DEF Stage, Order
    <2> QED BY <2>2 DEF Advances
  <1>4. ASSUME AddToTable(w), NEW r \in todo[w],
               todo' = [todo EXCEPT ![w] = @ \ {r}],
               UNCHANGED pc \/ Goto(w, "add_mem")
        PROVE  Advances(w)
    <2>1. pc[w] = "add_db" /\ pc'[w] \in {"add_db", "add_mem"}
      BY <1>4 DEF AddToTable, Goto, Typed, TypeOK
    <2>2. todo'[w] = todo[w] \ {r}
      BY <1>4 DEF Typed, TypeOK
    <2>3. Stage(w)' = Stage(w)
      BY <1>1, <2>1 DEF Stage, Order
    <2> QED BY <1>4, <2>2, <2>3 DEF Advances
  <1> QED BY <1>2, <1>3, <1>4 DEF AddToTable

\* A failure leads into the undoing or on in it, to a later stage.
LEMMA FailAdvances ==
    ASSUME Typed, NEW w \in Workers, Fail(w), pc'[w] # "idle"
    PROVE  Advances(w)
  <1>1. AfterFailure(w) # "idle"
    BY DEF Fail, Typed, TypeOK
  <1>2. /\ pc'[w] = AfterFailure(w)
        /\ undoing' = IF AfterFailure(w) = "remove_db"
                      THEN undoing \union {w} ELSE undoing
    BY <1>1 DEF Fail, Goto, Typed, TypeOK
  <1>3. \/ /\ pc[w] = "remove_db" /\ pc'[w] = "add_db"
           /\ w \in undoing /\ w \in undoing'
        \/ /\ pc[w] \in {"add_db", "save"} /\ pc'[w] = "row_back"
           /\ w \in undoing /\ w \in undoing'
        \/ /\ pc[w] = "remove_db" /\ pc'[w] = "row_back"
           /\ w \notin undoing /\ w \notin undoing'
        \/ /\ pc[w] \in {"add_db", "save"} /\ pc'[w] = "remove_db"
           /\ w \notin undoing /\ w \in undoing'
    BY <1>1, <1>2, AfterFailureIs
  <1>4. Stage(w)' > Stage(w)
    BY <1>3 DEF Stage, Order
  <1> QED BY <1>4 DEF Advances

\* RequestsAdvance: whatever fails and whoever else is at work, a request comes to
\* a later stage with every call, or has fewer rules to add, so that the undoing
\* of a rename comes to its end.
THEOREM NoCircles == Spec => RequestsAdvance
  <1>1. ASSUME Typed, [Next]_vars, NEW w \in Workers,
               pc[w] # "idle", pc'[w] # "idle"
        PROVE  \/ UNCHANGED <<pc[w], todo[w], rule[w], w \in undoing>>
               \/ Advances(w)
    <2>1. ASSUME NEW v \in Workers, Moves(v)
          PROVE  \/ UNCHANGED <<pc[w], todo[w], rule[w], w \in undoing>>
                 \/ Advances(w)
      <3>1. CASE v = w
        BY <1>1, <2>1, <3>1, CallsAdvance, AddingAdvances, FailAdvances DEF Moves
      <3>2. CASE v # w
        BY <1>1, <2>1, <3>2, MovesTyped DEF Frame, Same
      <3> QED BY <3>1, <3>2
    <2>2. ASSUME NEW v \in Workers, Begins(v)
          PROVE  UNCHANGED <<pc[w], todo[w], rule[w], w \in undoing>>
      <3>1. v # w
        BY <1>1, <2>2, BeginsTyped
      <3> QED BY <1>1, <2>2, <3>1, BeginsTyped DEF Same
    <2>3. ~Restart
      BY <1>1 DEF Restart
    <2>4. CASE \/ Start \/ \E name \in Names : CreateRole(name)
               \/ UpdateAdmin
               \/ UNCHANGED vars
      <3>1. UNCHANGED <<pc, todo, rule, undoing>>
        BY <2>4, UpdateAdminLeaves
        DEF Start, UpsertRole, RolesReady, CreateAdmin, AssignAdmin,
            NewEnforcer, CreateRole, NoRoleChanges, local, vars
      <3> QED BY <3>1
    <2> QED BY <1>1, <2>1, <2>2, <2>3, <2>4, StepIs
  <1>2. Typed /\ [Next]_vars =>
           [\A w \in Workers :
               pc[w] # "idle" /\ pc'[w] # "idle" =>
                  \/ UNCHANGED <<pc[w], todo[w], rule[w], w \in undoing>>
                  \/ Advances(w)]_vars
    BY <1>1
  <1>3. Init => Typed
    BY InitTyped
  <1>4. Typed /\ [Next]_vars => Typed'
    BY NextTyped
  <1> QED BY <1>2, <1>3, <1>4, PTL DEF Spec, RequestsAdvance

-----------------------------------------------------------------------------
(* Table and memory *)

Saving == {"remove_mem", "add_db", "add_mem", "save"}

\* A worker that goes on keeps its request, and who it ran beside.
LEMMA MovesKeep ==
    ASSUME Typed, NEW w \in Workers, Moves(w)
    PROVE  /\ pc'[w] # "idle" =>
                 /\ UNCHANGED <<req, before, together>>
                 /\ (w \in undoing => w \in undoing')
           /\ torn => torn'
           /\ \A n \in loose : n \in loose'
  <1>1. CASE Return(w)
    BY <1>1, MovesTyped, ReturnTyped
  <1>2. CASE ~Return(w)
    <2>1. CASE Fail(w)
      <3>1. /\ torn' = (torn \/ w \in together)
            /\ loose' = loose \union {req[w].old, req[w].new}
        BY <2>1 DEF Fail
      <3>2. CASE AfterFailure(w) = "idle"
        BY <2>1, <3>1, <3>2 DEF Fail, Typed, TypeOK
      <3>3. CASE AfterFailure(w) # "idle"
        <4>1. /\ undoing' = IF AfterFailure(w) = "remove_db"
                            THEN undoing \union {w} ELSE undoing
              /\ UNCHANGED <<req, before, together>>
          BY <2>1, <3>3 DEF Fail
        <4> QED BY <3>1, <4>1
      <3> QED BY <3>2, <3>3
    <2> QED
      BY <1>2, <2>1
         DEF Moves, ChangeRow, Snapshot, RemoveFromTable, RemoveFromMemory,
             AddToTable, AddToMemory, SavePolicy, RestoreRow, history
  <1> QED BY <1>1, <1>2

\* The one that is alone after a move is the one that moved, and was alone.
LEMMA MovesAlone ==
    ASSUME Typed, NEW w \in Workers, Moves(w), NEW v \in Workers, Alone(v)'
    PROVE  v = w /\ Alone(w)
  <1>1. Frame(w) /\ pc[w] # "idle"
    BY MovesTyped
  <1>2. v = w
    <2> SUFFICES ASSUME v # w PROVE FALSE
      OBVIOUS
    <2>1. Alone(v)
      BY <1>1 DEF Alone, Frame, Same
    <2> QED BY <1>1, <2>1 DEF Typed, AloneOK
  <1> QED BY <1>1, <1>2, MovesKeep DEF Alone

LEMMA AgreeMove ==
    ASSUME Typed, AgreeOK, NEW w \in Workers, Moves(w),
           ~torn' /\ Alone(w)' => Apart(w)',
           ~torn' => \/ db' = mem' \/ pc'[w] \in Saving
                     \/ pc[w] \notin Saving /\ UNCHANGED <<db, mem>>
    PROVE  AgreeOK'
  <1>1. Frame(w) /\ phase = "up" /\ (torn => torn')
    BY MovesTyped, MovesKeep
  <1>2. \A v \in Workers : Alone(v)' => v = w
    BY MovesAlone
  <1>3. ASSUME ~torn', ~(db' = mem' \/ pc'[w] \in Saving)
        PROVE  \E v \in Workers : pc'[v] \in Saving
    <2>1. db # mem /\ pc[w] \notin Saving
      BY <1>3
    <2>2. PICK v \in Workers : pc[v] \in Saving
      BY <1>1, <1>3, <2>1 DEF AgreeOK, Saving
    <2> QED BY <1>1, <2>1, <2>2 DEF Frame, Same
  <1> QED BY <1>2, <1>3 DEF AgreeOK, Saving

LEMMA AgreeMoves ==
    ASSUME Typed, AgreeOK, NEW w \in Workers, Moves(w)
    PROVE  AgreeOK'
  <1>0. /\ phase = "up" /\ (torn => torn') /\ pc \in [Workers -> Points]
        /\ rule \in [Workers -> Rules \union {Nobody}]
        /\ Alone(w)' => Alone(w)
        /\ pc'[w] # "idle" => req' = req
        /\ ~torn /\ Alone(w) => Apart(w)
    BY MovesTyped, MovesKeep, MovesAlone DEF AgreeOK, Typed, TypeOK
  <1>1. CASE UNCHANGED <<db, mem>> /\ pc[w] \in {"row", "snapshot", "row_back"}
             /\ pc'[w] \in {"idle", "snapshot", "remove_db"}
    BY <1>0, <1>1, AgreeMove DEF Saving, Apart, Alone
  <1>2. CASE ChangeRow(w)
    <2>1. pc'[w] \in {"idle", "snapshot", "remove_db"}
      BY <1>0, <1>2 DEF ChangeRow, Return, Goto
    <2> QED BY <1>1, <1>2, <2>1 DEF ChangeRow, policy
  <1>3. CASE Snapshot(w)
    <2>1. pc'[w] \in {"idle", "snapshot", "remove_db"}
      BY <1>0, <1>3 DEF Snapshot, Return, Goto
    <2> QED BY <1>1, <1>3, <2>1 DEF Snapshot, policy
  <1>4. CASE RestoreRow(w)
    <2>1. pc'[w] \in {"idle", "snapshot", "remove_db"}
      BY <1>0, <1>4 DEF RestoreRow, Return, Goto
    <2> QED BY <1>1, <1>4, <2>1 DEF RestoreRow, policy
  <1>5. CASE RemoveFromTable(w)
    <2>1. /\ pc[w] = "remove_db" /\ pc'[w] = "remove_mem" /\ mem' = mem
          /\ db' = db \ Of(db, Source(w))
          /\ Source(w)' = Source(w) /\ UNCHANGED <<torn, together>>
      BY <1>0, <1>5 DEF RemoveFromTable, Goto, Source, history
    <2>2. ~torn /\ Alone(w) => db = mem
      BY <1>0, <2>1 DEF Apart
    <2>3. ~torn' /\ Alone(w)' => Apart(w)'
      BY <1>0, <2>1, <2>2 DEF Apart, Of
    <2> QED BY <2>1, <2>3, AgreeMove DEF Saving
  <1>6. CASE RemoveFromMemory(w)
    <2>1. /\ pc[w] = "remove_mem" /\ pc'[w] = "add_db" /\ db' = db
          /\ mem' = mem \ Of(mem, Source(w)) /\ UNCHANGED <<torn, together>>
      BY <1>0, <1>6 DEF RemoveFromMemory, Goto, history
    <2>3. ~torn' /\ Alone(w)' => Apart(w)'
      BY <1>0, <2>1 DEF Apart, Of
    <2> QED BY <2>1, <2>3, AgreeMove DEF Saving
  <1>7. CASE AddToTable(w)
    <2>1. pc[w] = "add_db" /\ mem' = mem /\ UNCHANGED <<torn, together>>
      BY <1>7 DEF AddToTable, history
    <2>2. \/ pc'[w] \in {"save", "add_db"} /\ db' = db
          \/ pc'[w] = "add_mem" /\ db' = db \union {rule'[w]}
      BY <1>0, <1>7, <2>1 DEF AddToTable, Goto
    <2>3. ~torn' /\ Alone(w)' => Apart(w)'
      BY <1>0, <2>1, <2>2 DEF Apart
    <2> QED BY <2>2, <2>3, AgreeMove DEF Saving
  <1>8. CASE AddToMemory(w)
    <2>1. /\ pc[w] = "add_mem" /\ pc'[w] = "add_db" /\ db' = db
          /\ mem' = mem \union {rule[w]} /\ UNCHANGED <<torn, together>>
      BY <1>0, <1>8 DEF AddToMemory, Goto, history
    <2>3. ~torn' /\ Alone(w)' => Apart(w)'
      BY <1>0, <2>1 DEF Apart
    <2> QED BY <2>1, <2>3, AgreeMove DEF Saving
  <1>9. CASE SavePolicy(w)
    <2>1. db' = mem' /\ pc'[w] \in {"row_back", "idle"}
      BY <1>0, <1>9 DEF SavePolicy, Saved, Goto, Return
    <2>3. ~torn' /\ Alone(w)' => Apart(w)'
      BY <2>1 DEF Apart
    <2> QED BY <2>1, <2>3, AgreeMove DEF Saving
  <1>10. CASE Fail(w)
    <2>1. /\ pc[w] \in {"row", "remove_db", "add_db", "save", "row_back"}
          /\ torn' = (torn \/ w \in together) /\ UNCHANGED <<db, mem>>
      BY <1>10 DEF Fail, policy
    <2>2. ~torn' => db' = mem'
      BY <1>0, <2>1 DEF Apart, Alone
    <2>3. pc'[w] \notin {"remove_mem", "add_mem"}
      BY <1>0, <1>10, AfterFailureIs DEF Fail, Goto
    <2>4. ~torn' /\ Alone(w)' => Apart(w)'
      BY <2>2, <2>3 DEF Apart
    <2> QED BY <2>2, <2>4, AgreeMove
  <1> QED BY <1>2, <1>3, <1>4, <1>5, <1>6, <1>7, <1>8, <1>9, <1>10 DEF Moves

LEMMA AgreeStep ==
    ASSUME Typed, AgreeOK, [Next]_vars
    PROVE  AgreeOK'
  <1>1. CASE \E w \in Workers : Moves(w)
    BY <1>1, AgreeMoves
  <1>2. ASSUME NEW w \in Workers, Begins(w) PROVE AgreeOK'
    <2>1. /\ \A v \in Workers \ {w} : Same(v)
          /\ \A v \in Workers : Alone(v)' => v = w /\ Busy = {}
          /\ pc[w] = "idle" /\ pc'[w] \in {"row", "remove_db"}
          /\ UNCHANGED <<phase, db, mem, torn>>
      BY <1>2, BeginsTyped
    <2>2. \A v \in Workers : pc[v] \in Saving => pc'[v] \in Saving
      BY <2>1 DEF Same, Saving
    <2>3. phase = "up" /\ ~torn /\ Busy = {} => db = mem
      BY DEF AgreeOK, Busy
    <2> QED BY <2>1, <2>2, <2>3 DEF AgreeOK, Apart, Saving
  <1>3. CASE UNCHANGED vars
    BY <1>3 DEF AgreeOK, Alone, Apart, Source, vars, policy, local, history
  <1>4. CASE Restart
    BY <1>4 DEF Restart, AgreeOK
  <1>5. CASE Start
    <2>1. \A w \in Workers : pc[w] = "idle" /\ pc'[w] = "idle"
      BY <1>5, StartTyped
    <2>2. NewEnforcer => AgreeOK'
      BY <2>1 DEF NewEnforcer, AgreeOK, Alone
    <2>3. ~NewEnforcer => phase' # "up"
      BY <1>5 DEF Start, UpsertRole, RolesReady, AfterRoles, CreateAdmin,
                  AssignAdmin
    <2> QED BY <2>2, <2>3 DEF AgreeOK
  <1>6. CASE \E name \in Names : CreateRole(name)
    <2>1. PICK name \in Names : CreateRole(name)
      BY <1>6
    <2>2. /\ \A w \in Workers : Same(w) /\ ~Alone(w)'
          /\ UNCHANGED <<phase, db, mem, torn>>
      BY <2>1, CreateRoleTyped
    <2> QED BY <2>2 DEF AgreeOK, Same
  <1>7. CASE UpdateAdmin
    BY <1>7, UpdateAdminLeaves
    DEF NoRoleChanges, AgreeOK, Alone, Apart, Source, policy, local, history
  <1> QED BY <1>1, <1>2, <1>3, <1>4, <1>5, <1>6, <1>7, StepIs

-----------------------------------------------------------------------------
(* A request that is alone *)

\* What is known of one that is alone and goes on being so.
LEMMA AloneIs ==
    ASSUME Typed, AloneDoes, NEW w \in Workers, Moves(w), Alone(w)'
    PROVE  /\ Does(w) /\ RequestOK(w) /\ req[w] \in Requests
           /\ req[w].old \in Names /\ req[w].new \in Names
           /\ req[w].id \in Ids /\ w \in Workers
           /\ req'[w] = req[w] /\ before'[w] = before[w] /\ pc'[w] # "idle"
           /\ faults[w] \in Nat /\ kept[w] \subseteq Perms
           /\ mem \subseteq Rules /\ before[w] \subseteq Rules
           /\ req[w].asked \subseteq Perms /\ req[w].op \in {"set", "rename", "delete"}
           /\ faults[w] = 0 => w \notin undoing
           /\ faults[w] > 0 => w \in undoing \/ pc[w] = "row_back"
           /\ faults[w] > 0 => req[w].op = "rename"
  <1>1. Alone(w) /\ pc'[w] # "idle" /\ pc[w] # "idle"
    BY MovesAlone DEF Alone
  <1>2. RequestOK(w) /\ Does(w)
    BY <1>1 DEF Typed, AloneDoes
  <1>3. req[w] \in Requests
    BY <1>1, <1>2 DEF RequestOK
  <1>4. /\ req[w].old \in Names /\ req[w].new \in Names /\ req[w].id \in Ids
        /\ req[w].asked \subseteq Perms
        /\ req[w].op \in {"set", "rename", "delete"}
    BY <1>3 DEF Requests
  <1>5. /\ faults[w] \in Nat /\ kept[w] \subseteq Perms
        /\ mem \subseteq Rules /\ before[w] \subseteq Rules
    BY DEF Typed, TypeOK
  <1>6. /\ faults[w] > 0 <=> pc[w] = "row_back" \/ w \in undoing
        /\ req[w].op # "rename" => faults[w] = 0
    BY <1>1, <1>2 DEF RequestOK
  <1> QED BY <1>1, <1>2, <1>3, <1>4, <1>5, <1>6, MovesKeep

\* Sets of rules.
LEMMA OfIs ==
    ASSUME NEW S \in SUBSET Rules, NEW n \in Names
    PROVE  /\ Of(S, n) \subseteq S
           /\ Of(S, n) = {n} \X PermsOf(Of(S, n))
           /\ PermsOf(Of(S, n)) \subseteq Perms
  <1>1. \A r \in Of(S, n) : r[2] \in Perms /\ r = <<n, r[2]>>
    BY DEF Of, Rules
  <1>2. PermsOf(Of(S, n)) \subseteq Perms
    BY <1>1 DEF PermsOf
  <1>3. Of(S, n) = {n} \X PermsOf(Of(S, n))
    <2>1. ASSUME NEW r \in Of(S, n) PROVE r \in {n} \X PermsOf(Of(S, n))
      BY <1>1 DEF PermsOf
    <2>2. ASSUME NEW r \in {n} \X PermsOf(Of(S, n)) PROVE r \in Of(S, n)
      <3>1. PICK q \in Of(S, n) : r = <<n, q[2]>>
        BY DEF PermsOf
      <3> QED BY <1>1, <3>1
    <2> QED BY <2>1, <2>2
  <1> QED BY <1>2, <1>3 DEF Of

LEMMA DoesChangeRow ==
    ASSUME Typed, AloneDoes, NEW w \in Workers, ChangeRow(w), Alone(w)'
    PROVE  Does(w)'
  <1> DEFINE i == req[w].id
  <1>0. Moves(w)
    BY DEF Moves
  <1>1. /\ pc[w] = "row" /\ faults[w] = 0 /\ mem' = mem /\ mem = before[w]
        /\ roles[i] = req[w].old /\ w \notin undoing
    <2>1. pc[w] = "row" /\ mem' = mem
      BY DEF ChangeRow, policy
    <2>2. faults[w] = 0
      BY <1>0, <2>1, AloneIs DEF RequestOK
    <2> QED BY <1>0, <2>1, <2>2, AloneIs DEF Does, OwnRow, Doing
  <1>2. /\ pc'[w] # "idle" /\ pc \in [Workers -> Points]
        /\ roles \in [Ids -> Names \union {Nobody}]
    BY <1>0, AloneIs DEF Typed, TypeOK
  <1>3. CASE /\ req[w].op = "delete"
             /\ Goto(w, "remove_db")
             /\ UNCHANGED <<req, todo, kept, rule, undoing, history>>
    <2>1. /\ pc'[w] = "remove_db" /\ req'[w] = req[w] /\ faults'[w] = 0
          /\ before'[w] = before[w]
      BY <1>1, <1>2, <1>3 DEF Goto, history
    <2> QED BY <1>1, <1>3, <2>1 DEF Does, OwnRow, Doing
  <1>4. CASE /\ req[w].op = "rename"
             /\ roles[i] # Nobody /\ req[w].new \notin Taken \ {roles[i]}
             /\ roles' = Rename(i, req[w].new)
             /\ Goto(w, "snapshot")
             /\ UNCHANGED <<req, todo, kept, rule, undoing, history>>
    <2>1. /\ pc'[w] = "snapshot" /\ req'[w] = req[w] /\ faults'[w] = 0
          /\ before'[w] = before[w]
      BY <1>1, <1>2, <1>4 DEF Goto, history
    <2>2. roles' = [roles EXCEPT ![i] = req[w].new]
      BY <1>4 DEF Rename
    <2>3. roles'[i] = req[w].new
      BY <1>0, <1>2, <2>2, AloneIs
    <2>4. req[w].old # req[w].new => req[w].old \notin Taken'
      <3> SUFFICES ASSUME req[w].old # req[w].new, NEW j \in Ids,
                          roles'[j] = req[w].old
                   PROVE  FALSE
        BY DEF Taken
      <3>1. j # i
        BY <2>3
      <3>2. roles[j] = roles[i]
        BY <1>1, <1>2, <2>2, <3>1
      <3>3. req[w].old # Nobody /\ i \in Ids
        BY <1>0, AloneIs, NobodyApart
      <3> QED BY <1>1, <3>1, <3>2, <3>3, RolesUnique
    <2> QED BY <1>1, <1>4, <2>1, <2>3, <2>4 DEF Does, OwnRow, Doing
  <1>5. ~Return(w)
    BY <1>2 DEF Return, Goto
  <1> QED BY <1>3, <1>4, <1>5 DEF ChangeRow

LEMMA DoesSnapshot ==
    ASSUME Typed, AloneDoes, NEW w \in Workers, Snapshot(w), Alone(w)'
    PROVE  Does(w)'
  <1>0. Moves(w)
    BY DEF Moves
  <1>1. /\ pc[w] = "snapshot" /\ faults[w] = 0 /\ mem' = mem /\ roles' = roles
    BY <1>0, AloneIs DEF Snapshot, policy, tables, RequestOK
  <1>2. pc \in [Workers -> Points] /\ kept \in [Workers -> SUBSET Perms]
    BY DEF Typed, TypeOK
  <1>3. ~Return(w)
    BY <1>0, <1>2, AloneIs DEF Return, Goto
  <1>4. /\ kept'[w] = PermsOf(Of(mem, req[w].old)) /\ pc'[w] = "remove_db"
        /\ faults'[w] = 0
    BY <1>1, <1>2, <1>3 DEF Snapshot, Goto, history, PermsOf
  <1>5. req'[w] = req[w] /\ before'[w] = before[w] /\ Does(w)
    BY <1>0, AloneIs
  <1>6. OwnRow(w)'
    BY <1>1, <1>4, <1>5 DEF Does, OwnRow, Taken
  <1>7. Doing(w)'
    BY <1>1, <1>4, <1>5 DEF Does, Doing
  <1> QED BY <1>4, <1>6, <1>7 DEF Does

LEMMA DoesRemoveFromTable ==
    ASSUME Typed, AloneDoes, NEW w \in Workers, RemoveFromTable(w), Alone(w)'
    PROVE  Does(w)'
  <1>0. Moves(w)
    BY DEF Moves
  <1>1. /\ pc[w] = "remove_db" /\ mem' = mem /\ roles' = roles
        /\ UNCHANGED <<req, todo, kept, rule, undoing, faults, before>>
        /\ Goto(w, "remove_mem")
    BY DEF RemoveFromTable, tables, history
  <1>2. pc'[w] = "remove_mem"
    BY <1>1 DEF Goto, Typed, TypeOK
  <1>3. Does(w)
    BY <1>0, AloneIs
  <1>4. OwnRow(w)'
    BY <1>1, <1>2, <1>3 DEF Does, OwnRow, Taken
  <1>5. faults[w] = 0 => Doing(w)'
    BY <1>1, <1>2, <1>3 DEF Does, Doing
  <1>6. faults[w] = 1 => Undoing(w)'
    BY <1>1, <1>2, <1>3 DEF Does, Undoing
  <1> QED BY <1>1, <1>4, <1>5, <1>6 DEF Does

LEMMA DoesRemoveFromMemory ==
    ASSUME Typed, AloneDoes, NEW w \in Workers, RemoveFromMemory(w), Alone(w)'
    PROVE  Does(w)'
  <1> DEFINE own == Of(before[w], req[w].old)
  <1>0. Moves(w)
    BY DEF Moves
  <1>1. /\ pc[w] = "remove_mem" /\ roles' = roles
        /\ mem' = mem \ Of(mem, Source(w))
        /\ todo' = [todo EXCEPT ![w] = ToAdd(w)]
        /\ UNCHANGED <<req, kept, rule, undoing, faults, before>>
        /\ Goto(w, "add_db")
    BY DEF RemoveFromMemory, tables, history
  <1>2. pc'[w] = "add_db" /\ todo'[w] = ToAdd(w)
    BY <1>1 DEF Goto, Typed, TypeOK
  <1>3. Does(w) /\ req[w].old \in Names /\ before[w] \subseteq Rules
    BY <1>0, AloneIs
  <1>4. OwnRow(w)'
    BY <1>1, <1>2, <1>3 DEF Does, OwnRow, Taken
  <1>5. faults[w] = 0 => Doing(w)'
    <2> SUFFICES ASSUME faults[w] = 0 PROVE Doing(w)'
      OBVIOUS
    <2>1. w \notin undoing
      BY <1>0, AloneIs
    <2>2. mem = before[w] /\ (req[w].op = "rename" => kept[w] = PermsOf(own))
      BY <1>1, <1>3 DEF Does, Doing
    <2>3. mem' = before[w] \ own
      BY <1>1, <2>1, <2>2 DEF Source, Of
    <2>4. todo'[w] = {req[w].new} \X (IF req[w].op = "rename" THEN PermsOf(own)
                                      ELSE req[w].asked)
      BY <1>2, <2>1, <2>2 DEF ToAdd, Target
    <2> QED BY <1>1, <1>2, <2>2, <2>3, <2>4 DEF Doing
  <1>6. faults[w] = 1 => Undoing(w)'
    <2> SUFFICES ASSUME faults[w] = 1 PROVE Undoing(w)'
      OBVIOUS
    <2>1. w \in undoing /\ req[w].op = "rename" /\ req[w].old # req[w].new
      BY <1>0, <1>1, AloneIs DEF RequestOK
    <2>2. /\ kept[w] = PermsOf(own) /\ Of(mem, req[w].old) = {}
          /\ \A n \in Names \ {req[w].old, req[w].new} :
                Of(mem, n) = Of(before[w], n)
      BY <1>1, <1>3 DEF Does, Undoing
    <2>3. todo'[w] = own
      <3>1. todo'[w] = {req[w].old} \X PermsOf(own)
        BY <1>2, <2>1, <2>2 DEF ToAdd, Target
      <3> QED BY <1>3, <3>1, OfIs
    <2>4. \A n : n # req[w].new => Of(mem', n) = Of(mem, n)
      BY <1>1, <2>1 DEF Source, Of
    <2>5. /\ Of(mem', req[w].old) = {}
          /\ \A n \in Names \ {req[w].old, req[w].new} :
                Of(mem', n) = Of(before[w], n)
      BY <2>1, <2>2, <2>4
    <2> QED BY <1>1, <1>2, <2>2, <2>3, <2>5 DEF Undoing
  <1> QED BY <1>1, <1>4, <1>5, <1>6 DEF Does

LEMMA DoesAddToTable ==
    ASSUME Typed, AloneDoes, NEW w \in Workers, AddToTable(w), Alone(w)'
    PROVE  Does(w)'
  <1>0. Moves(w)
    BY DEF Moves
  <1>1. /\ pc[w] = "add_db" /\ roles' = roles /\ mem' = mem
        /\ UNCHANGED <<req, kept, undoing, faults, before>>
    BY DEF AddToTable, tables, history
  <1>2. /\ pc \in [Workers -> Points] /\ todo \in [Workers -> SUBSET Rules]
        /\ rule \in [Workers -> Rules \union {Nobody}]
        /\ todo[w] \subseteq {Target(w)} \X Perms
    BY <1>0, <1>1, AloneIs DEF Typed, TypeOK, RequestOK
  <1>3. Does(w)
    BY <1>0, AloneIs
  <1>4. \/ pc'[w] = "save" /\ todo'[w] = todo[w]
        \/ \E r \in todo[w] :
              /\ todo'[w] = todo[w] \ {r}
              /\ \/ r \in mem /\ pc'[w] = "add_db"
                 \/ pc'[w] = "add_mem" /\ rule'[w] = r
    BY <1>1, <1>2 DEF AddToTable, Goto
  <1>5. OwnRow(w)'
    BY <1>1, <1>3, <1>4 DEF Does, OwnRow, Taken
  <1>6. faults[w] = 0 => Doing(w)'
    <2> SUFFICES ASSUME faults[w] = 0 PROVE Doing(w)'
      OBVIOUS
    <2>1. Doing(w)
      BY <1>3 DEF Does
    <2>2. CASE pc'[w] = "save" /\ todo'[w] = todo[w]
      BY <1>1, <2>1, <2>2 DEF Doing
    <2>3. ASSUME NEW r \in todo[w], todo'[w] = todo[w] \ {r}, r \in mem,
                 pc'[w] = "add_db"
          PROVE  Doing(w)'
      BY <1>1, <2>1, <2>3 DEF Doing
    <2>4. ASSUME NEW r \in todo[w], todo'[w] = todo[w] \ {r},
                 rule'[w] = r, pc'[w] = "add_mem"
          PROVE  Doing(w)'
      BY <1>1, <2>1, <2>4 DEF Doing
    <2> QED BY <1>4, <2>2, <2>3, <2>4
  <1>7. faults[w] = 1 => Undoing(w)'
    <2> SUFFICES ASSUME faults[w] = 1 PROVE Undoing(w)'
      OBVIOUS
    <2>1. Undoing(w)
      BY <1>3 DEF Does
    <2>2. CASE pc'[w] = "save" /\ todo'[w] = todo[w]
      BY <1>1, <2>1, <2>2 DEF Undoing
    <2>3. ASSUME NEW r \in todo[w], todo'[w] = todo[w] \ {r}, r \in mem,
                 pc'[w] = "add_db"
          PROVE  Undoing(w)'
      <3>1. w \in undoing
        BY <1>0, <1>1, AloneIs
      <3>2. r \in Of(mem, req[w].old)
        BY <1>2, <2>3, <3>1 DEF Target, Of
      <3> QED BY <1>1, <2>1, <2>3, <3>2 DEF Undoing
    <2>4. ASSUME NEW r \in todo[w], todo'[w] = todo[w] \ {r},
                 rule'[w] = r, pc'[w] = "add_mem"
          PROVE  Undoing(w)'
      BY <1>1, <2>1, <2>4 DEF Undoing
    <2> QED BY <1>4, <2>2, <2>3, <2>4
  <1> QED BY <1>1, <1>5, <1>6, <1>7 DEF Does

LEMMA DoesAddToMemory ==
    ASSUME Typed, AloneDoes, NEW w \in Workers, AddToMemory(w), Alone(w)'
    PROVE  Does(w)'
  <1>0. Moves(w)
    BY DEF Moves
  <1>1. /\ pc[w] = "add_mem" /\ roles' = roles /\ mem' = mem \union {rule[w]}
        /\ UNCHANGED <<req, todo, kept, undoing, faults, before>>
        /\ Goto(w, "add_db")
    BY DEF AddToMemory, tables, history
  <1>2. pc'[w] = "add_db" /\ rule[w] \in {Target(w)} \X Perms
    BY <1>0, <1>1, AloneIs DEF Goto, Typed, TypeOK, RequestOK
  <1>3. Does(w)
    BY <1>0, AloneIs
  <1>4. OwnRow(w)'
    BY <1>1, <1>2, <1>3 DEF Does, OwnRow, Taken
  <1>5. faults[w] = 0 => Doing(w)'
    BY <1>1, <1>2, <1>3 DEF Does, Doing
  <1>6. faults[w] = 1 => Undoing(w)'
    <2> SUFFICES ASSUME faults[w] = 1 PROVE Undoing(w)'
      OBVIOUS
    <2>1. rule[w][1] = req[w].old
      BY <1>0, <1>1, <1>2, AloneIs DEF Target
    <2>2. /\ Of(mem', req[w].old) = Of(mem, req[w].old) \union {rule[w]}
          /\ \A n : n # req[w].old => Of(mem', n) = Of(mem, n)
      BY <1>1, <2>1 DEF Of
    <2>3. Undoing(w)
      BY <1>3 DEF Does
    <2> QED BY <1>1, <1>2, <2>2, <2>3 DEF Undoing
  <1> QED BY <1>1, <1>4, <1>5, <1>6 DEF Does

LEMMA DoesSavePolicy ==
    ASSUME Typed, AloneDoes, NEW w \in Workers, SavePolicy(w), Alone(w)'
    PROVE  Does(w)'
  <1>0. Moves(w)
    BY DEF Moves
  <1>1. ~Return(w)
    BY <1>0, AloneIs DEF Return, Goto, Typed, TypeOK
  <1>2. /\ pc[w] = "save" /\ roles' = roles /\ mem' = mem /\ w \in undoing
        /\ UNCHANGED <<req, todo, kept, undoing, faults, before>>
        /\ Goto(w, "row_back")
    BY <1>1 DEF SavePolicy, tables, history
  <1>3. pc'[w] = "row_back"
    BY <1>2 DEF Goto, Typed, TypeOK
  <1>4. Does(w) /\ todo[w] = {} /\ faults[w] # 0
    BY <1>0, <1>2, AloneIs DEF RequestOK
  <1>5. OwnRow(w)'
    BY <1>2, <1>3, <1>4 DEF Does, OwnRow, Taken
  <1>6. faults[w] = 1 => Undoing(w)'
    BY <1>2, <1>3, <1>4 DEF Does, Undoing
  <1> QED BY <1>2, <1>4, <1>5, <1>6 DEF Does

\* The first failure: what was done so far is what there is to undo.
LEMMA DoesFail ==
    ASSUME Typed, AloneDoes, NEW w \in Workers, Fail(w), Alone(w)'
    PROVE  Does(w)'
  <1> DEFINE own == Of(before[w], req[w].old)
  <1>0. Moves(w)
    BY DEF Moves
  <1>1. AfterFailure(w) # "idle"
    BY <1>0, AloneIs DEF Fail, Typed, TypeOK
  <1>2. /\ pc[w] \in {"row", "remove_db", "add_db", "save", "row_back"}
        /\ roles' = roles /\ mem' = mem
        /\ UNCHANGED <<req, kept, before>>
        /\ Goto(w, AfterFailure(w))
        /\ faults' = [faults EXCEPT ![w] = @ + 1]
        /\ undoing' = IF AfterFailure(w) = "remove_db"
                      THEN undoing \union {w} ELSE undoing
    BY <1>1 DEF Fail, tables, policy
  <1>3. /\ pc'[w] = AfterFailure(w) /\ faults'[w] = faults[w] + 1
        /\ faults[w] \in Nat
    BY <1>2 DEF Goto, Typed, TypeOK
  <1>4. Does(w)
    BY <1>0, AloneIs
  <1>5. /\ pc[w] \in {"remove_db", "add_db", "save"}
        /\ pc'[w] \in {"remove_db", "add_db", "row_back"}
        /\ req[w].op = "rename" /\ req[w].old # req[w].new
    <2>1. req[w].op = "rename" /\ pc[w] \notin {"row", "row_back"}
      BY <1>1, AfterFailureIs DEF AfterFailure
    <2>2. req[w].old # req[w].new
      BY <1>0, <1>2, <2>1, AloneIs DEF RequestOK
    <2> QED BY <1>1, <1>2, <1>3, <2>1, <2>2, AfterFailureIs
  <1>6. OwnRow(w)'
    BY <1>2, <1>4, <1>5 DEF Does, OwnRow, Taken
  <1>7. ASSUME faults[w] = 0 PROVE Undoing(w)'
    <2>1. w \notin undoing /\ Doing(w)
      BY <1>0, <1>4, <1>7, AloneIs DEF Does
    <2>2. CASE pc[w] = "remove_db"
      <3>1. pc'[w] = "row_back"
        BY <1>1, <1>3, <2>1, <2>2, AfterFailureIs
      <3>2. mem = before[w]
        BY <2>1, <2>2 DEF Doing
      <3> QED BY <1>2, <3>1, <3>2 DEF Undoing
    <2>3. CASE pc[w] \in {"add_db", "save"}
      <3>1. pc'[w] = "remove_db"
        BY <1>1, <1>3, <2>1, <2>3, AfterFailureIs
      <3>2. /\ kept[w] = PermsOf(own)
            /\ mem \union todo[w]
                  = (before[w] \ own) \union ({req[w].new} \X PermsOf(own))
        BY <1>5, <2>1, <2>3 DEF Doing
      <3>3. \A r \in todo[w] : r[1] = req[w].new
        <4>1. RequestOK(w)
          BY <1>0, AloneIs
        <4>2. pc[w] = "add_db" => todo[w] \subseteq {Target(w)} \X Perms
          BY <4>1 DEF RequestOK
        <4>3. pc[w] = "save" => todo[w] = {}
          BY <4>1 DEF RequestOK
        <4> QED BY <2>1, <2>3, <4>2, <4>3 DEF Target
      <3>4. \A r \in {req[w].new} \X PermsOf(own) : r[1] = req[w].new
        OBVIOUS
      <3>5. Of(mem, req[w].old) = {}
        BY <1>5, <3>2, <3>4 DEF Of
      <3>6. \A n \in Names \ {req[w].old, req[w].new} :
               Of(mem, n) = Of(before[w], n)
        <4> SUFFICES ASSUME NEW n \in Names \ {req[w].old, req[w].new}
                     PROVE  Of(mem, n) = Of(before[w], n)
          OBVIOUS
        <4>1. ASSUME NEW r \in mem, r[1] = n PROVE r \in before[w]
          BY <3>2, <3>4, <4>1
        <4>2. ASSUME NEW r \in before[w], r[1] = n PROVE r \in mem
          BY <3>2, <3>3, <4>2 DEF Of
        <4> QED BY <4>1, <4>2 DEF Of
      <3> QED BY <1>2, <3>1, <3>2, <3>5, <3>6 DEF Undoing
    <2> QED BY <1>5, <2>2, <2>3
  <1> QED BY <1>3, <1>6, <1>7 DEF Does

LEMMA AloneStep ==
    ASSUME Typed, AloneDoes, [Next]_vars
    PROVE  AloneDoes'
  <1>1. ASSUME NEW w \in Workers, Moves(w) PROVE AloneDoes'
    <2> SUFFICES ASSUME NEW v \in Workers, Alone(v)' PROVE Does(v)'
      BY DEF AloneDoes
    <2>1. v = w /\ pc'[w] # "idle"
      BY <1>1, MovesAlone DEF Alone
    <2>2. ~RestoreRow(w)
      BY <2>1 DEF RestoreRow, Return, Goto, Typed, TypeOK
    <2> QED BY <1>1, <2>1, <2>2, DoesChangeRow, DoesSnapshot,
               DoesRemoveFromTable, DoesRemoveFromMemory, DoesAddToTable,
               DoesAddToMemory, DoesSavePolicy, DoesFail
            DEF Moves
  <1>2. ASSUME NEW w \in Workers, Begins(w) PROVE AloneDoes'
    <2>1. /\ \A v \in Workers : Alone(v)' => v = w
          /\ pc'[w] \in {"row", "remove_db"} /\ req'[w] \in Requests
          /\ pc'[w] = "row" <=> req'[w].op # "set"
          /\ before'[w] = mem /\ roles'[req'[w].id] = req'[w].old
          /\ faults'[w] = 0 /\ mem' = mem
      BY <1>2, BeginsTyped
    <2>2. OwnRow(w)' /\ Doing(w)'
      BY <2>1 DEF OwnRow, Doing
    <2> QED BY <2>1, <2>2 DEF AloneDoes, Does
  <1>3. CASE UNCHANGED vars
    BY <1>3 DEF AloneDoes, Alone, Does, OwnRow, Doing, Undoing, Taken, vars,
                tables, policy, local, history
  <1>4. CASE Restart
    BY <1>4, RestartTyped DEF AloneDoes
  <1>5. CASE Start
    BY <1>5, StartTyped DEF AloneDoes, Alone
  <1>6. CASE \E name \in Names : CreateRole(name)
    BY <1>6, CreateRoleTyped DEF AloneDoes
  <1>7. CASE UpdateAdmin
    BY <1>7, UpdateAdminLeaves
    DEF NoRoleChanges, AloneDoes, Alone, Does, OwnRow, Doing, Undoing,
                Taken, tables, policy, local, history
  <1> QED BY <1>1, <1>2, <1>3, <1>4, <1>5, <1>6, <1>7, StepIs

LEMMA IntendedIs ==
    ASSUME NEW w \in Workers, req[w].op \in {"set", "rename", "delete"}
    PROVE  LET b == before[w]
               own == Of(b, req[w].old)
           IN /\ req[w].op = "set" => Intended(w) =
                    (b \ own) \union ({req[w].old} \X req[w].asked)
              /\ req[w].op = "delete" => Intended(w) = b \ own
              /\ req[w].op = "rename" => Intended(w) =
                    (b \ own) \union ({req[w].new} \X PermsOf(own))
  BY DEF Intended, PermsOf

\* What one that is alone leaves behind when it ends.
LEMMA EndsDone ==
    ASSUME Typed, AloneDoes, NEW w \in Workers, Moves(w), w \notin together,
           pc[w] \in {"snapshot", "save", "row_back"}, pc'[w] = "idle"
    PROVE  \/ /\ faults[w] = 0 /\ failures' = failures /\ mem' = Intended(w)
              /\ pc[w] = "save" => db' = mem'
           \/ /\ faults[w] = 1 /\ failures' = failures
              /\ roles'[req[w].id] = req[w].old
              /\ \A n \in Names \ {req[w].new} : Of(mem', n) = Of(before[w], n)
           \/ faults[w] + (failures' - failures) > 1
           \/ faults[w] + (failures' - failures) = 1 /\ req[w].op # "rename"
  <1> DEFINE own == Of(before[w], req[w].old)
  <1>1. Does(w) /\ RequestOK(w) /\ req[w] \in Requests
    BY MovesTyped DEF AloneDoes, Alone, Typed, RequestOK
  <1>2. /\ req[w].old \in Names /\ req[w].new \in Names /\ req[w].id \in Ids
        /\ req[w].op \in {"set", "rename", "delete"}
    BY <1>1 DEF Requests
  <1>3. /\ pc \in [Workers -> Points] /\ faults[w] \in Nat /\ failures \in Nat
        /\ before[w] \in SUBSET Rules
        /\ roles \in [Ids -> Names \union {Nobody}]
    BY DEF Typed, TypeOK
  <1>4. own = {req[w].old} \X PermsOf(own) /\ own \subseteq before[w]
    BY <1>2, <1>3, OfIs
  <1>5. /\ faults[w] > 0 <=> pc[w] = "row_back" \/ w \in undoing
        /\ req[w].op # "rename" => /\ faults[w] = 0
                                   /\ req[w].old = req[w].new
        /\ req[w].op = "delete" => req[w].asked = {}
    BY <1>1 DEF RequestOK
  <1>6. CASE Snapshot(w)
    <2>1. /\ pc[w] = "snapshot" /\ mem' = mem /\ failures' = failures
          /\ faults[w] = 0 /\ req[w].op = "rename"
      BY <1>1, <1>3, <1>5, <1>6 DEF Snapshot, policy, RequestOK
    <2>2. mem = before[w]
      BY <1>1, <2>1 DEF Does, Doing
    <2>3. req[w].old = req[w].new \/ PermsOf(own) = {}
      BY <1>3, <1>6, <2>1, <2>2 DEF Snapshot, Goto, PermsOf
    <2>4. (before[w] \ own) \union ({req[w].new} \X PermsOf(own)) = before[w]
      <3>1. CASE req[w].old = req[w].new
        BY <1>4, <3>1
      <3>2. CASE PermsOf(own) = {}
        BY <1>4, <3>2
      <3> QED BY <2>3, <3>1, <3>2
    <2> QED BY <2>1, <2>2, <2>4, IntendedIs
  <1>7. CASE SavePolicy(w)
    <2>1. /\ pc[w] = "save" /\ mem' = mem /\ failures' = failures /\ db' = mem
      BY <1>7 DEF SavePolicy, Saved
    <2>2. w \notin undoing
      BY <1>3, <1>7 DEF SavePolicy, Goto
    <2>3. faults[w] = 0 /\ todo[w] = {}
      BY <1>1, <1>3, <1>5, <2>1, <2>2 DEF RequestOK
    <2>4. mem = (before[w] \ own) \union
                ({req[w].new} \X (IF req[w].op = "rename" THEN PermsOf(own)
                                  ELSE req[w].asked))
      BY <1>1, <2>1, <2>3 DEF Does, Doing
    <2>5. mem = Intended(w)
      <3>1. CASE req[w].op = "set"
        BY <1>2, <1>5, <2>4, <3>1, IntendedIs
      <3>2. CASE req[w].op = "delete"
        <4>1. mem = (before[w] \ own) \union ({req[w].new} \X {})
          BY <1>5, <2>4, <3>2
        <4>2. {req[w].new} \X {} = {}
          OBVIOUS
        <4> QED BY <1>2, <3>2, <4>1, <4>2, IntendedIs
      <3>3. CASE req[w].op = "rename"
        BY <1>2, <2>4, <3>3, IntendedIs
      <3> QED BY <1>2, <3>1, <3>2, <3>3
    <2> QED BY <2>1, <2>3, <2>5
  <1>8. CASE RestoreRow(w)
    <2>1. /\ pc[w] = "row_back" /\ mem' = mem /\ failures' = failures
          /\ roles' = Rename(req[w].id, req[w].old)
      BY <1>8 DEF RestoreRow, policy
    <2>2. req[w].op = "rename" /\ req[w].old # req[w].new /\ faults[w] > 0
      BY <1>1, <1>5, <2>1 DEF RequestOK
    <2>3. CASE faults[w] = 1
      <3>1. \A n \in Names \ {req[w].new} : Of(mem, n) = Of(before[w], n)
        BY <1>1, <1>2, <2>1, <2>3 DEF Does, Undoing
      <3>2. roles[req[w].id] = req[w].new /\ req[w].old \notin Taken
        BY <1>1, <2>1, <2>2 DEF Does, OwnRow
      <3>3. roles' = [roles EXCEPT ![req[w].id] = req[w].old]
        BY <1>2, <2>1, <3>2, NobodyApart DEF Rename
      <3> QED BY <1>2, <1>3, <2>1, <2>3, <3>1, <3>3
    <2> QED BY <1>3, <2>1, <2>2, <2>3
  <1>9. CASE Fail(w)
    <2>1. failures' = failures + 1 /\ pc[w] \in {"save", "row_back"}
      BY <1>9 DEF Fail
    <2>2. AfterFailure(w) = "idle"
      BY <1>3, <1>9 DEF Fail, Goto
    <2>3. CASE pc[w] = "row_back"
      BY <1>3, <1>5, <2>1, <2>3
    <2>4. CASE pc[w] = "save"
      <3>1. req[w].op # "rename"
        BY <2>2, <2>4 DEF AfterFailure
      <3> QED BY <1>3, <1>5, <2>1, <3>1
    <2> QED BY <2>1, <2>3, <2>4
  <1> QED BY <1>6, <1>7, <1>8, <1>9
          DEF Moves, ChangeRow, RemoveFromTable, RemoveFromMemory, AddToTable,
              AddToMemory

\* A worker that goes idle while the server stays up has moved.
LEMMA EndsMoving ==
    ASSUME Typed, [Next]_vars, NEW w \in Workers, pc[w] # "idle",
           pc'[w] = "idle", phase' = "up"
    PROVE  Moves(w)
  <1>1. ASSUME NEW v \in Workers, Moves(v) PROVE v = w
    BY <1>1, MovesTyped DEF Frame, Same
  <1>2. ASSUME NEW v \in Workers, Begins(v) PROVE FALSE
    BY <1>2, BeginsTyped DEF Same
  <1>3. ~Start
    BY StartTyped
  <1>4. ~Restart
    BY DEF Restart
  <1>5. ASSUME NEW name \in Names, CreateRole(name) PROVE FALSE
    BY <1>5, CreateRoleTyped DEF Same
  <1>6. ~UpdateAdmin
    BY UpdateAdminLeaves DEF NoRoleChanges, local
  <1>7. ~UNCHANGED vars
    BY DEF vars, local
  <1> QED BY <1>1, <1>2, <1>3, <1>4, <1>5, <1>6, <1>7, StepIs

\* A request that ran alone does what it was asked and touches no other role,
\* and a rename that failed in one place leaves the role with its old name and
\* its old rules (handlers.go:486-540).
THEOREM RequestsEndWhole == Spec => DoneOrUndone
  <1> DEFINE A == \A w \in Workers :
          pc[w] \in {"snapshot", "save", "row_back"} /\ pc'[w] = "idle"
          /\ phase' = "up" /\ w \notin together =>
             \/ faults[w] = 0 /\ failures' = failures /\ mem' = Intended(w)
                /\ (pc[w] = "save" => db' = mem')
             \/ faults[w] = 1 /\ failures' = failures /\ roles'[req[w].id] = req[w].old
                /\ \A n \in Names \ {req[w].new} : Of(mem', n) = Of(before[w], n)
             \/ faults[w] + (failures' - failures) > 1
             \/ faults[w] + (failures' - failures) = 1 /\ req[w].op # "rename"
  <1>1. Typed /\ AloneDoes /\ [Next]_vars => [A]_vars
    <2> SUFFICES ASSUME Typed, AloneDoes, [Next]_vars, NEW w \in Workers,
                        pc[w] \in {"snapshot", "save", "row_back"},
                        pc'[w] = "idle", phase' = "up", w \notin together
                 PROVE  \/ faults[w] = 0 /\ failures' = failures
                           /\ mem' = Intended(w)
                           /\ (pc[w] = "save" => db' = mem')
                        \/ faults[w] = 1 /\ failures' = failures
                           /\ roles'[req[w].id] = req[w].old
                           /\ \A n \in Names \ {req[w].new} :
                                 Of(mem', n) = Of(before[w], n)
                        \/ faults[w] + (failures' - failures) > 1
                        \/ faults[w] + (failures' - failures) = 1
                           /\ req[w].op # "rename"
      BY Zenon
    <2>1. Moves(w)
      BY EndsMoving
    <2> QED BY <2>1, EndsDone
  <1>2. Init => Typed /\ AloneDoes
    BY InitTyped DEF Init, AloneDoes, Alone
  <1>3. Typed /\ AloneDoes /\ [Next]_vars => Typed' /\ AloneDoes'
    BY NextTyped, AloneStep
  <1> QED BY <1>1, <1>2, <1>3, PTL DEF Spec, DoneOrUndone

-----------------------------------------------------------------------------
(* Rules and the names of roles *)

Differs(r) == (r \in db /\ r \notin mem) \/ (r \in mem /\ r \notin db)

RowMoves(w) ==
    \A j \in Ids :
       \/ roles'[j] = roles[j]
       \/ j = req[w].id /\ roles'[j] \in NamesOf(w) \union {Nobody}

\* A move that leaves the names of its request named: it goes on, or what it
\* is about is counted as loose.
LEMMA NamesMove ==
    ASSUME Typed, NamesOK, NEW w \in Workers, Moves(w),
           \/ NamesOf(w) \subseteq loose'
           \/ pc'[w] # "idle" /\ (Touched(w) => Touched(w)'),
           \A r \in db' \union mem' : r \in db \union mem \/ r[1] \in NamesOf(w),
           \A r \in Rules : Differs(r)' =>
              \/ Differs(r)
              \/ /\ r[1] \in NamesOf(w)
                 /\ Touched(w)' \/ NamesOf(w) \subseteq loose',
           RowMoves(w)
    PROVE  NamesOK'
  <1>0. /\ Frame(w) /\ pc[w] # "idle" /\ phase = "up" /\ phase' = "up"
        /\ \A n \in loose : n \in loose'
        /\ pc'[w] # "idle" => req' = req
    BY MovesTyped, MovesKeep DEF Calm
  <1>1. pc'[w] # "idle" => NamesOf(w)' = NamesOf(w)
    BY <1>0 DEF NamesOf
  <1>2. \A v \in Workers \ {w} :
           /\ pc'[v] = pc[v] /\ NamesOf(v)' = NamesOf(v)
           /\ Touched(v)' <=> Touched(v)
           /\ req'[v] = req[v]
    BY <1>0 DEF Frame, Same, NamesOf, Touched
  <1>3. \A n \in NamesOf(w) : Named(n)'
    BY <1>0, <1>1 DEF Named
  <1>4. ASSUME NEW n, Named(n) PROVE Named(n)'
    <2>1. CASE n \in loose
      BY <1>0, <2>1 DEF Named
    <2>2. ASSUME NEW v \in Workers, pc[v] # "idle", n \in NamesOf(v)
          PROVE  Named(n)'
      <3>1. CASE v = w
        BY <1>3, <2>2, <3>1
      <3>2. CASE v # w
        BY <1>2, <2>2, <3>2 DEF Named
      <3> QED BY <3>1, <3>2
    <2> QED BY <1>4, <2>1, <2>2 DEF Named
  <1>5. ASSUME NEW n, Unsettled(n) PROVE Unsettled(n)'
    <2>1. CASE n \in loose
      BY <1>0, <2>1 DEF Unsettled
    <2>2. ASSUME NEW v \in Workers, Touched(v), n \in NamesOf(v)
          PROVE  Unsettled(n)'
      <3>1. CASE v = w
        BY <1>1, <2>2, <3>1 DEF Unsettled
      <3>2. CASE v # w
        BY <1>2, <2>2, <3>2 DEF Unsettled
      <3> QED BY <3>1, <3>2
    <2> QED BY <1>5, <2>1, <2>2 DEF Unsettled
  <1>6. \A j \in Ids : \A n \in Names : roles'[j] = n =>
           \/ roles[j] = n
           \/ j = req[w].id /\ Named(n)'
    BY <1>3, NobodyApart DEF RowMoves
  <1>7. ASSUME NEW r \in db' \union mem' PROVE r[1] \in Taken' \/ Named(r[1])'
    <2>1. CASE r[1] \in NamesOf(w)
      BY <1>3, <2>1
    <2>2. CASE r \in db \union mem /\ Named(r[1])
      BY <1>4, <2>2
    <2>3. CASE r[1] \in Taken
      <3>1. PICK j \in Ids : roles[j] = r[1] /\ roles[j] # Nobody
        BY <2>3 DEF Taken
      <3>2. CASE roles'[j] = roles[j]
        BY <3>1, <3>2 DEF Taken
      <3>3. CASE j = req[w].id
        <4>1. r[1] \in Names
          BY <3>1 DEF Typed, TypeOK
        <4> QED BY <1>0, <1>4, <3>1, <3>3, <4>1 DEF NamesOK
      <3> QED BY <3>2, <3>3 DEF RowMoves
    <2> QED BY <2>1, <2>2, <2>3 DEF NamesOK
  <1>8. ASSUME NEW r \in Rules, Differs(r)' PROVE Unsettled(r[1])'
    <2>1. CASE Differs(r)
      BY <1>0, <1>5, <2>1 DEF NamesOK, Differs
    <2>2. CASE r[1] \in NamesOf(w) /\ NamesOf(w) \subseteq loose'
      BY <2>2 DEF Unsettled
    <2>3. CASE r[1] \in NamesOf(w) /\ Touched(w)'
      BY <1>1, <2>3 DEF Unsettled, Touched
    <2> QED BY <1>8, <2>1, <2>2, <2>3
  <1>9. ASSUME NEW v \in Workers, pc'[v] # "idle", NEW n \in Names,
               roles'[req'[v].id] = n
        PROVE  Named(n)'
    <2>1. req'[v] = req[v] /\ pc[v] # "idle"
      BY <1>0, <1>2, <1>9
    <2>2. req[v].id \in Ids
      BY <2>1 DEF Typed, RequestOK, Requests
    <2>3. roles[req[v].id] = n => Named(n)
      BY <2>1 DEF NamesOK
    <2> QED BY <1>4, <1>6, <1>9, <2>1, <2>2, <2>3
  <1> QED BY <1>7, <1>8, <1>9 DEF NamesOK, Differs

\* One that returns undisturbed leaves nobody, and nothing loose.
LEMMA NamesReturn ==
    ASSUME Typed, NamesOK, NEW w \in Workers, Moves(w), Return(w),
           w \notin together, faults[w] = 0,
           \A r \in db' \union mem' :
              r[1] \in Taken' \/ r[1] \in loose,
           \A r \in Rules : Differs(r)' => r[1] \in loose
    PROVE  NamesOK'
  <1>1. loose' = loose /\ pc'[w] = "idle" /\ Frame(w) /\ Alone(w)
    <2>1. Frame(w) /\ pc[w] # "idle"
      BY MovesTyped
    <2>2. loose' = loose
      BY DEF Return
    <2>3. pc'[w] = "idle"
      BY <2>1, ReturnTyped
    <2> QED BY <2>1, <2>2, <2>3 DEF Alone
  <1>2. \A v \in Workers : pc'[v] = "idle"
    BY <1>1 DEF Frame, Same, Typed, AloneOK
  <1> QED BY <1>1, <1>2 DEF NamesOK, Differs, Named, Unsettled

\* Before its first change of a policy one that is alone finds table and
\* memory different in loose names only.
LEMMA NamesAlone ==
    ASSUME Typed, NamesOK, NEW w \in Workers, Alone(w)
    PROVE  /\ \A n : Named(n) => n \in loose \/ n \in NamesOf(w)
           /\ phase = "up"
           /\ ~Touched(w) => \A r \in Rules : Differs(r) => r[1] \in loose
  <1>1. \A v \in Workers : pc[v] # "idle" => v = w
    BY DEF Typed, AloneOK
  <1>2. \A v \in Workers : Touched(v) => v = w
    BY <1>1 DEF Touched
  <1>3. phase = "up"
    BY DEF Alone, Typed, RequestOK
  <1> QED BY <1>1, <1>2, <1>3 DEF Named, Unsettled, NamesOK, Differs

LEMMA NamesChangeRow ==
    ASSUME Typed, AloneDoes, NamesOK, NEW w \in Workers, ChangeRow(w)
    PROVE  NamesOK'
  <1> DEFINE i == req[w].id
  <1>0. Moves(w)
    BY DEF Moves
  <1>1. /\ pc[w] = "row" /\ db' = db /\ mem' = mem /\ ~Touched(w)
        /\ \A r : Differs(r)' <=> Differs(r)
    BY DEF ChangeRow, policy, Touched, Differs
  <1>2. /\ pc \in [Workers -> Points] /\ roles \in [Ids -> Names \union {Nobody}]
        /\ i \in Ids /\ req[w].old \in Names /\ req[w].new \in Names
        /\ RequestOK(w)
    <2>1. req[w] \in Requests /\ RequestOK(w)
      BY <1>1 DEF Typed, RequestOK
    <2> QED BY <2>1 DEF Typed, TypeOK, Requests
  <1>3. CASE roles' = [roles EXCEPT ![i] = Nobody] /\ Goto(w, "remove_db")
    BY <1>0, <1>1, <1>2, <1>3, NamesMove DEF Goto, RowMoves
  <1>4. CASE roles' = Rename(i, req[w].new) /\ Goto(w, "snapshot")
    <2>1. RowMoves(w)
      BY <1>2, <1>4 DEF RowMoves, Rename, NamesOf
    <2>2. pc'[w] = "snapshot"
      BY <1>2, <1>4 DEF Goto
    <2> QED BY <1>0, <1>1, <1>2, <2>1, <2>2, NamesMove
  <1>5. CASE /\ req[w].op = "rename" /\ Return(w) /\ roles' = roles
             /\ roles[i] = Nobody \/ req[w].new \in Taken \ {roles[i]}
    <2>1. CASE w \in together \/ faults[w] > 0
      <3>1. NamesOf(w) \subseteq loose'
        BY <1>1, <1>5, <2>1, ReturnTyped
      <3> QED BY <1>0, <1>1, <1>5, <3>1, NamesMove DEF RowMoves
    <2>2. CASE w \notin together /\ ~(faults[w] > 0)
      <3>1. Alone(w) /\ faults[w] = 0
        BY <1>1, <2>2 DEF Alone, Typed, TypeOK
      <3>2. roles[i] = req[w].old
        BY <1>1, <3>1 DEF AloneDoes, Does, OwnRow
      <3>3. req[w].old \in Taken /\ req[w].new \in Taken
        BY <1>2, <1>5, <3>2, NobodyApart DEF Taken
      <3>4. Taken' = Taken
        BY <1>5 DEF Taken
      <3>5. \A r \in db' \union mem' : r[1] \in Taken' \/ r[1] \in loose
        BY <1>1, <3>1, <3>3, <3>4, NamesAlone DEF NamesOK, NamesOf
      <3>6. \A r \in Rules : Differs(r)' => r[1] \in loose
        BY <1>1, <3>1, NamesAlone
      <3> QED BY <1>0, <1>5, <2>2, <3>1, <3>5, <3>6, NamesReturn
    <2> QED BY <2>1, <2>2
  <1> QED BY <1>3, <1>4, <1>5 DEF ChangeRow

LEMMA NamesSnapshot ==
    ASSUME Typed, AloneDoes, NamesOK, NEW w \in Workers, Snapshot(w)
    PROVE  NamesOK'
  <1>0. Moves(w)
    BY DEF Moves
  <1>1. /\ pc[w] = "snapshot" /\ db' = db /\ mem' = mem /\ ~Touched(w)
        /\ \A r : Differs(r)' <=> Differs(r)
        /\ roles' = roles
    BY DEF Snapshot, policy, tables, Touched, Differs
  <1>2. pc \in [Workers -> Points] /\ req[w] \in Requests /\ RequestOK(w)
        /\ mem \subseteq Rules /\ db \subseteq Rules
    BY <1>1 DEF Typed, TypeOK, RequestOK
  <1>3. CASE Goto(w, "remove_db")
    BY <1>0, <1>1, <1>2, <1>3, NamesMove DEF Goto, RowMoves
  <1>4. CASE /\ Return(w)
             /\ \/ req[w].old = req[w].new
                \/ {r[2] : r \in Of(mem, req[w].old)} = {}
    <2>1. CASE w \in together \/ faults[w] > 0
      <3>1. NamesOf(w) \subseteq loose'
        BY <1>1, <1>4, <2>1, ReturnTyped
      <3> QED BY <1>0, <1>1, <3>1, NamesMove DEF RowMoves
    <2>2. CASE w \notin together /\ ~(faults[w] > 0)
      <3>1. Alone(w) /\ faults[w] = 0
        BY <1>1, <2>2 DEF Alone, Typed, TypeOK
      <3>2. roles[req[w].id] = req[w].new
        BY <1>1, <1>2, <3>1 DEF AloneDoes, Does, OwnRow, RequestOK
      <3>3. req[w].new \in Taken
        BY <1>2, <3>2, NobodyApart DEF Taken, Requests
      <3>4. Taken' = Taken
        BY <1>1 DEF Taken
      <3>5. \A r \in Rules : Differs(r)' => r[1] \in loose
        BY <1>1, <3>1, NamesAlone
      <3>6. ASSUME NEW r \in db' \union mem'
            PROVE  r[1] \in Taken' \/ r[1] \in loose
        <4>1. r[1] \in Taken \/ r[1] \in loose \/ r[1] \in NamesOf(w)
          BY <1>1, <3>1, NamesAlone DEF NamesOK
        <4>2. CASE r[1] = req[w].old /\ req[w].old # req[w].new
          <5>1. Of(mem, req[w].old) = {}
            BY <1>4, <4>2
          <5>2. r \in Rules /\ Differs(r)'
            BY <1>1, <1>2, <4>2, <5>1 DEF Of, Differs
          <5> QED BY <3>5, <5>2
        <4> QED BY <3>3, <3>4, <4>1, <4>2 DEF NamesOf
      <3> QED BY <1>0, <1>4, <2>2, <3>1, <3>5, <3>6, NamesReturn
    <2> QED BY <2>1, <2>2
  <1> QED BY <1>3, <1>4 DEF Snapshot

LEMMA NamesSavePolicy ==
    ASSUME Typed, AloneDoes, NamesOK, NEW w \in Workers, SavePolicy(w)
    PROVE  NamesOK'
  <1> DEFINE own == Of(before[w], req[w].old)
  <1>0. Moves(w)
    BY DEF Moves
  <1>1. /\ pc[w] = "save" /\ db' = mem /\ mem' = mem
        /\ \A r : ~Differs(r)'
        /\ roles' = roles
    BY DEF SavePolicy, Saved, tables, Differs
  <1>2. pc \in [Workers -> Points] /\ req[w] \in Requests /\ RequestOK(w)
    BY <1>1 DEF Typed, TypeOK, RequestOK
  <1>3. CASE Goto(w, "row_back")
    <2>1. pc'[w] = "row_back" /\ Touched(w)'
      BY <1>2, <1>3 DEF Goto, Touched
    <2> QED BY <1>0, <1>1, <2>1, NamesMove DEF RowMoves
  <1>4. CASE w \notin undoing /\ Return(w)
    <2>1. CASE w \in together \/ faults[w] > 0
      <3>1. NamesOf(w) \subseteq loose'
        BY <1>1, <1>4, <2>1, ReturnTyped
      <3> QED BY <1>0, <1>1, <3>1, NamesMove DEF RowMoves
    <2>2. CASE w \notin together /\ ~(faults[w] > 0)
      <3>1. Alone(w) /\ faults[w] = 0
        BY <1>1, <2>2 DEF Alone, Typed, TypeOK
      <3>2. Does(w) /\ todo[w] = {}
        BY <1>1, <1>2, <3>1 DEF AloneDoes, RequestOK
      <3>3. mem = (before[w] \ own) \union
                  ({req[w].new} \X (IF req[w].op = "rename" THEN PermsOf(own)
                                    ELSE req[w].asked))
        BY <1>1, <3>1, <3>2 DEF Does, Doing
      <3>4. req[w].op # "delete" => req[w].new \in Taken
        <4>1. req[w].op # "delete" => roles[req[w].id] = req[w].new
          BY <1>1, <1>2, <3>2 DEF Does, OwnRow, RequestOK, Requests
        <4> QED BY <1>2, <4>1, NobodyApart DEF Taken, Requests
      <3>5. req[w].op = "delete" => req[w].old = req[w].new /\ req[w].asked = {}
        BY <1>1, <1>2 DEF RequestOK
      <3>6. ASSUME NEW r \in mem, r[1] = req[w].old PROVE r[1] = req[w].new
        BY <3>3, <3>6 DEF Of
      <3>7. req[w].op = "delete" => \A r \in mem : r[1] # req[w].old
        <4> SUFFICES ASSUME req[w].op = "delete", NEW r \in mem,
                            r[1] = req[w].old
                     PROVE  FALSE
          OBVIOUS
        <4>1. mem = (before[w] \ own) \union ({req[w].new} \X {})
          BY <3>3, <3>5
        <4> QED BY <4>1 DEF Of
      <3>8. ASSUME NEW r \in db' \union mem'
            PROVE  r[1] \in Taken' \/ r[1] \in loose
        <4>1. r \in mem /\ Taken' = Taken
          BY <1>1 DEF Taken
        <4>2. r[1] \in Taken \/ r[1] \in loose \/ r[1] \in NamesOf(w)
          BY <3>1, <4>1, NamesAlone DEF NamesOK
        <4> QED BY <3>4, <3>5, <3>6, <3>7, <4>1, <4>2 DEF NamesOf
      <3> QED BY <1>0, <1>1, <1>4, <2>2, <3>1, <3>8, NamesReturn
    <2> QED BY <2>1, <2>2
  <1> QED BY <1>3, <1>4 DEF SavePolicy

LEMMA NamesPolicy ==
    ASSUME Typed, NamesOK, NEW w \in Workers,
           \/ RemoveFromTable(w) \/ RemoveFromMemory(w)
           \/ AddToTable(w) \/ AddToMemory(w)
    PROVE  NamesOK'
  <1>0. Moves(w) /\ pc[w] # "idle" /\ pc \in [Workers -> Points] /\ RequestOK(w)
    <2>1. Moves(w)
      BY DEF Moves
    <2> QED BY <2>1, MovesTyped DEF Typed, TypeOK
  <1>1. Source(w) \in NamesOf(w) /\ Target(w) \in NamesOf(w)
    BY <1>0, ToAddTyped
  <1>2. RowMoves(w)
    BY DEF RemoveFromTable, RemoveFromMemory, AddToTable, AddToMemory, tables,
           RowMoves
  <1>3. Touched(w)' /\ pc'[w] # "idle"
    BY <1>0 DEF RemoveFromTable, RemoveFromMemory, AddToTable, AddToMemory,
                Goto, Touched
  <1>4. /\ \A r \in db' : r \in db \/ r[1] \in NamesOf(w)
        /\ \A r \in mem' : r \in mem \/ r[1] \in NamesOf(w)
        /\ \A r \in db : r \in db' \/ r[1] \in NamesOf(w)
        /\ \A r \in mem : r \in mem' \/ r[1] \in NamesOf(w)
    <2>1. CASE RemoveFromTable(w)
      BY <1>1, <2>1 DEF RemoveFromTable, Of
    <2>2. CASE RemoveFromMemory(w)
      BY <1>1, <2>2 DEF RemoveFromMemory, Of
    <2>3. CASE AddToTable(w)
      <3>1. \A r \in todo[w] : r[1] = Target(w)
        BY <1>0, <2>3 DEF AddToTable, RequestOK
      <3>2. mem' = mem /\ (db' = db \/ \E r \in todo[w] : db' = db \union {r})
        BY <2>3 DEF AddToTable
      <3> QED BY <1>1, <3>1, <3>2
    <2>4. CASE AddToMemory(w)
      <3>1. rule[w][1] = Target(w)
        BY <1>0, <2>4 DEF AddToMemory, RequestOK
      <3> QED BY <1>1, <2>4, <3>1 DEF AddToMemory
    <2> QED BY <2>1, <2>2, <2>3, <2>4
  <1>5. \A r \in Rules : Differs(r)' => Differs(r) \/ r[1] \in NamesOf(w)
    BY <1>4 DEF Differs
  <1> QED BY <1>0, <1>2, <1>3, <1>4, <1>5, NamesMove

LEMMA NamesRestoreRow ==
    ASSUME Typed, NamesOK, NEW w \in Workers, RestoreRow(w)
    PROVE  NamesOK'
  <1>0. Moves(w) /\ pc[w] = "row_back" /\ db' = db /\ mem' = mem /\ Return(w)
    BY DEF Moves, RestoreRow, policy
  <1>1. req[w] \in Requests /\ faults[w] > 0
    BY <1>0 DEF Typed, RequestOK
  <1>2. NamesOf(w) \subseteq loose'
    BY <1>0, <1>1, ReturnTyped
  <1>3. roles' = Rename(req[w].id, req[w].old)
    BY DEF RestoreRow
  <1>4. RowMoves(w)
    BY <1>1, <1>3 DEF RowMoves, Rename, NamesOf, Typed, TypeOK, Requests
  <1> QED BY <1>0, <1>2, <1>4, NamesMove DEF Differs

LEMMA NamesFail ==
    ASSUME Typed, NamesOK, NEW w \in Workers, Fail(w)
    PROVE  NamesOK'
  <1>1. /\ Moves(w) /\ db' = db /\ mem' = mem /\ roles' = roles
        /\ NamesOf(w) \subseteq loose'
    BY DEF Moves, Fail, policy, tables, NamesOf
  <1> QED BY <1>1, NamesMove DEF RowMoves, Differs

\* A step that moves nobody's request: names stay named, and rows taken.
LEMMA NamesKept ==
    ASSUME Typed, NamesOK, loose' = loose,
           \A w \in Workers : Same(w),
           \A w \in Workers :
              pc[w] # "idle" => roles'[req[w].id] = roles[req[w].id],
           Taken \subseteq Taken', phase' = phase \/ phase' # "up",
           db' = db /\ mem' = mem
    PROVE  NamesOK'
  <1>1. \A w \in Workers : /\ pc'[w] = pc[w] /\ NamesOf(w)' = NamesOf(w)
                           /\ Touched(w)' <=> Touched(w)
                           /\ req'[w] = req[w]
    BY DEF Same, NamesOf, Touched
  <1>2. \A n : (Named(n) => Named(n)') /\ (Unsettled(n) => Unsettled(n)')
    BY <1>1 DEF Named, Unsettled
  <1>3. ASSUME NEW r \in db' \union mem' PROVE r[1] \in Taken' \/ Named(r[1])'
    BY <1>2 DEF NamesOK
  <1>4. ASSUME phase' = "up", NEW r \in Rules, Differs(r)' PROVE Unsettled(r[1])'
    BY <1>2, <1>4 DEF NamesOK, Differs
  <1>5. ASSUME NEW v \in Workers, pc'[v] # "idle", NEW n \in Names,
               roles'[req'[v].id] = n
        PROVE  Named(n)'
    BY <1>1, <1>2, <1>5 DEF NamesOK
  <1> QED BY <1>3, <1>4, <1>5 DEF NamesOK, Differs

LEMMA NamesBegin ==
    ASSUME Typed, NamesOK, NEW w \in Workers, Begins(w)
    PROVE  NamesOK'
  <1>1. /\ \A v \in Workers \ {w} : Same(v)
        /\ pc[w] = "idle" /\ pc'[w] # "idle"
        /\ roles'[req'[w].id] = req'[w].old
        /\ UNCHANGED <<phase, roles, db, mem, loose>>
    BY BeginsTyped
  <1>2. \A v \in Workers : pc[v] # "idle" =>
           /\ pc'[v] = pc[v] /\ NamesOf(v)' = NamesOf(v)
           /\ Touched(v)' <=> Touched(v)
           /\ req'[v] = req[v]
    BY <1>1 DEF Same, NamesOf, Touched
  <1>3. \A n : Named(n) => Named(n)'
    BY <1>1, <1>2 DEF Named
  <1>4. \A n : Unsettled(n) => Unsettled(n)'
    BY <1>1, <1>2 DEF Unsettled, Touched
  <1>5. ASSUME NEW r \in db' \union mem' PROVE r[1] \in Taken' \/ Named(r[1])'
    BY <1>1, <1>3 DEF NamesOK, Taken
  <1>6. ASSUME phase' = "up", NEW r \in Rules, Differs(r)' PROVE Unsettled(r[1])'
    BY <1>1, <1>4, <1>6 DEF NamesOK, Differs
  <1>7. ASSUME NEW v \in Workers, pc'[v] # "idle", NEW n \in Names,
               roles'[req'[v].id] = n
        PROVE  Named(n)'
    <2>1. CASE v = w
      <3>1. n \in NamesOf(w)'
        BY <1>1, <1>7, <2>1 DEF NamesOf
      <3> QED BY <1>1, <3>1 DEF Named
    <2>2. CASE v # w
      BY <1>1, <1>2, <1>3, <1>7, <2>2 DEF NamesOK, Same
    <2> QED BY <2>1, <2>2
  <1> QED BY <1>5, <1>6, <1>7 DEF NamesOK, Differs

LEMMA NamesStart ==
    ASSUME Typed, NamesOK, Start
    PROVE  NamesOK'
  <1>1. \A w \in Workers : pc[w] = "idle" /\ pc'[w] = "idle"
    BY StartTyped
  <1>2. CASE NewEnforcer
    <2>1. /\ mem' = db' /\ db' = db \union Defaults /\ loose' = loose
          /\ UNCHANGED <<roles, pc, req>> /\ DefaultNames \subseteq Taken
      BY <1>2 DEF NewEnforcer, StartPolicies, tables, local, Typed, RowsOK
    <2>2. \A r \in Defaults : r[1] \in Taken
      BY <2>1, NamesType
    <2>3. Taken' = Taken
      BY <2>1 DEF Taken
    <2>4. \A r \in db' \union mem' : r[1] \in Taken' \/ Named(r[1])'
      BY <1>1, <2>1, <2>2, <2>3 DEF NamesOK, Named
    <2> QED BY <1>1, <2>1, <2>4 DEF NamesOK
  <1>3. CASE ~NewEnforcer
    <2>1. /\ UNCHANGED <<db, mem, pc, req, todo, kept, rule, undoing, faults,
                         before, loose>>
          /\ phase' # "up"
      BY <1>3 DEF Start, UpsertRole, RolesReady, CreateAdmin, AssignAdmin,
                  AfterRoles, policy, local, history
    <2>2. Taken \subseteq Taken'
      <3>1. CASE UNCHANGED roles
        BY <3>1 DEF Taken
      <3>2. ASSUME NEW name \in DefaultNames, InsertRole(name)
            PROVE  Taken \subseteq Taken'
        BY <3>2, NobodyApart, InsertRoleTyped
      <3> QED BY <1>3, <3>1, <3>2
              DEF Start, UpsertRole, RolesReady, CreateAdmin, AssignAdmin, tables
    <2>3. \A w \in Workers : Same(w)
      BY <2>1 DEF Same
    <2> QED BY <1>1, <2>1, <2>2, <2>3, NamesKept
  <1> QED BY <1>2, <1>3

LEMMA NamesRestart ==
    ASSUME Typed, NamesOK, Restart
    PROVE  NamesOK'
  <1>1. /\ phase' # "up" /\ mem' = {} /\ db' = db /\ UNCHANGED roles
    BY DEF Restart, tables
  <1>2. \A n : Named(n) => n \in loose'
    BY RestartTyped DEF Named
  <1>3. Taken' = Taken
    BY <1>1 DEF Taken
  <1>4. \A r \in db' \union mem' : r[1] \in Taken' \/ r[1] \in loose'
    BY <1>1, <1>2, <1>3 DEF NamesOK
  <1>5. \A w \in Workers : pc'[w] = "idle"
    BY RestartTyped
  <1> QED BY <1>1, <1>4, <1>5 DEF NamesOK, Named

LEMMA NamesCreateRole ==
    ASSUME Typed, NamesOK, NEW name \in Names, CreateRole(name)
    PROVE  NamesOK'
  <1>1. /\ \A w \in Workers : Same(w)
        /\ UNCHANGED <<phase, db, mem, loose>>
    BY CreateRoleTyped
  <1>2. InsertRole(name)
    BY DEF CreateRole
  <1>3. /\ \A i \in Ids : i <= last => roles'[i] = roles[i]
        /\ Taken \subseteq Taken'
    BY <1>2, InsertRoleTyped
  <1>4. \A w \in Workers : pc[w] # "idle" => req[w].id \in Ids /\ req[w].id <= last
    BY DEF Typed, RequestOK, Requests
  <1> QED BY <1>1, <1>3, <1>4, NamesKept

LEMMA NamesStep ==
    ASSUME Typed, AloneDoes, NamesOK, [Next]_vars
    PROVE  NamesOK'
  <1>1. ASSUME NEW w \in Workers, Moves(w) PROVE NamesOK'
    BY <1>1, NamesChangeRow, NamesSnapshot, NamesPolicy, NamesSavePolicy,
       NamesRestoreRow, NamesFail
       DEF Moves
  <1>2. ASSUME NEW w \in Workers, Begins(w) PROVE NamesOK'
    BY <1>2, NamesBegin
  <1>3. ASSUME UNCHANGED <<phase, roles, db, mem, loose, pc, req, todo, kept,
                           rule, undoing, faults, before>>
        PROVE  NamesOK'
    <2>1. Taken' = Taken /\ \A w \in Workers : Same(w)
      BY <1>3 DEF Taken, Same
    <2> QED BY <1>3, <2>1, NamesKept
  <1>4. CASE UNCHANGED vars
    BY <1>3, <1>4 DEF vars, tables, policy, local, history
  <1>5. CASE UpdateAdmin
    BY <1>3, <1>5, UpdateAdminLeaves
    DEF NoRoleChanges, tables, policy, local, history
  <1>6. CASE \E name \in Names : CreateRole(name)
    BY <1>6, NamesCreateRole
  <1> QED BY <1>1, <1>2, <1>4, <1>5, <1>6, StepIs, NamesStart, NamesRestart

\* Between requests memory and table are alike unless one failed beside another,
\* and every rule belongs to a role or to a name that a failed, cut-off or
\* overlapping request was about (handlers.go:486-625, adapter.go:57).
THEOREM QuietSettles == Spec => []QuietIsSettled
  <1> DEFINE Inv == Typed /\ AgreeOK /\ AloneDoes /\ NamesOK
  <1>1. Init => Inv
    <2> SUFFICES ASSUME Init PROVE Inv
      OBVIOUS
    <2>1. /\ phase # "up" /\ db = {} /\ mem = {}
          /\ \A w \in Workers : pc[w] = "idle"
      BY DEF Init
    <2> QED BY <2>1, InitTyped DEF AgreeOK, AloneDoes, Alone, NamesOK
  <1>2. Inv /\ [Next]_vars => Inv'
    BY NextTyped, AgreeStep, AloneStep, NamesStep
  <1>3. Inv => QuietIsSettled
    <2> SUFFICES ASSUME Inv, phase = "up", Busy = {}
                 PROVE  /\ ~torn => mem = db
                        /\ \A r \in mem : r[1] \in Taken \union loose
      BY DEF QuietIsSettled, QuietAgreement, RulesHaveRoles
    <2>1. \A w \in Workers : pc[w] = "idle"
      BY DEF Busy
    <2>2. ~torn => mem = db
      BY <2>1 DEF AgreeOK
    <2>3. \A r \in mem : r[1] \in Taken \/ r[1] \in loose
      BY <2>1 DEF NamesOK, Named
    <2> QED BY <2>2, <2>3
  <1> QED BY <1>1, <1>2, <1>3, PTL DEF Spec

===============================================================================
