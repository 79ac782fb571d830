------------------------------ MODULE Settings ------------------------------
(***************************************************************************)
(* The table settings.  Every API process stores the default of each       *)
(* setting it does not find before it serves; an administrator changes one *)
(* setting at a time, and a secret is sealed, shown as ****** and kept     *)
(* when ****** comes back.  Both look the row up and write all of it with  *)
(* a second statement.                                                     *)
(*                                                                         *)
(* SettingService.cache is written and never read, and is left out.        *)
(***************************************************************************)
EXTENDS Integers

CONSTANTS Keys,          \* 1..n: in the order of DefaultSettings
          Secrets,       \* of those, the ones isSecretSetting means
          Values,        \* what an administrator types
          Workers,       \* processes that start and handlers of those that did
          NoRow,
          MaxRequests    \* bound: starts and updates

Default == "default"     \* for a secret: two quotes
Empty == "empty"
Mask == "******"
Inputs == Values \union {Default, Empty, Mask}
Rows == [value : Inputs, sealed : BOOLEAN]

VARIABLES
    table,       \* [Keys -> Rows or NoRow]
    serving,     \* a process has got through BootstrapDefaults
    pc, at,      \* of a worker: the next statement, the key it is about
    asked,       \* the value a worker's request carries; NoRow in a start
    read,        \* the row a worker read
    requests,
    overtaken    \* history: workers whose row was written since their look

local == <<at, asked, read>>
vars == <<table, serving, pc, local, requests, overtaken>>

TypeOK ==
    /\ table \in [Keys -> Rows \union {NoRow}]
    /\ serving \in BOOLEAN
    /\ pc \in [Workers -> {"idle", "look", "insert", "get", "upsert"}]
    /\ at \in [Workers -> Keys]
    /\ asked \in [Workers -> Inputs \union {NoRow}]
    /\ read \in [Workers -> Rows \union {NoRow}]
    /\ requests \in 0..MaxRequests
    /\ overtaken \subseteq Workers

Init ==
    /\ table = [k \in Keys |-> NoRow]
    /\ serving = FALSE
    /\ pc = [w \in Workers |-> "idle"]
    /\ at = [w \in Workers |-> 1]
    /\ asked = [w \in Workers |-> NoRow]
    /\ read = [w \in Workers |-> NoRow]
    /\ requests = 0 /\ overtaken = {}

Goto(w, point) == pc' = [pc EXCEPT ![w] = point]

Begin(w, point, k, value) ==
    /\ pc[w] = "idle" /\ requests < MaxRequests
    /\ requests' = requests + 1
    /\ Goto(w, point)
    /\ at' = [at EXCEPT ![w] = k]
    /\ asked' = [asked EXCEPT ![w] = value]
    /\ read' = [read EXCEPT ![w] = NoRow]
    /\ overtaken' = overtaken \ {w}
    /\ UNCHANGED <<table, serving>>

\* What was read is stale for all that still mean to write it.
UpsertSetting(w, row) ==
    /\ table' = [table EXCEPT ![at[w]] = row]
    /\ overtaken' = (overtaken \ {w}) \union
          {v \in Workers \ {w} : pc[v] \in {"insert", "upsert"} /\ at[v] = at[w]}

\* A statement fails: the process does not start, the request is refused.
Fail(w) ==
    /\ pc[w] # "idle"
    /\ Goto(w, "idle")
    /\ UNCHANGED <<table, serving, local, requests, overtaken>>

-----------------------------------------------------------------------------
(* Store.BootstrapDefaults *)

BootstrapDefaults(w) == Begin(w, "look", 1, NoRow)

NextSetting(w) ==
    IF at[w] + 1 \in Keys
    THEN /\ Goto(w, "look") /\ at' = [at EXCEPT ![w] = @ + 1]
         /\ UNCHANGED serving
    ELSE Goto(w, "idle") /\ serving' = TRUE /\ UNCHANGED at

LookUp(w) ==
    /\ pc[w] = "look"
    /\ IF table[at[w]] # NoRow THEN NextSetting(w)
       ELSE Goto(w, "insert") /\ UNCHANGED <<at, serving>>
    /\ UNCHANGED <<table, asked, read, requests, overtaken>>

InsertDefault(w) ==
    /\ pc[w] = "insert"
    /\ UpsertSetting(w, [value |-> Default, sealed |-> FALSE])
    /\ NextSetting(w)
    /\ UNCHANGED <<asked, read, requests>>

-----------------------------------------------------------------------------
(* SettingService.Update *)

Update(w, k, value) == serving /\ Begin(w, "get", k, value)

GetSetting(w) ==
    /\ pc[w] = "get"
    /\ read' = [read EXCEPT ![w] = table[at[w]]]
    /\ overtaken' = overtaken \ {w}
    /\ Goto(w, IF table[at[w]] = NoRow THEN "idle" ELSE "upsert")
    /\ UNCHANGED <<table, serving, at, asked, requests>>

MutantRevised(secret, value, row) ==
    IF ~secret \/ value = Empty THEN [value |-> value, sealed |-> FALSE]
    ELSE [value |-> value, sealed |-> TRUE]
\* The mask keeps what was read, and what is empty is not sealed.
Revised(secret, value, row) ==
    IF secret /\ value = Mask THEN row
    ELSE [value |-> value, sealed |-> secret /\ value # Empty]

StoreUpdate(w) ==
    /\ pc[w] = "upsert"
    /\ UpsertSetting(w, Revised(at[w] \in Secrets, asked[w], read[w]))
    /\ Goto(w, "idle")
    /\ UNCHANGED <<serving, local, requests>>

Next == \E w \in Workers :
    \/ BootstrapDefaults(w)
    \/ LookUp(w) \/ InsertDefault(w)
    \/ \E k \in Keys, value \in Inputs : Update(w, k, value)
    \/ GetSetting(w) \/ StoreUpdate(w)
    \/ Fail(w)

Spec == Init /\ [][Next]_vars

-----------------------------------------------------------------------------
(* Properties *)

\* The request of w means to give setting k that row.
Asks(w, k, row) == /\ asked[w] = row.value
                   /\ k \in Secrets =>
                         row.value # Mask /\ (row.sealed \/ row.value = Empty)

\* A stored setting changes only to a value somebody asked for, a secret only
\* to what was typed and sealed, never to the mask it is shown as; unless the
\* writer was overtaken after its look: then an update is undone, by another
\* update that carried the mask or by the default of a process that had begun
\* to start earlier (settings.go:79-82, bootstrap.go:46-59).
ValueKept ==
    [][\A k \in Keys : table[k] # NoRow /\ table'[k] # table[k] =>
          \E w \in Workers :
             /\ pc[w] \in {"insert", "upsert"} /\ at[w] = k
             /\ pc'[w] # pc[w]
             /\ Asks(w, k, table'[k]) \/ w \in overtaken]_vars
=============================================================================
