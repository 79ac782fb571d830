------------------------------ MODULE HostKeys ------------------------------
(***************************************************************************)
(* The SSH host keys.  Whoever asks the API for them first makes it        *)
(* generate one per algorithm; an SSH proxy fetches them at its start and  *)
(* keeps what it got.  Looking a key up, generating it and inserting it    *)
(* are not one step, so two requests, to one API process or to two, may    *)
(* both find none.  PostgreSQL takes the id of a row before the row can be *)
(* seen; a key is known by its id here, and its bits are left out.         *)
(***************************************************************************)
EXTENDS Integers

CONSTANTS Algorithms,   \* 1..n: in the order of EnsureDefaults
          Proxies,      \* SSH proxies
          Nobody,       \* a browser that shows the fingerprints
          Workers,      \* goroutines of the API servers handling requests
          MaxRequests   \* bound: requests for the keys

VARIABLES
    table,     \* the table host_keys: visible rows [id, algorithm]
    lastId,    \* its sequence
    pc, at,    \* of a worker: the next statement, the algorithm it is about
    client,    \* who a worker answers
    mine,      \* the id of the row a worker is inserting
    offered,   \* [Proxies -> a key per algorithm; 0 if it is not running]
    requests,
    shown,     \* history: keys ever offered to users, per algorithm
    together   \* history: algorithms two requests found no key for at once

local == <<at, client, mine>>
history == <<shown, together>>
vars == <<table, lastId, pc, local, offered, requests, history>>

Keys == [id : Nat, algorithm : Algorithms]
NoKeys == [a \in Algorithms |-> 0]

TypeOK ==
    /\ table \subseteq Keys
    /\ lastId \in Nat
    /\ pc \in [Workers -> {"idle", "look", "insert", "commit", "list"}]
    /\ at \in [Workers -> Algorithms]
    /\ client \in [Workers -> Proxies \union {Nobody}]
    /\ mine \in [Workers -> Nat]
    /\ offered \in [Proxies -> [Algorithms -> Nat]]
    /\ requests \in 0..MaxRequests
    /\ shown \in [Algorithms -> SUBSET Nat]
    /\ together \subseteq Algorithms

Init ==
    /\ table = {} /\ lastId = 0
    /\ pc = [w \in Workers |-> "idle"]
    /\ at = [w \in Workers |-> 1]
    /\ client = [w \in Workers |-> Nobody]
    /\ mine = [w \in Workers |-> 0]
    /\ offered = [x \in Proxies |-> NoKeys]
    /\ requests = 0
    /\ shown = [a \in Algorithms |-> {}]
    /\ together = {}

Of(a) == {k.id : k \in {key \in table : key.algorithm = a}}

-----------------------------------------------------------------------------
(* HostKeyService.List *)

Goto(w, point) == pc' = [pc EXCEPT ![w] = point]

\* A proxy that does not run asks until it is answered; a browser may ask.
List(w, x) ==
    /\ pc[w] = "idle" /\ requests < MaxRequests
    /\ x \in Proxies =>
          /\ offered[x] = NoKeys
          /\ \A v \in Workers : pc[v] # "idle" => client[v] # x
    /\ requests' = requests + 1
    /\ Goto(w, "look")
    /\ at' = [at EXCEPT ![w] = 1]
    /\ client' = [client EXCEPT ![w] = x]
    /\ UNCHANGED <<table, lastId, mine, offered, history>>

\* EnsureDefaults goes on with the next algorithm.
Advance(w) ==
    IF at[w] + 1 \in Algorithms
    THEN Goto(w, "look") /\ at' = [at EXCEPT ![w] = @ + 1]
    ELSE Goto(w, "list") /\ UNCHANGED at

Found(w) ==
    /\ pc[w] = "look" /\ Of(at[w]) # {}
    /\ Advance(w)
    /\ UNCHANGED <<table, lastId, client, mine, offered, requests, history>>

Making(v, a) == pc[v] \in {"insert", "commit"} /\ at[v] = a

NotFound(w) ==
    /\ pc[w] = "look" /\ Of(at[w]) = {}
    /\ Goto(w, "insert")
    /\ together' = together \union
          {a \in {at[w]} : \E v \in Workers \ {w} : Making(v, a)}
    /\ UNCHANGED <<table, lastId, local, offered, requests, shown>>

\* The new key's row has an id ...
InsertHostKey(w) ==
    /\ pc[w] = "insert"
    /\ lastId' = lastId + 1
    /\ mine' = [mine EXCEPT ![w] = lastId']
    /\ Goto(w, "commit")
    /\ UNCHANGED <<table, at, client, offered, requests, history>>

\* ... and is visible, maybe after a row with a later one.
CommitHostKey(w) ==
    /\ pc[w] = "commit"
    /\ table' = table \union {[id |-> mine[w], algorithm |-> at[w]]}
    /\ Advance(w)
    /\ UNCHANGED <<lastId, client, mine, offered, requests, history>>

MutantGenerate(w) == IF pc[w] = "look" THEN "insert" ELSE "idle"
\* Only domain.ErrNotFound means that there is no key.
AfterFailure(w) == "idle"

Fail(w) ==
    /\ pc[w] # "idle"
    /\ Goto(w, AfterFailure(w))
    /\ UNCHANGED <<table, lastId, local, offered, requests, history>>

\* All keys are listed by id, and of one algorithm the proxy keeps the last.
Latest(a) == IF Of(a) = {} THEN 0
             ELSE CHOOSE id \in Of(a) : \A other \in Of(a) : other <= id

Answer(w) ==
    /\ pc[w] = "list"
    /\ LET keys == [a \in Algorithms |-> Latest(a)]
       IN IF client[w] = Nobody THEN UNCHANGED <<offered, shown>>
          ELSE /\ offered' = [offered EXCEPT ![client[w]] = keys]
               /\ shown' = [a \in Algorithms |-> shown[a] \union {keys[a]}]
    /\ Goto(w, "idle")
    /\ UNCHANGED <<table, lastId, local, requests, together>>

\* The proxy's patience ends before the handler does, and it asks again.
GiveUp(w) ==
    /\ pc[w] # "idle" /\ client[w] # Nobody
    /\ client' = [client EXCEPT ![w] = Nobody]
    /\ UNCHANGED <<table, lastId, pc, at, mine, offered, requests, history>>

Restart(x) ==
    /\ offered[x] # NoKeys
    /\ offered' = [offered EXCEPT ![x] = NoKeys]
    /\ UNCHANGED <<table, lastId, pc, local, requests, history>>

Next ==
    \/ \E w \in Workers :
          \/ \E x \in Proxies \union {Nobody} : List(w, x)
          \/ Found(w) \/ NotFound(w) \/ InsertHostKey(w)
          \/ CommitHostKey(w) \/ Fail(w)
          \/ Answer(w) \/ GiveUp(w)
    \/ \E x \in Proxies : Restart(x)

Spec == Init /\ [][Next]_vars

-----------------------------------------------------------------------------
(* Properties *)

\* Users of all SSH proxies see one fingerprint per algorithm, before and after
\* restarts ("保证客户端指纹不变", IMPLEMENTATION_PLAN.md:496), unless two of the
\* first requests found the table without a key at the same time: then both
\* keys stay and proxies offer the one or the other (host_keys.go:36).
OneFingerprint ==
    \A a \in Algorithms : a \in together \/ \A i, j \in shown[a] : i = j
=============================================================================
