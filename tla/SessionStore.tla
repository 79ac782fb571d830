---------------------------- MODULE SessionStore ----------------------------
(***************************************************************************)
(* Session rows: the record of who is or was connected to what.  Proxies   *)
(* create and finish them through the API, administrators force-finish     *)
(* them, and the native RDP endpoints create them under a limit and finish *)
(* them exactly once, with a line in the audit log for each event.         *)
(*                                                                         *)
(* Every handler runs on a worker of its own and every SQL statement is an *)
(* action.  A statement may fail, and the API server may crash; both drop  *)
(* what the request had still to do.  The checks of Resolve are those of   *)
(* ConnectionToken's verification; here their outcome is free.             *)
(***************************************************************************)
EXTENDS Integers, FiniteSets

CONSTANTS Workers,        \* goroutines of the API server handling requests
          Nobody,
          NoRow,
          Limit,          \* proxy.rdp.max_connections, for native RDP
          MaxSessions,    \* bound: rows ever created
          MaxTime,        \* bound: the clock stops here
          MaxFailures     \* bound: failed statements and crashes

ASSUME BoundsType == /\ Limit \in Nat \ {0}
                     /\ MaxSessions \in Nat
                     /\ MaxTime \in Nat
                     /\ MaxFailures \in Nat
ASSUME NobodyType == Nobody \notin Workers

Ids == 1..MaxSessions
Open == -1                \* date_end IS NULL

\* native: protocol and type "rdp", login_from "rdp_client".
Rows == [native : BOOLEAN, finished : BOOLEAN, dateEnd : Nat \union {Open},
         recording : BOOLEAN]

ASSUME NoRowType == NoRow \notin Rows

VARIABLES
    now,
    rows,       \* the table sessions
    last,       \* the last id AUTOINCREMENT gave out
    updated,    \* web sessions whose proxy has sent its one finishing update
    limitMu,    \* holder of Store.sessionLimitMu
    pc,         \* [Workers -> Points]: the next statement of a handler
    target,     \* the session a worker is about
    sess,       \* the row a worker read and will write back
    room,       \* whether the count a worker took was below the limit
    todo,       \* sessions FinishActiveSessions has still to finish
    started,    \* audit log: sessions with an rdp.native.start line
    completed,  \* audit log: rdp.native completion lines per session
    forced,     \* audit log: sessions with a session.force_finish line
    dropped,    \* history: <<statement, session>> never executed
    stale,      \* history: workers whose row was written since they read it
    failures

table == <<rows, last>>
local == <<pc, target, sess, room, todo>>
log == <<started, completed, forced>>
history == <<dropped, stale, failures>>
vars == <<now, table, updated, limitMu, local, log, history>>

Points == {"idle", "write", "write_force", "audit_force", "lock", "count",
           "insert", "audit_start", "check", "finish", "audit_complete"}
Busy == Points \ {"idle"}

TypeOK ==
    /\ now \in Nat /\ failures \in Nat
    /\ rows \in [Ids -> Rows \union {NoRow}]
    /\ last \in 0..MaxSessions
    /\ limitMu \in Workers \union {Nobody}
    /\ pc \in [Workers -> Points]
    /\ target \in [Workers -> 0..MaxSessions]
    /\ sess \in [Workers -> Rows \union {NoRow}]
    /\ room \in [Workers -> BOOLEAN]
    /\ todo \in [Workers -> SUBSET Ids]
    /\ completed \in [Ids -> Nat]
    /\ updated \subseteq Ids /\ started \subseteq Ids /\ forced \subseteq Ids
    /\ dropped \subseteq Busy \X (0..MaxSessions)
    /\ stale \subseteq Workers

Init ==
    /\ now = 0 /\ failures = 0
    /\ rows = [i \in Ids |-> NoRow]
    /\ last = 0
    /\ updated = {}
    /\ limitMu = Nobody
    /\ pc = [w \in Workers |-> "idle"]
    /\ target = [w \in Workers |-> 0]
    /\ sess = [w \in Workers |-> NoRow]
    /\ room = [w \in Workers |-> FALSE]
    /\ todo = [w \in Workers |-> {}]
    /\ started = {} /\ forced = {}
    /\ completed = [i \in Ids |-> 0]
    /\ dropped = {} /\ stale = {}

Created == {i \in Ids : rows[i] # NoRow}
ActiveNative == {i \in Created : rows[i].native /\ ~rows[i].finished}

NewRow(native) == [native |-> native, finished |-> FALSE, dateEnd |-> Open,
                   recording |-> FALSE]

Insert(native) == /\ last < MaxSessions
                  /\ last' = last + 1
                  /\ rows' = [rows EXCEPT ![last + 1] = NewRow(native)]

Goto(w, point) == pc' = [pc EXCEPT ![w] = point]

\* The handler returns.
Return(w) == /\ Goto(w, "idle")
             /\ target' = [target EXCEPT ![w] = 0]

-----------------------------------------------------------------------------
(* Sessions of the Go proxies: SessionService.Create, Update, ForceFinish *)

\* ProxyCreateSession: a single INSERT.
CreateSession ==
    /\ Insert(FALSE)
    /\ UNCHANGED <<now, updated, limitMu, local, log, history>>

\* What Update writes back, computed from the row it read.  path: whether the
\* caller named a recording.
MutantRestamp(row, path) ==
    [row EXCEPT !.finished = TRUE, !.dateEnd = now,
                !.recording = row.recording \/ path]
MutantOnlyRecorded(row, path) ==
    IF path THEN [row EXCEPT !.finished = TRUE, !.dateEnd = now,
                             !.recording = TRUE]
            ELSE row
Finishing(row, path) ==
    [row EXCEPT !.finished = TRUE,
                !.dateEnd = IF row.dateEnd = Open THEN now ELSE row.dateEnd,
                !.recording = row.recording \/ path]

\* The GetSession of SessionService.Update.
ReadForUpdate(w, i, path, next) ==
    /\ pc[w] = "idle"
    /\ i \in Created
    /\ Goto(w, next)
    /\ target' = [target EXCEPT ![w] = i]
    /\ sess' = [sess EXCEPT ![w] = Finishing(rows[i], path)]
    /\ UNCHANGED <<now, table, limitMu, room, todo, log, history>>

\* A proxy ends a web session once, with its recording if it made one.  It
\* always sends is_finished = true.
ProxyUpdateSession(w, i, path) ==
    /\ i \in Created /\ ~rows[i].native
    /\ i \notin updated
    /\ updated' = updated \union {i}
    /\ ReadForUpdate(w, i, path, "write")

\* An administrator may force any session, finished or not.
MutantForceUnlogged(w, i) ==
    /\ ReadForUpdate(w, i, FALSE, "write")
    /\ UNCHANGED updated
ForceFinishSession(w, i) ==
    /\ ReadForUpdate(w, i, FALSE, "write_force")
    /\ UNCHANGED updated

Writers(i) == {x \in Workers : pc[x] \in {"write", "write_force"} /\ target[x] = i}

\* Worker w writes the row of its session: what the others read is stale.
Written(w) == stale' = (stale \union Writers(target[w])) \ {w}

\* UpdateSession stores is_finished, date_end and recording_path as they were
\* when the row was read.
UpdateSession(w) ==
    /\ pc[w] \in {"write", "write_force"}
    /\ rows' = [rows EXCEPT ![target[w]] =
                  [@ EXCEPT !.finished = sess[w].finished,
                            !.dateEnd = sess[w].dateEnd,
                            !.recording = sess[w].recording]]
    /\ \/ pc[w] = "write" /\ Return(w)
       \/ pc[w] = "write_force" /\ Goto(w, "audit_force") /\ UNCHANGED target
    /\ Written(w)
    /\ sess' = [sess EXCEPT ![w] = NoRow]
    /\ UNCHANGED <<now, last, updated, limitMu, room, todo, log, dropped,
                   failures>>

AuditForce(w) ==
    /\ pc[w] = "audit_force"
    /\ forced' = forced \union {target[w]}
    /\ Return(w)
    /\ UNCHANGED <<now, table, updated, limitMu, sess, room, todo, started,
                   completed, history>>

-----------------------------------------------------------------------------
(* Native RDP: StartSession *)

\* Resolve let the client in; a denial only writes its audit line.
StartSession(w) ==
    /\ pc[w] = "idle"
    /\ Goto(w, "lock")
    /\ UNCHANGED <<now, table, updated, limitMu, target, sess, room, todo, log,
                   history>>

\* sessionLimitMu.Lock()
MutantNoMutex(w) == TRUE
MutexFree(w) == limitMu = Nobody

LockLimit(w) ==
    /\ pc[w] = "lock"
    /\ MutexFree(w)
    /\ limitMu' = w
    /\ Goto(w, "count")
    /\ UNCHANGED <<now, table, updated, target, sess, room, todo, log,
                   history>>

\* INSERT ... SELECT ... WHERE (SELECT COUNT(1) ...) < limit.  PostgreSQL
\* counts in the snapshot it takes when the statement starts.
BelowLimit == Cardinality(ActiveNative) < Limit

CountActive(w) ==
    /\ pc[w] = "count"
    /\ room' = [room EXCEPT ![w] = BelowLimit]
    /\ Goto(w, "insert")
    /\ UNCHANGED <<now, table, updated, limitMu, target, sess, todo, log,
                   history>>

CreateSessionUnderActiveLimit(w) ==
    /\ pc[w] = "insert"
    /\ limitMu' = Nobody
    /\ room' = [room EXCEPT ![w] = FALSE]
    /\ \/ /\ room[w]
          /\ Insert(TRUE)
          /\ target' = [target EXCEPT ![w] = last + 1]
          /\ Goto(w, "audit_start")
       \/ /\ ~room[w] \/ last = MaxSessions
          /\ Return(w)
          /\ UNCHANGED table
    /\ UNCHANGED <<now, updated, sess, todo, log, history>>

AuditStart(w) ==
    /\ pc[w] = "audit_start"
    /\ started' = started \union {target[w]}
    /\ Return(w)
    /\ UNCHANGED <<now, table, updated, limitMu, sess, room, todo, completed,
                   forced, history>>

-----------------------------------------------------------------------------
(* Native RDP: FinishSession and FinishActiveSessions *)

\* The plugin finishes the session it was given.
FinishSession(w, i) ==
    /\ pc[w] = "idle"
    /\ i \in Created
    /\ Goto(w, "check")
    /\ target' = [target EXCEPT ![w] = i]
    /\ UNCHANGED <<now, table, updated, limitMu, sess, room, todo, log,
                   history>>

\* The proxy shuts down: ListActiveNativeRDPSessionIDs, then FinishSession on
\* each of them, in the order of their ids.
FinishActiveSessions(w) ==
    /\ pc[w] = "idle"
    /\ \E i \in ActiveNative :
          /\ \A j \in ActiveNative : i <= j
          /\ target' = [target EXCEPT ![w] = i]
          /\ todo' = [todo EXCEPT ![w] = ActiveNative \ {i}]
    /\ Goto(w, "check")
    /\ UNCHANGED <<now, table, updated, limitMu, sess, room, log, history>>

\* The end of one FinishSession: the next of the list, if there is one.
MutantFirstOnly(w) == Return(w) /\ UNCHANGED todo
Proceed(w) ==
    \/ /\ todo[w] = {}
       /\ Return(w)
       /\ UNCHANGED todo
    \/ \E i \in todo[w] :
          /\ \A j \in todo[w] : i <= j
          /\ Goto(w, "check")
          /\ target' = [target EXCEPT ![w] = i]
          /\ todo' = [todo EXCEPT ![w] = @ \ {i}]

\* GetSession: sessions that are not native are refused.
CheckNative(w) ==
    /\ pc[w] = "check"
    /\ \/ rows[target[w]].native /\ Goto(w, "finish") /\ UNCHANGED target
       \/ ~rows[target[w]].native /\ Return(w)
    /\ UNCHANGED <<now, table, updated, limitMu, sess, room, todo, log,
                   history>>

\* UPDATE ... WHERE id = ? AND is_finished = false: true for one caller only.
MutantFinishAgain(row) == TRUE
StillActive(row) == ~row.finished

FinishSessionOnce(w) ==
    /\ pc[w] = "finish"
    /\ \/ /\ StillActive(rows[target[w]])
          /\ rows' = [rows EXCEPT ![target[w]] = Finishing(@, FALSE)]
          /\ Written(w)
          /\ Goto(w, "audit_complete")
          /\ UNCHANGED <<target, todo>>
       \/ /\ ~StillActive(rows[target[w]])
          /\ Proceed(w)
          /\ UNCHANGED <<rows, stale>>
    /\ UNCHANGED <<now, last, updated, limitMu, sess, room, log, dropped,
                   failures>>

AuditComplete(w) ==
    /\ pc[w] = "audit_complete"
    /\ completed' = [completed EXCEPT ![target[w]] = @ + 1]
    /\ Proceed(w)
    /\ UNCHANGED <<now, table, updated, limitMu, sess, room, started, forced,
                   history>>

-----------------------------------------------------------------------------
(* Failures and time *)

\* What the workers in S had still to do is lost with them.
Drop(S) ==
    /\ failures < MaxFailures
    /\ failures' = failures + 1
    /\ pc' = [w \in Workers |-> IF w \in S THEN "idle" ELSE pc[w]]
    /\ target' = [w \in Workers |-> IF w \in S THEN 0 ELSE target[w]]
    /\ sess' = [w \in Workers |-> IF w \in S THEN NoRow ELSE sess[w]]
    /\ room' = [w \in Workers |-> IF w \in S THEN FALSE ELSE room[w]]
    /\ todo' = [w \in Workers |-> IF w \in S THEN {} ELSE todo[w]]
    /\ limitMu' = IF limitMu \in S THEN Nobody ELSE limitMu
    /\ stale' = stale \ S
    /\ dropped' = dropped
         \union {<<pc[w], target[w]>> : w \in S}
         \union UNION {{<<"check", i>> : i \in todo[w]} : w \in S}
    /\ UNCHANGED <<now, table, updated, log>>

\* A statement returns an error, for instance a busy database, and the handler
\* returns; what it had locked it unlocks.
StatementFails(w) ==
    /\ pc[w] \in {"write", "write_force", "count", "insert", "check", "finish"}
    /\ Drop({w})

\* Errors of the audit log are ignored: the handler goes on without the line.
AuditFails(w) ==
    /\ pc[w] \in {"audit_force", "audit_start", "audit_complete"}
    /\ failures < MaxFailures
    /\ failures' = failures + 1
    /\ dropped' = dropped \union {<<pc[w], target[w]>>}
    /\ Proceed(w)
    /\ UNCHANGED <<now, table, updated, limitMu, sess, room, log, stale>>

\* The server stops in the middle of everything and starts again.
Crash == /\ \E w \in Workers : pc[w] # "idle"
         /\ Drop({w \in Workers : pc[w] # "idle"})

Tick == /\ now < MaxTime
        /\ now' = now + 1
        /\ UNCHANGED <<table, updated, limitMu, local, log, history>>

-----------------------------------------------------------------------------

\* The requests a worker may be given.
Request(w) ==
    \/ \E i \in Ids, path \in BOOLEAN : ProxyUpdateSession(w, i, path)
    \/ \E i \in Ids : ForceFinishSession(w, i)
    \/ StartSession(w)
    \/ \E i \in Ids : FinishSession(w, i)
    \/ FinishActiveSessions(w)

\* The statements of the request it is handling.
Statement(w) ==
    \/ UpdateSession(w)
    \/ AuditForce(w)
    \/ LockLimit(w)
    \/ CountActive(w)
    \/ CreateSessionUnderActiveLimit(w)
    \/ AuditStart(w)
    \/ CheckNative(w)
    \/ FinishSessionOnce(w)
    \/ AuditComplete(w)

Failure(w) == StatementFails(w) \/ AuditFails(w)

Next == \/ CreateSession
        \/ \E w \in Workers : Request(w) \/ Statement(w) \/ Failure(w)
        \/ Crash
        \/ Tick

Spec == Init /\ [][Next]_vars

\* A handler that has begun goes on: the Go scheduler and the database serve
\* every goroutine.  Nobody is obliged to send requests.
Fairness == \A w \in Workers : WF_vars(Statement(w))

FairSpec == Spec /\ Fairness

-----------------------------------------------------------------------------
(* Properties *)

\* Never more than max_connections native RDP sessions are active, although
\* the count and the insert read the table at different moments.
NativeLimit == Cardinality(ActiveNative) <= Limit

\* A completion line is written at most once per session, however many of the
\* plugin, the shutdown cleanup and the administrators finish it together.
CompletedOnce == \A i \in Ids : completed[i] <= 1

\* A line of the audit log that a worker is about to write, or that a failure
\* right before it has lost.
Awaited(point, i) == \/ \E w \in Workers : pc[w] = point /\ target[w] = i
                     \/ <<point, i>> \in dropped

\* Every native session that was started or finished is in the audit log, by
\* whichever of the requests did it.
EventsAreLogged ==
    \A i \in Created : rows[i].native =>
        /\ i \in started \/ Awaited("audit_start", i)
        /\ rows[i].finished => \/ completed[i] = 1
                               \/ i \in forced
                               \/ Awaited("audit_complete", i)
                               \/ Awaited("audit_force", i)

\* A session has an end exactly when it is finished.
EndIffFinished ==
    \A i \in Created : rows[i].finished <=> rows[i].dateEnd # Open

\* A session that is over is never active again, whatever stale row a slow
\* request writes back: the freed slot may have been given away.
FinishedForGood ==
    [][\A i \in Created : rows[i].finished => rows'[i].finished]_vars

\* A stored end or recording is lost only to a request that read the row
\* before it was stored: requests that do not overlap lose nothing.
LossNeedsOverlap ==
    [][\A i \in Created :
          \/ rows[i].dateEnd # Open /\ rows'[i].dateEnd # rows[i].dateEnd
          \/ rows[i].recording /\ ~rows'[i].recording
          => \E w \in stale :
                /\ pc[w] \in {"write", "write_force"} /\ pc'[w] # pc[w]
                /\ target[w] = i]_vars

\* SessionService.Update overwrites the recording path only with a path it was
\* given.  (Violated: see the README.)
RecordingKept ==
    [][\A i \in Created : rows[i].recording => rows'[i].recording]_vars

\* The sessions a worker has still to finish, and those lost with a failure.
Listed(w) == todo[w] \union
             {i \in Ids : pc[w] \in {"check", "finish"} /\ target[w] = i}
Forgotten(i) == \E p \in {"check", "finish"} : <<p, i>> \in dropped

\* Whatever the others do meanwhile, the cleanup leaves no active session out on
\* the way through its list (rdp_native.go:260-280).
ListIsKept ==
    [][\A w \in Workers : \A i \in Listed(w) \intersect ActiveNative :
          \/ i \in Listed(w)'
          \/ rows'[i].finished
          \/ Forgotten(i)']_vars

\* Every session the shutdown cleanup listed is finished in the end, unless a
\* failure dropped the cleanup.
CleanupDrains ==
    /\ ListIsKept
    /\ \A w \in Workers, i \in Ids :
          i \in Listed(w) \intersect ActiveNative
          ~> \/ i \in Created /\ rows[i].finished
             \/ Forgotten(i)

=============================================================================
