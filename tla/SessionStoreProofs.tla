------------------------- MODULE SessionStoreProofs -------------------------
(***************************************************************************)
(* Proofs about SessionStore, for any number of workers and sessions, any  *)
(* limit and any number of failures.                                       *)
(***************************************************************************)
EXTENDS SessionStore, FiniteSetTheorems, TLAPS

Writing == {"write", "write_force"}
Finishers == {"check", "finish", "audit_complete"}

\* Ids are given out one by one, and a session has an end iff it is finished.
TableOK ==
    \A i \in Ids :
        /\ rows[i] # NoRow <=> i <= last
        /\ rows[i] # NoRow => (rows[i].finished <=> rows[i].dateEnd # Open)

\* What a worker holds at each statement.
WorkerOK ==
    \A w \in Workers :
        /\ pc[w] \in Writing =>
              /\ sess[w] \in Rows
              /\ sess[w].finished /\ sess[w].dateEnd # Open
        /\ pc[w] \in Writing \union Finishers \union {"audit_force", "audit_start"}
              => target[w] \in 1..last
        /\ todo[w] \subseteq 1..last
        /\ pc[w] \in {"count", "insert"} <=> limitMu = w

\* Who has a completion line to write: one worker per session, and no line
\* has been written yet.
CompletionOK ==
    /\ \A w \in Workers : pc[w] = "audit_complete" =>
          /\ rows[target[w]].finished
          /\ completed[target[w]] = 0
    /\ \A v, w \in Workers :
          pc[v] = "audit_complete" /\ pc[w] = "audit_complete"
             /\ target[v] = target[w] => v = w
    /\ \A i \in Ids : completed[i] > 0 =>
          /\ completed[i] = 1
          /\ rows[i] # NoRow /\ rows[i].finished

IInv == TypeOK /\ TableOK /\ WorkerOK /\ CompletionOK

-----------------------------------------------------------------------------
(* Lemmas about rows *)

\* Finishing a row ends it and keeps its kind.
LEMMA FinishingRow ==
    ASSUME NEW row \in Rows, NEW path \in BOOLEAN, now \in Nat
    PROVE  /\ Finishing(row, path) \in Rows
           /\ Finishing(row, path).finished
           /\ Finishing(row, path).dateEnd # Open
           /\ Finishing(row, path).native = row.native
           /\ Finishing(row, path) # NoRow
  <1>1. Finishing(row, path) \in Rows
      BY DEF Finishing, Rows
  <1>2. /\ Finishing(row, path).finished = TRUE
        /\ Finishing(row, path).native = row.native
        /\ Finishing(row, path).dateEnd =
              IF row.dateEnd = Open THEN now ELSE row.dateEnd
      BY DEF Finishing, Rows
  <1>3. Finishing(row, path).dateEnd # Open
      BY <1>2 DEF Rows, Open
  <1> QED BY <1>1, <1>2, <1>3, NoRowType

LEMMA NewRowRow ==
    ASSUME NEW native \in BOOLEAN
    PROVE  /\ NewRow(native) \in Rows /\ NewRow(native) # NoRow
           /\ ~NewRow(native).finished /\ NewRow(native).dateEnd = Open
           /\ NewRow(native).native = native
  <1>1. NewRow(native) \in Rows
      BY DEF NewRow, Rows
  <1> QED BY <1>1, NoRowType DEF NewRow

\* An insertion keeps the table in order and the old rows as they are.
LEMMA InsertTable ==
    ASSUME TypeOK, TableOK, NEW native \in BOOLEAN, Insert(native)
    PROVE  /\ rows' \in [Ids -> Rows \union {NoRow}]
           /\ last' = last + 1 /\ last' \in Ids
           /\ TableOK'
           /\ rows[last'] = NoRow /\ rows'[last'] = NewRow(native)
           /\ \A i \in Ids \ {last'} : rows'[i] = rows[i]
           /\ 1..last \subseteq 1..last'
  <1>1. last + 1 \in Ids /\ last \in Nat
      BY BoundsType DEF Insert, TypeOK, Ids
  <1>2. rows[last + 1] = NoRow
      BY <1>1 DEF TableOK
  <1>3. /\ rows' \in [Ids -> Rows \union {NoRow}]
        /\ rows'[last + 1] = NewRow(native)
        /\ \A i \in Ids \ {last + 1} : rows'[i] = rows[i]
      BY <1>1, NewRowRow DEF Insert, TypeOK
  <1>4. TableOK'
      BY <1>1, <1>3, NewRowRow, BoundsType DEF Insert, TableOK, Ids
  <1> QED BY <1>1, <1>2, <1>3, <1>4 DEF Insert

\* What the rest of the invariant needs to know of an insertion.
LEMMA InsertFacts ==
    ASSUME TypeOK, TableOK, NEW native \in BOOLEAN, Insert(native)
    PROVE  /\ rows' \in [Ids -> Rows \union {NoRow}]
           /\ last' \in 0..MaxSessions
           /\ TableOK'
           /\ last + 1 \in 1..last' /\ last + 1 \in 0..MaxSessions
           /\ 1..last \subseteq 1..last'
           /\ \A i \in 1..last : i \in Ids /\ rows'[i] = rows[i]
           /\ \A i \in Ids : rows[i] # NoRow => rows'[i] = rows[i]
  <1>1. /\ rows' \in [Ids -> Rows \union {NoRow}]
        /\ last' = last + 1 /\ last' \in Ids
        /\ TableOK'
        /\ rows[last'] = NoRow
        /\ \A i \in Ids \ {last'} : rows'[i] = rows[i]
        /\ 1..last \subseteq 1..last'
      BY InsertTable
  <1>2. last \in 0..MaxSessions
      BY DEF TypeOK
  <1>3. \A i \in 1..last : i \in Ids /\ i # last'
      BY <1>1, <1>2, BoundsType DEF Ids
  <1> QED BY <1>1, <1>2, <1>3, BoundsType DEF Ids

LEMMA InitIInv == Init => IInv
  <1> SUFFICES ASSUME Init PROVE IInv
      OBVIOUS
  <1>1. TypeOK
      BY BoundsType DEF Init, TypeOK, Points
  <1>2. TableOK
      BY BoundsType DEF Init, TableOK, Ids
  <1>3. WorkerOK
      BY NobodyType DEF Init, WorkerOK, Writing, Finishers
  <1>4. CompletionOK
      BY DEF Init, CompletionOK
  <1> QED BY <1>1, <1>2, <1>3, <1>4 DEF IInv

\* A step that neither writes a row nor a completion line, and brings no
\* worker to the point of writing one, keeps those two parts.
LEMMA QuietFrame ==
    ASSUME TableOK, CompletionOK, UNCHANGED <<rows, last, completed>>,
           \A w \in Workers : pc'[w] = "audit_complete" =>
              pc[w] = "audit_complete" /\ target'[w] = target[w]
    PROVE  TableOK' /\ CompletionOK'
  BY DEF TableOK, CompletionOK

-----------------------------------------------------------------------------
(* One lemma per group of actions *)

LEMMA CreateIInv == ASSUME IInv, CreateSession PROVE IInv'
  <1> USE DEF IInv
  <1>1. /\ rows' \in [Ids -> Rows \union {NoRow}]
        /\ last' \in 0..MaxSessions
        /\ TableOK'
        /\ 1..last \subseteq 1..last'
        /\ \A i \in 1..last : i \in Ids /\ rows'[i] = rows[i]
        /\ \A i \in Ids : rows[i] # NoRow => rows'[i] = rows[i]
      BY InsertFacts DEF CreateSession
  <1>2. UNCHANGED <<now, updated, limitMu, local, log, history>>
      BY DEF CreateSession
  <1>3. TypeOK'
      BY <1>1, <1>2 DEF TypeOK, local, log, history
  <1>4. WorkerOK'
      BY <1>1, <1>2 DEF WorkerOK, local
  <1>5. CompletionOK'
      BY <1>1, <1>2 DEF CompletionOK, WorkerOK, Finishers, local, log
  <1> QED BY <1>1, <1>3, <1>4, <1>5

LEMMA ReadIInv ==
    ASSUME IInv, NEW w \in Workers, NEW i \in Ids, NEW path \in BOOLEAN,
           ProxyUpdateSession(w, i, path) \/ ForceFinishSession(w, i)
    PROVE  IInv'
  <1> USE DEF IInv, table, log, history
  <1>1. PICK p \in BOOLEAN, next \in Writing : ReadForUpdate(w, i, p, next)
      BY DEF ProxyUpdateSession, ForceFinishSession, Writing
  <1>2. updated' \subseteq Ids
      BY DEF ProxyUpdateSession, ForceFinishSession, TypeOK
  <1>3. rows[i] \in Rows /\ i \in 1..last
      BY <1>1 DEF ReadForUpdate, Created, TypeOK, TableOK, Ids
  <1>4. /\ Finishing(rows[i], p) \in Rows
        /\ Finishing(rows[i], p).finished
        /\ Finishing(rows[i], p).dateEnd # Open
      BY <1>3, FinishingRow DEF TypeOK
  <1>5. TypeOK'
      BY <1>1, <1>2, <1>4, BoundsType
         DEF ReadForUpdate, Goto, TypeOK, Points, Writing, Ids
  <1>6. WorkerOK'
      BY <1>1, <1>3, <1>4
         DEF ReadForUpdate, Goto, TypeOK, WorkerOK, Writing, Finishers
  <1>7. TableOK' /\ CompletionOK'
      BY <1>1, QuietFrame DEF ReadForUpdate, Goto, TypeOK, Writing
  <1> QED BY <1>5, <1>6, <1>7

\* StartSession, LockLimit, CountActive
LEMMA StartIInv ==
    ASSUME IInv, NEW w \in Workers,
           StartSession(w) \/ LockLimit(w) \/ CountActive(w)
    PROVE  IInv'
  <1> USE DEF IInv, StartSession, LockLimit, CountActive, Goto, table, log,
              history
  <1> BelowLimit \in BOOLEAN
      BY DEF BelowLimit
  <1>1. TypeOK'
      BY DEF TypeOK, Points
  <1>2. WorkerOK'
      BY NobodyType DEF TypeOK, WorkerOK, Writing, Finishers, MutexFree
  <1>3. TableOK' /\ CompletionOK'
      BY QuietFrame DEF TypeOK
  <1> QED BY <1>1, <1>2, <1>3

LEMMA FinishRequestIInv ==
    ASSUME IInv, NEW w \in Workers,
           (\E i \in Ids : FinishSession(w, i)) \/ FinishActiveSessions(w)
    PROVE  IInv'
  <1> USE DEF IInv, table, log, history, Goto
  <1>1. PICK i \in Ids :
           /\ i \in Created
           /\ target' = [target EXCEPT ![w] = i]
           /\ pc[w] = "idle" /\ pc' = [pc EXCEPT ![w] = "check"]
           /\ \/ UNCHANGED todo
              \/ todo' = [todo EXCEPT ![w] = ActiveNative \ {i}]
           /\ UNCHANGED <<now, table, updated, limitMu, sess, room, log, history>>
      BY DEF FinishSession, FinishActiveSessions, ActiveNative, Created
  <1>2. /\ last \in 0..MaxSessions
        /\ 1..last \subseteq Ids
        /\ Created \subseteq 1..last /\ ActiveNative \subseteq 1..last
      BY BoundsType DEF Created, ActiveNative, TableOK, TypeOK, Ids
  <1>3. /\ i \in 1..last /\ i \in 0..MaxSessions
        /\ ActiveNative \ {i} \subseteq 1..last
      BY <1>1, <1>2, BoundsType
  <1>4. todo' \in [Workers -> SUBSET (1..last)]
      BY <1>1, <1>3 DEF TypeOK, WorkerOK
  <1>5. TypeOK'
    <2>1. todo' \in [Workers -> SUBSET Ids]
        BY <1>2, <1>4
    <2>2. target' \in [Workers -> 0..MaxSessions]
        BY <1>1, <1>3 DEF TypeOK
    <2> QED BY <1>1, <2>1, <2>2 DEF TypeOK, Points
  <1>6. WorkerOK'
      BY <1>1, <1>3, <1>4 DEF TypeOK, WorkerOK, Writing, Finishers
  <1>7. TableOK' /\ CompletionOK'
      BY <1>1, QuietFrame DEF TypeOK
  <1> QED BY <1>5, <1>6, <1>7

\* The row of w's session gets an end; its kind stays.
LEMMA WriteRow ==
    ASSUME TypeOK, TableOK, NEW i \in 1..last, NEW row \in Rows,
           row.finished, row.dateEnd # Open,
           rows' = [rows EXCEPT ![i] = row], UNCHANGED last
    PROVE  /\ rows' \in [Ids -> Rows \union {NoRow}]
           /\ TableOK'
           /\ rows'[i] = row /\ row # NoRow
           /\ \A j \in Ids \ {i} : rows'[j] = rows[j]
           /\ i \in Ids /\ rows[i] \in Rows
  <1>1. i \in Ids /\ i <= last
      BY BoundsType DEF TypeOK, Ids
  <1>2. rows[i] \in Rows
      BY <1>1 DEF TypeOK, TableOK
  <1>3. row # NoRow
      BY NoRowType
  <1> QED BY <1>1, <1>2, <1>3 DEF TypeOK, TableOK

LEMMA UpdateIInv ==
    ASSUME IInv, NEW w \in Workers, UpdateSession(w)
    PROVE  IInv'
  <1> USE DEF IInv, log
  <1>1. PICK i \in 1..last : i = target[w]
      BY DEF UpdateSession, WorkerOK, Writing
  <1>2. /\ sess[w] \in Rows /\ sess[w].finished /\ sess[w].dateEnd # Open
      BY DEF UpdateSession, WorkerOK, Writing
  <1>3. i \in Ids /\ rows[i] \in Rows
      BY <1>1, BoundsType DEF TypeOK, TableOK, Ids
  <1> DEFINE row == [rows[i] EXCEPT !.finished = sess[w].finished,
                                    !.dateEnd = sess[w].dateEnd,
                                    !.recording = sess[w].recording]
  <1>4. row \in Rows /\ row.finished = sess[w].finished
                     /\ row.dateEnd = sess[w].dateEnd
      BY <1>2, <1>3 DEF Rows
  <1>5. rows' = [rows EXCEPT ![i] = row] /\ UNCHANGED last
      BY <1>1 DEF UpdateSession
  <1>6. /\ rows' \in [Ids -> Rows \union {NoRow}]
        /\ TableOK'
        /\ rows'[i] = row /\ row # NoRow
        /\ \A j \in Ids \ {i} : rows'[j] = rows[j]
    <2> HIDE DEF row
    <2> QED BY <1>2, <1>4, <1>5, WriteRow
  <1>7. TypeOK'
    <2>1. target' \in [Workers -> 0..MaxSessions]
        BY BoundsType DEF UpdateSession, Return, TypeOK
    <2>2. pc' \in [Workers -> Points]
        BY DEF UpdateSession, Return, Goto, TypeOK, Points
    <2>3. stale' \subseteq Workers
        BY DEF UpdateSession, Written, Writers, TypeOK
    <2>4. sess' \in [Workers -> Rows \union {NoRow}]
        BY DEF UpdateSession, TypeOK
    <2>5. UNCHANGED <<now, last, updated, limitMu, room, todo, log, dropped,
                      failures>>
        BY DEF UpdateSession
    <2> QED BY <1>6, <2>1, <2>2, <2>3, <2>4, <2>5 DEF TypeOK
  <1>8. WorkerOK'
      BY <1>1, <1>5 DEF UpdateSession, Return, Goto, TypeOK, WorkerOK, Writing,
                        Finishers
  <1>9. CompletionOK'
    <2>1. \A x \in Workers : pc'[x] = "audit_complete" =>
             /\ pc[x] = "audit_complete" /\ target'[x] = target[x]
             /\ target[x] \in Ids
        BY DEF UpdateSession, Return, Goto, TypeOK, Ids, WorkerOK, Finishers
    <2>2. rows'[i].finished /\ rows'[i] # NoRow /\ UNCHANGED completed
        BY <1>2, <1>4, <1>6 DEF UpdateSession
    <2> HIDE DEF row
    <2> QED BY <1>6, <2>1, <2>2 DEF CompletionOK
  <1> QED BY <1>6, <1>7, <1>8, <1>9

\* The lines of the audit log other than completions, and refused finishes.
LEMMA LogIInv ==
    ASSUME IInv, NEW w \in Workers,
           AuditForce(w) \/ AuditStart(w) \/ CheckNative(w)
    PROVE  IInv'
  <1> USE DEF IInv, AuditForce, AuditStart, CheckNative, Return, Goto, table,
              log, history
  <1>1. target[w] \in 1..last /\ 1..last \subseteq Ids
      BY BoundsType DEF WorkerOK, Finishers, TypeOK, Ids
  <1>2. TypeOK'
      BY <1>1, BoundsType DEF TypeOK, Points
  <1>3. WorkerOK'
      BY DEF TypeOK, WorkerOK, Writing, Finishers
  <1>4. TableOK' /\ CompletionOK'
      BY QuietFrame DEF TypeOK
  <1> QED BY <1>2, <1>3, <1>4

LEMMA InsertIInv ==
    ASSUME IInv, NEW w \in Workers, CreateSessionUnderActiveLimit(w)
    PROVE  IInv'
  <1> USE DEF IInv, log, history
  <1>1. CASE Insert(TRUE) /\ target' = [target EXCEPT ![w] = last + 1]
                          /\ Goto(w, "audit_start")
    <2>1. /\ rows' \in [Ids -> Rows \union {NoRow}]
          /\ last' \in 0..MaxSessions
          /\ TableOK'
          /\ 1..last \subseteq 1..last'
          /\ last + 1 \in 1..last' /\ last + 1 \in 0..MaxSessions
          /\ \A i \in 1..last : i \in Ids /\ rows'[i] = rows[i]
          /\ \A i \in Ids : rows[i] # NoRow => rows'[i] = rows[i]
        BY <1>1, InsertFacts
    <2>2. /\ limitMu' = Nobody /\ pc[w] = "insert"
          /\ room' = [room EXCEPT ![w] = FALSE]
          /\ pc' = [pc EXCEPT ![w] = "audit_start"]
          /\ UNCHANGED <<now, updated, sess, todo, log, history>>
        BY <1>1 DEF CreateSessionUnderActiveLimit, Goto
    <2>3. target' \in [Workers -> 0..MaxSessions]
        BY <1>1, <2>1 DEF TypeOK
    <2>4. TypeOK'
        BY <2>1, <2>2, <2>3 DEF TypeOK, Points
    <2>5. WorkerOK'
      <3>1. limitMu = w
          BY <2>2 DEF WorkerOK
      <3> QED BY <1>1, <2>1, <2>2, <3>1, NobodyType
                 DEF TypeOK, WorkerOK, Writing, Finishers
    <2>6. CompletionOK'
      <3>1. \A x \in Workers : pc'[x] = "audit_complete" =>
               /\ pc[x] = "audit_complete" /\ target'[x] = target[x]
               /\ target[x] \in 1..last
          BY <1>1, <2>2 DEF TypeOK, WorkerOK, Finishers
      <3> QED BY <2>1, <2>2, <3>1 DEF CompletionOK, log
    <2> QED BY <2>1, <2>4, <2>5, <2>6
  <1>2. CASE Return(w) /\ UNCHANGED table
    <2> USE <1>2 DEF CreateSessionUnderActiveLimit, Return, Goto, table
    <2>1. TypeOK'
        BY BoundsType DEF TypeOK, Points
    <2>2. WorkerOK'
        BY NobodyType DEF TypeOK, WorkerOK, Writing, Finishers
    <2>3. TableOK' /\ CompletionOK'
        BY QuietFrame DEF TypeOK
    <2> QED BY <2>1, <2>2, <2>3
  <1> QED BY <1>1, <1>2 DEF CreateSessionUnderActiveLimit

\* Going on with the list, or returning, is a move the worker invariant allows.
LEMMA ProceedFacts ==
    ASSUME TypeOK, WorkerOK, NEW w \in Workers, Proceed(w),
           pc[w] \notin {"count", "insert"},
           UNCHANGED <<last, sess, limitMu>>
    PROVE  /\ pc' \in [Workers -> Points]
           /\ target' \in [Workers -> 0..MaxSessions]
           /\ todo' \in [Workers -> SUBSET Ids]
           /\ WorkerOK'
           /\ pc'[w] # "audit_complete"
           /\ \A x \in Workers \ {w} : pc'[x] = pc[x] /\ target'[x] = target[x]
  <1>1. PICK p \in {"idle", "check"}, i \in 0..MaxSessions, S \in SUBSET todo[w] :
           /\ pc' = [pc EXCEPT ![w] = p]
           /\ target' = [target EXCEPT ![w] = i]
           /\ todo' = [todo EXCEPT ![w] = S]
           /\ p = "check" => i \in todo[w]
    <2>1. CASE todo[w] = {} /\ Return(w) /\ UNCHANGED todo
      <3>1. /\ 0 \in 0..MaxSessions /\ todo' = [todo EXCEPT ![w] = {}]
            /\ pc' = [pc EXCEPT ![w] = "idle"]
            /\ target' = [target EXCEPT ![w] = 0]
          BY <2>1, BoundsType DEF TypeOK, Return, Goto
      <3> QED BY <3>1
    <2>2. ASSUME NEW i \in todo[w],
                 Goto(w, "check"),
                 target' = [target EXCEPT ![w] = i],
                 todo' = [todo EXCEPT ![w] = @ \ {i}]
          PROVE  \E p \in {"idle", "check"}, j \in 0..MaxSessions,
                    S \in SUBSET todo[w] :
                    /\ pc' = [pc EXCEPT ![w] = p]
                    /\ target' = [target EXCEPT ![w] = j]
                    /\ todo' = [todo EXCEPT ![w] = S]
                    /\ p = "check" => j \in todo[w]
      <3>1. i \in Ids /\ Ids \subseteq 0..MaxSessions
          BY BoundsType DEF TypeOK, Ids
      <3>2. todo[w] \ {i} \in SUBSET todo[w]
          OBVIOUS
      <3> QED BY <2>2, <3>1, <3>2 DEF Goto
    <2> QED BY <2>1, <2>2 DEF Proceed
  <1>2. pc' \in [Workers -> Points] /\ target' \in [Workers -> 0..MaxSessions]
      BY <1>1 DEF TypeOK, Points
  <1>3. todo' \in [Workers -> SUBSET Ids]
      BY <1>1 DEF TypeOK
  <1>4. WorkerOK'
      BY <1>1 DEF TypeOK, WorkerOK, Writing, Finishers
  <1> QED BY <1>1, <1>2, <1>3, <1>4 DEF TypeOK

LEMMA FinishOnceIInv ==
    ASSUME IInv, NEW w \in Workers, FinishSessionOnce(w)
    PROVE  IInv'
  <1> USE DEF IInv
  <1>1. PICK i \in 1..last : i = target[w]
      BY DEF FinishSessionOnce, WorkerOK, Finishers
  <1>2. i \in Ids /\ rows[i] \in Rows
      BY <1>1, BoundsType DEF TypeOK, TableOK, Ids
  <1>3. /\ pc[w] = "finish"
        /\ UNCHANGED <<now, last, updated, limitMu, sess, room, log, dropped,
                       failures>>
      BY DEF FinishSessionOnce
  <1>4. CASE /\ StillActive(rows[i])
             /\ rows' = [rows EXCEPT ![i] = Finishing(rows[i], FALSE)]
             /\ Written(w)
             /\ Goto(w, "audit_complete")
             /\ UNCHANGED <<target, todo>>
    <2> DEFINE row == Finishing(rows[i], FALSE)
    <2>1. row \in Rows /\ row.finished /\ row.dateEnd # Open
        BY <1>2, FinishingRow DEF TypeOK
    <2> HIDE DEF row
    <2>2. rows' = [rows EXCEPT ![i] = row] /\ UNCHANGED last
        BY <1>3, <1>4 DEF row
    <2>3. /\ rows' \in [Ids -> Rows \union {NoRow}]
          /\ TableOK'
          /\ rows'[i] = row /\ row # NoRow
          /\ \A j \in Ids \ {i} : rows'[j] = rows[j]
        BY <2>1, <2>2, WriteRow
    <2>4. TypeOK'
      <3>1. pc' \in [Workers -> Points]
          BY <1>4 DEF Goto, TypeOK, Points
      <3>2. stale' \subseteq Workers
          BY <1>4 DEF Written, Writers, TypeOK
      <3> QED BY <1>3, <1>4, <2>3, <3>1, <3>2 DEF TypeOK, log
    <2>5. WorkerOK'
        BY <1>3, <1>4 DEF Goto, TypeOK, WorkerOK, Writing, Finishers
    <2>6. CompletionOK'
      <3>1. ~rows[i].finished /\ rows[i] # NoRow
          BY <1>2, <1>4, NoRowType DEF StillActive
      <3>2. completed[i] = 0 /\ UNCHANGED completed
          BY <1>2, <1>3, <3>1 DEF CompletionOK, TypeOK, log
      <3>3. \A x \in Workers : pc[x] = "audit_complete" =>
               target[x] # i /\ target[x] \in Ids
          BY <3>1, BoundsType DEF CompletionOK, WorkerOK, TypeOK, Finishers, Ids
      <3>4. /\ target'[w] = i /\ UNCHANGED target
            /\ \A x \in Workers \ {w} : pc'[x] = pc[x]
          BY <1>1, <1>4 DEF Goto, TypeOK
      <3>5. \A x \in Workers : pc'[x] = "audit_complete" =>
               \/ x = w /\ target'[x] = i
               \/ /\ x # w /\ pc[x] = "audit_complete"
                  /\ target'[x] = target[x] /\ target[x] \in Ids \ {i}
          BY <3>3, <3>4
      <3>6. \A x \in Workers : pc'[x] = "audit_complete" =>
               /\ rows'[target'[x]].finished
               /\ completed'[target'[x]] = 0
          BY <2>1, <2>3, <3>2, <3>5 DEF CompletionOK
      <3>7. \A v, x \in Workers :
               pc'[v] = "audit_complete" /\ pc'[x] = "audit_complete"
                  /\ target'[v] = target'[x] => v = x
          BY <3>5 DEF CompletionOK
      <3>8. \A j \in Ids : completed'[j] > 0 =>
               /\ completed'[j] = 1
               /\ rows'[j] # NoRow /\ rows'[j].finished
        <4>1. \A j \in Ids : completed'[j] > 0 => j # i
            BY <3>2
        <4> QED BY <2>3, <3>2, <4>1 DEF CompletionOK
      <3> QED BY <3>6, <3>7, <3>8 DEF CompletionOK
    <2> QED BY <2>3, <2>4, <2>5, <2>6
  <1>5. CASE Proceed(w) /\ UNCHANGED <<rows, stale>>
    <2>1. /\ pc' \in [Workers -> Points]
          /\ target' \in [Workers -> 0..MaxSessions]
          /\ todo' \in [Workers -> SUBSET Ids]
          /\ WorkerOK'
          /\ pc'[w] # "audit_complete"
          /\ \A x \in Workers \ {w} : pc'[x] = pc[x] /\ target'[x] = target[x]
        BY <1>3, <1>5, ProceedFacts
    <2>2. TypeOK'
        BY <1>3, <1>5, <2>1 DEF TypeOK, log
    <2>3. TableOK' /\ CompletionOK'
        BY <1>3, <1>5, <2>1, QuietFrame DEF log
    <2> QED BY <2>1, <2>2, <2>3
  <1> QED BY <1>1, <1>4, <1>5 DEF FinishSessionOnce

\* The completion line: the only worker that had it to write has written it.
LEMMA AuditCompleteIInv ==
    ASSUME IInv, NEW w \in Workers, AuditComplete(w)
    PROVE  IInv'
  <1> USE DEF IInv
  <1>1. PICK i \in Ids : i = target[w]
      BY BoundsType DEF AuditComplete, WorkerOK, Finishers, TypeOK, Ids
  <1>2. /\ pc[w] = "audit_complete"
        /\ completed' = [completed EXCEPT ![i] = @ + 1]
        /\ Proceed(w)
        /\ UNCHANGED <<now, rows, last, updated, limitMu, sess, room, started,
                       forced, history>>
      BY <1>1 DEF AuditComplete, table
  <1>3. /\ pc' \in [Workers -> Points]
        /\ target' \in [Workers -> 0..MaxSessions]
        /\ todo' \in [Workers -> SUBSET Ids]
        /\ WorkerOK'
        /\ pc'[w] # "audit_complete"
        /\ \A x \in Workers \ {w} : pc'[x] = pc[x] /\ target'[x] = target[x]
      BY <1>2, ProceedFacts
  <1>4. completed[i] = 0 /\ rows[i].finished /\ rows[i] # NoRow
      BY <1>1, <1>2, BoundsType
         DEF CompletionOK, WorkerOK, Finishers, TableOK, TypeOK, Ids
  <1>5. completed' = [completed EXCEPT ![i] = 1]
      BY <1>2, <1>4
  <1>6. TypeOK'
      BY <1>2, <1>3, <1>5 DEF TypeOK, history
  <1>7. TableOK'
      BY <1>2 DEF TableOK
  <1>8. CompletionOK'
    <2>1. \A x \in Workers \ {w} : pc[x] = "audit_complete" => target[x] # i
        BY <1>1, <1>2 DEF CompletionOK
    <2> QED BY <1>2, <1>3, <1>4, <1>5, <2>1 DEF CompletionOK, TypeOK
  <1> QED BY <1>3, <1>6, <1>7, <1>8

LEMMA AuditFailsIInv ==
    ASSUME IInv, NEW w \in Workers, AuditFails(w)
    PROVE  IInv'
  <1> USE DEF IInv
  <1>1. /\ pc[w] \in {"audit_force", "audit_start", "audit_complete"}
        /\ failures' = failures + 1
        /\ dropped' = dropped \union {<<pc[w], target[w]>>}
        /\ Proceed(w)
        /\ UNCHANGED <<now, rows, last, updated, limitMu, sess, room, log, stale>>
      BY DEF AuditFails, table
  <1>2. /\ pc' \in [Workers -> Points]
        /\ target' \in [Workers -> 0..MaxSessions]
        /\ todo' \in [Workers -> SUBSET Ids]
        /\ WorkerOK'
        /\ pc'[w] # "audit_complete"
        /\ \A x \in Workers \ {w} : pc'[x] = pc[x] /\ target'[x] = target[x]
      BY <1>1, ProceedFacts
  <1>3. dropped' \subseteq Busy \X (0..MaxSessions)
      BY <1>1 DEF TypeOK, Busy, Points
  <1>4. TypeOK'
      BY <1>1, <1>2, <1>3 DEF TypeOK, log
  <1>5. TableOK' /\ CompletionOK'
      BY <1>1, <1>2, QuietFrame DEF log
  <1> QED BY <1>2, <1>4, <1>5

LEMMA DropIInv ==
    ASSUME IInv, NEW S \in SUBSET Workers, \A w \in S : pc[w] # "idle", Drop(S)
    PROVE  IInv'
  <1> USE DEF IInv, Drop, table, log
  <1>1. dropped' \subseteq Busy \X (0..MaxSessions)
    <2>1. \A w \in S : <<pc[w], target[w]>> \in Busy \X (0..MaxSessions)
        BY DEF TypeOK, Busy
    <2>2. \A w \in S : \A i \in todo[w] : <<"check", i>> \in Busy \X (0..MaxSessions)
        BY BoundsType DEF TypeOK, Busy, Points, Ids
    <2>3. dropped \subseteq Busy \X (0..MaxSessions)
        BY DEF TypeOK
    <2> QED BY <2>1, <2>2, <2>3
  <1>2. TypeOK'
    <2>1. /\ pc' \in [Workers -> Points]
          /\ target' \in [Workers -> 0..MaxSessions]
          /\ sess' \in [Workers -> Rows \union {NoRow}]
        BY BoundsType DEF TypeOK, Points
    <2>2. /\ room' \in [Workers -> BOOLEAN]
          /\ todo' \in [Workers -> SUBSET Ids]
        BY DEF TypeOK
    <2>3. /\ limitMu' \in Workers \union {Nobody}
          /\ stale' \subseteq Workers
          /\ failures' \in Nat
        BY DEF TypeOK
    <2>4. UNCHANGED <<now, rows, last, updated, started, completed, forced>>
        OBVIOUS
    <2> HIDE DEF Drop
    <2> QED BY <1>1, <2>1, <2>2, <2>3, <2>4 DEF TypeOK
  <1>3. WorkerOK'
      BY NobodyType DEF TypeOK, WorkerOK, Writing, Finishers
  <1>4. TableOK' /\ CompletionOK'
      BY QuietFrame DEF TypeOK
  <1> QED BY <1>2, <1>3, <1>4

LEMMA NextIInv == IInv /\ [Next]_vars => IInv'
  <1> SUFFICES ASSUME IInv, [Next]_vars PROVE IInv'
      OBVIOUS
  <1>1. ASSUME NEW w \in Workers, Request(w)
        PROVE  IInv'
      BY <1>1, ReadIInv, StartIInv, FinishRequestIInv DEF Request
  <1>2. ASSUME NEW w \in Workers, Statement(w)
        PROVE  IInv'
      BY <1>2, UpdateIInv, LogIInv, StartIInv, InsertIInv, FinishOnceIInv,
         AuditCompleteIInv DEF Statement
  <1>3. ASSUME NEW w \in Workers, Failure(w)
        PROVE  IInv'
    <2>1. CASE StatementFails(w)
      <3>1. {w} \in SUBSET Workers /\ Drop({w}) /\ \A x \in {w} : pc[x] # "idle"
          BY <2>1 DEF StatementFails
      <3> QED BY <3>1, DropIInv
    <2> QED BY <1>3, <2>1, AuditFailsIInv DEF Failure
  <1>4. CASE Crash
    <2>1. Drop({w \in Workers : pc[w] # "idle"})
        BY <1>4 DEF Crash
    <2> QED BY <2>1, DropIInv
  <1>5. CASE Tick
    <2> USE <1>5 DEF IInv, Tick, table, local, log, history
    <2>1. TypeOK'
        BY DEF TypeOK
    <2>2. WorkerOK'
        BY DEF WorkerOK
    <2>3. TableOK' /\ CompletionOK'
        BY QuietFrame
    <2> QED BY <2>1, <2>2, <2>3
  <1>6. CASE UNCHANGED vars
    <2> USE <1>6 DEF IInv, vars, table, local, log, history
    <2>1. TypeOK'
        BY DEF TypeOK
    <2>2. WorkerOK'
        BY DEF WorkerOK
    <2>3. TableOK' /\ CompletionOK'
        BY QuietFrame
    <2> QED BY <2>1, <2>2, <2>3
  <1> QED BY <1>1, <1>2, <1>3, <1>4, <1>5, <1>6, CreateIInv DEF Next

THEOREM Invariance == Spec => []IInv
  BY InitIInv, NextIInv, PTL DEF Spec

\* The type invariant (TypeOK).
THEOREM TypeCorrect == Spec => []TypeOK
  BY Invariance, PTL DEF IInv

\* CompletedOnce: FinishSessionOnce lets one request through per session, so
\* the audit log never has two completion lines for one.
THEOREM CompletionLoggedOnce == Spec => []CompletedOnce
  <1>1. IInv => CompletedOnce
      BY DEF IInv, TypeOK, CompletionOK, CompletedOnce
  <1> QED BY <1>1, Invariance, PTL

\* EndIffFinished: date_end is set exactly when is_finished is, through every
\* combination of unprotected updates.
THEOREM EndMatchesFlag == Spec => []EndIffFinished
  <1>1. IInv => EndIffFinished
      BY DEF IInv, TableOK, EndIffFinished, Created
  <1> QED BY <1>1, Invariance, PTL

-----------------------------------------------------------------------------
(* What one step does to the rows: finished for good, and the limit *)

\* No step deletes a row, changes its kind or makes it active again.
KeepsRows ==
    \A i \in Created : /\ rows'[i] # NoRow
                       /\ rows'[i].native = rows[i].native
                       /\ rows[i].finished => rows'[i].finished

LEMMA InsertKeeps ==
    ASSUME TypeOK, TableOK, NEW native \in BOOLEAN, Insert(native)
    PROVE  /\ KeepsRows
           /\ ActiveNative' \subseteq ActiveNative \union {last + 1}
           /\ ~native => ActiveNative' \subseteq ActiveNative
  <1>1. /\ rows[last + 1] = NoRow /\ rows'[last + 1] = NewRow(native)
        /\ \A i \in Ids \ {last + 1} : rows'[i] = rows[i]
      BY InsertTable
  <1>2. NewRow(native).native = native
      BY NewRowRow
  <1> QED BY <1>1, <1>2 DEF KeepsRows, Created, ActiveNative

LEMMA WriteKeeps ==
    ASSUME NEW i \in Ids, NEW row, row # NoRow, row.finished,
           row.native = rows[i].native,
           TypeOK, rows' = [rows EXCEPT ![i] = row]
    PROVE  KeepsRows /\ (rows[i] # NoRow => ActiveNative' \subseteq ActiveNative)
  <1>1. rows'[i] = row /\ \A j \in Ids \ {i} : rows'[j] = rows[j]
      BY DEF TypeOK
  <1> QED BY <1>1 DEF KeepsRows, Created, ActiveNative

LEMMA WhoWrites ==
    ASSUME [Next]_vars
    PROVE  \/ UNCHANGED rows
           \/ CreateSession
           \/ \E w \in Workers : \/ CreateSessionUnderActiveLimit(w)
                                 \/ UpdateSession(w)
                                 \/ FinishSessionOnce(w)
  BY DEF Next, Request, Statement, Failure, Crash, Tick, ProxyUpdateSession,
         ForceFinishSession, ReadForUpdate, StartSession, FinishSession,
         FinishActiveSessions, AuditForce, LockLimit, CountActive,
         AuditStart, CheckNative, AuditComplete, StatementFails,
         AuditFails, Drop, table, vars

\* Only CreateSessionUnderActiveLimit makes a native session active, and only
\* for a worker whose count left room.
LEMMA RowsStep ==
    ASSUME IInv, [Next]_vars
    PROVE  /\ KeepsRows
           /\ \/ ActiveNative' \subseteq ActiveNative
              \/ \E w \in Workers :
                    /\ pc[w] = "insert" /\ room[w]
                    /\ pc' = [pc EXCEPT ![w] = "audit_start"]
                    /\ ActiveNative' \subseteq ActiveNative \union {last + 1}
  <1> USE DEF IInv
  <1>1. CASE UNCHANGED rows
      BY <1>1 DEF KeepsRows, Created, ActiveNative
  <1>2. CASE CreateSession
      BY <1>2, InsertKeeps DEF CreateSession
  <1>3. ASSUME NEW w \in Workers, CreateSessionUnderActiveLimit(w)
        PROVE  /\ KeepsRows
               /\ \/ ActiveNative' \subseteq ActiveNative
                  \/ /\ pc[w] = "insert" /\ room[w]
                     /\ pc' = [pc EXCEPT ![w] = "audit_start"]
                     /\ ActiveNative' \subseteq ActiveNative \union {last + 1}
    <2>1. CASE Insert(TRUE) /\ pc[w] = "insert" /\ room[w] /\ Goto(w, "audit_start")
        BY <2>1, InsertKeeps DEF Goto
    <2>2. CASE UNCHANGED rows
        BY <2>2 DEF KeepsRows, Created, ActiveNative
    <2> QED BY <1>3, <2>1, <2>2 DEF CreateSessionUnderActiveLimit, table
  <1>4. ASSUME NEW w \in Workers, UpdateSession(w)
        PROVE  KeepsRows /\ ActiveNative' \subseteq ActiveNative
    <2>1. PICK i \in 1..last : i = target[w]
        BY <1>4 DEF UpdateSession, WorkerOK, Writing
    <2>2. /\ i \in Ids /\ rows[i] \in Rows /\ rows[i] # NoRow
          /\ sess[w] \in Rows /\ sess[w].finished
        BY <1>4, <2>1, BoundsType
           DEF UpdateSession, TypeOK, TableOK, WorkerOK, Writing, Ids
    <2> DEFINE row == [rows[i] EXCEPT !.finished = sess[w].finished,
                                      !.dateEnd = sess[w].dateEnd,
                                      !.recording = sess[w].recording]
    <2>3. row \in Rows /\ row.finished /\ row.native = rows[i].native
        BY <2>2 DEF Rows
    <2>4. rows' = [rows EXCEPT ![i] = row]
        BY <1>4, <2>1 DEF UpdateSession
    <2> HIDE DEF row
    <2> QED BY <2>2, <2>3, <2>4, WriteKeeps, NoRowType
  <1>5. ASSUME NEW w \in Workers, FinishSessionOnce(w), ~UNCHANGED rows
        PROVE  KeepsRows /\ ActiveNative' \subseteq ActiveNative
    <2>1. PICK i \in 1..last : i = target[w]
        BY <1>5 DEF FinishSessionOnce, WorkerOK, Finishers
    <2>2. i \in Ids /\ rows[i] \in Rows /\ rows[i] # NoRow
        BY <1>5, <2>1, BoundsType DEF TypeOK, TableOK, Ids
    <2> DEFINE row == Finishing(rows[i], FALSE)
    <2>3. row # NoRow /\ row.finished /\ row.native = rows[i].native
        BY <2>2, FinishingRow DEF TypeOK
    <2>4. rows' = [rows EXCEPT ![i] = row]
        BY <1>5, <2>1 DEF FinishSessionOnce
    <2> HIDE DEF row
    <2> QED BY <2>2, <2>3, <2>4, WriteKeeps
  <1> QED BY <1>1, <1>2, <1>3, <1>4, <1>5, WhoWrites

\* FinishedForGood: no request, however stale the row it read, makes a session
\* active again.
THEOREM NeverRevived == Spec => FinishedForGood
  <1>1. IInv /\ [Next]_vars =>
           [\A i \in Created : rows[i].finished => rows'[i].finished]_vars
      BY RowsStep DEF KeepsRows
  <1> QED BY <1>1, Invariance, PTL DEF Spec, FinishedForGood

LEMMA ActiveFinite ==
    IsFiniteSet(ActiveNative) /\ Cardinality(ActiveNative) \in Nat
  <1>1. IsFiniteSet(Ids)
      BY FS_Interval, BoundsType DEF Ids
  <1>2. ActiveNative \in SUBSET Ids
      BY DEF ActiveNative, Created
  <1> QED BY <1>1, <1>2, FS_Subset, FS_CardinalityType

\* The mutex makes the count still good when the row is inserted: meanwhile
\* sessions may end, but none can start.
LimitInv ==
    /\ NativeLimit
    /\ \A w \in Workers : pc[w] = "insert" /\ room[w] =>
          Cardinality(ActiveNative) < Limit

\* The steps there are, a failing statement and a crash being one kind.
LEMMA StepKinds ==
    ASSUME [Next]_vars
    PROVE  \/ \E w \in Workers : Request(w) \/ Statement(w) \/ AuditFails(w)
           \/ \E S \in SUBSET Workers : Drop(S)
           \/ CreateSession \/ Tick \/ UNCHANGED vars
  <1>1. ASSUME NEW w \in Workers, StatementFails(w)
        PROVE  \E S \in SUBSET Workers : Drop(S)
      BY <1>1 DEF StatementFails
  <1>2. Crash => \E S \in SUBSET Workers : Drop(S)
    <2>1. {w \in Workers : pc[w] # "idle"} \in SUBSET Workers
        OBVIOUS
    <2> QED BY <2>1 DEF Crash
  <1> QED BY <1>1, <1>2 DEF Next, Failure

LEMMA LimitStep == IInv /\ IInv' /\ LimitInv /\ [Next]_vars => LimitInv'
  <1> SUFFICES ASSUME IInv, IInv', LimitInv, [Next]_vars PROVE LimitInv'
      OBVIOUS
  <1> DEFINE n == Cardinality(ActiveNative)
             m == Cardinality(ActiveNative')
  <1>1. n \in Nat /\ m \in Nat /\ IsFiniteSet(ActiveNative) /\ n <= Limit
    <2>1. IsFiniteSet(Ids) /\ ActiveNative' \in SUBSET Ids
        BY FS_Interval, BoundsType DEF Ids, ActiveNative, Created
    <2> QED BY <2>1, ActiveFinite, FS_Subset, FS_CardinalityType
            DEF LimitInv, NativeLimit
  <1>2. CASE ActiveNative' \subseteq ActiveNative
    <2>1. m <= n
        BY <1>1, <1>2, FS_Subset
    <2>2. \A w \in Workers : pc'[w] = "insert" /\ room'[w] => n < Limit
      <3>1. ASSUME NEW w \in Workers, CountActive(w)
            PROVE  \A x \in Workers : pc'[x] = "insert" /\ room'[x] => n < Limit
          BY <3>1 DEF CountActive, Goto, BelowLimit, LimitInv, IInv, TypeOK
      <3>2. CASE \A w \in Workers : ~CountActive(w)
        <4>1. \A x \in Workers : pc'[x] = "insert" /\ room'[x] =>
                 pc[x] = "insert" /\ room[x]
          <5> DEFINE Quiet == \A x \in Workers :
                        pc'[x] = "insert" /\ room'[x] => pc[x] = "insert" /\ room[x]
          <5>1. ASSUME NEW w \in Workers, Request(w) PROVE Quiet
              BY <5>1 DEF Request, ProxyUpdateSession, ForceFinishSession,
                 ReadForUpdate, StartSession, FinishSession,
                 FinishActiveSessions, Goto, IInv, TypeOK
          <5>2. ASSUME NEW w \in Workers, Statement(w) PROVE Quiet
            <6>1. CASE UpdateSession(w) \/ AuditForce(w) \/ LockLimit(w)
                BY <6>1 DEF UpdateSession, AuditForce, LockLimit, Return, Goto,
                            IInv, TypeOK
            <6>2. CASE CreateSessionUnderActiveLimit(w) \/ AuditStart(w)
                          \/ CheckNative(w)
                BY <6>2 DEF CreateSessionUnderActiveLimit, AuditStart,
                            CheckNative, Return, Goto, IInv, TypeOK
            <6>3. CASE FinishSessionOnce(w) \/ AuditComplete(w)
                BY ZenonT(60), <6>3 DEF FinishSessionOnce, AuditComplete, Proceed, Return,
                            Goto, IInv, TypeOK
            <6> QED BY <3>2, <5>2, <6>1, <6>2, <6>3 DEF Statement
          <5>3. ASSUME NEW S \in SUBSET Workers, Drop(S) PROVE Quiet
              BY <5>3 DEF Drop
          <5>4. ASSUME NEW w \in Workers, AuditFails(w) PROVE Quiet
              BY <5>4 DEF AuditFails, Proceed, Return, Goto, IInv, TypeOK
          <5>5. CASE CreateSession \/ Tick \/ UNCHANGED vars
              BY <5>5 DEF CreateSession, Tick, vars, local
          <5> QED BY <5>1, <5>2, <5>3, <5>4, <5>5, StepKinds
        <4> QED BY <4>1 DEF LimitInv
      <3> QED BY <3>1, <3>2
    <2> QED BY <1>1, <2>1, <2>2, BoundsType DEF LimitInv, NativeLimit
  <1>3. ASSUME NEW w \in Workers,
               pc[w] = "insert", room[w],
               pc' = [pc EXCEPT ![w] = "audit_start"],
               ActiveNative' \subseteq ActiveNative \union {last + 1}
        PROVE  LimitInv'
    <2>1. n < Limit
        BY <1>3 DEF LimitInv
    <2>2. m <= n + 1
      <3>1. /\ IsFiniteSet(ActiveNative \union {last + 1})
            /\ Cardinality(ActiveNative \union {last + 1}) \in {n, n + 1}
          BY <1>1, FS_AddElement
      <3>2. m <= Cardinality(ActiveNative \union {last + 1})
          BY <1>3, <3>1, FS_Subset
      <3> QED BY <1>1, <3>1, <3>2
    <2>3. \A x \in Workers : pc'[x] # "insert"
        BY <1>3 DEF IInv, TypeOK, WorkerOK
    <2> QED BY <1>1, <2>1, <2>2, <2>3, BoundsType DEF LimitInv, NativeLimit
  <1> QED BY <1>2, <1>3, RowsStep

\* NativeLimit: max_connections holds although the count and the insert of
\* CreateSessionUnderActiveLimit may read the table at different moments.
THEOREM LimitRespected == Spec => []NativeLimit
  <1>1. Init => LimitInv
    <2> SUFFICES ASSUME Init PROVE LimitInv
        OBVIOUS
    <2>1. ActiveNative = {}
        BY DEF Init, ActiveNative, Created
    <2>2. Cardinality(ActiveNative) = 0
        BY <2>1, FS_EmptySet
    <2> QED BY <2>2, BoundsType DEF Init, LimitInv, NativeLimit
  <1>2. LimitInv => NativeLimit
      BY DEF LimitInv
  <1> QED BY <1>1, <1>2, LimitStep, Invariance, PTL DEF Spec

-----------------------------------------------------------------------------
(* What a write may lose: overlaps only *)

\* What a worker will write back keeps the end and the recording of the row,
\* unless the row was written since the worker read it.
Keeps(w) == LET row == rows[target[w]]
            IN  /\ row.dateEnd # Open => sess[w].dateEnd = row.dateEnd
                /\ row.recording => sess[w].recording
Fresh == \A w \in Workers : pc[w] \in Writing /\ w \notin stale => Keeps(w)

LEMMA FinishingKeeps ==
    ASSUME NEW row \in Rows, NEW path \in BOOLEAN
    PROVE  /\ row.dateEnd # Open => Finishing(row, path).dateEnd = row.dateEnd
           /\ row.recording => Finishing(row, path).recording
  BY DEF Finishing, Rows

\* A step that writes no row and begins no write.
LEMMA FreshFrame ==
    ASSUME Fresh, UNCHANGED <<rows, stale>>,
           \A w \in Workers : pc'[w] \in Writing =>
              pc[w] \in Writing /\ target'[w] = target[w] /\ sess'[w] = sess[w]
    PROVE  Fresh'
  BY DEF Fresh, Keeps

LEMMA ReadFresh ==
    ASSUME IInv, Fresh, NEW w \in Workers, NEW i \in Ids, NEW path \in BOOLEAN,
           NEW next \in Writing, ReadForUpdate(w, i, path, next)
    PROVE  Fresh'
  <1>1. rows[i] \in Rows
      BY DEF ReadForUpdate, Created, IInv, TypeOK
  <1>2. /\ target'[w] = i /\ sess'[w] = Finishing(rows[i], path)
        /\ \A x \in Workers \ {w} : /\ pc'[x] = pc[x] /\ target'[x] = target[x]
                                    /\ sess'[x] = sess[x]
        /\ UNCHANGED <<rows, stale>>
      BY DEF ReadForUpdate, Goto, IInv, TypeOK, table, history
  <1> QED BY <1>1, <1>2, FinishingKeeps DEF Fresh, Keeps

\* Whoever writes a row makes what the others have read of it stale.
LEMMA WriteFresh ==
    ASSUME IInv, Fresh, NEW w \in Workers, Written(w),
           UpdateSession(w) \/ FinishSessionOnce(w)
    PROVE  Fresh'
  <1>1. /\ \A x \in Workers \ {w} : /\ pc'[x] = pc[x] /\ target'[x] = target[x]
                                    /\ sess'[x] = sess[x]
        /\ pc'[w] \notin Writing
      BY DEF UpdateSession, FinishSessionOnce, Proceed, Return, Goto, Writing,
             IInv, TypeOK
  <1>2. \A j \in Ids : j # target[w] => rows'[j] = rows[j]
      BY DEF UpdateSession, FinishSessionOnce, IInv, TypeOK
  <1>3. ASSUME NEW x \in Workers \ {w}, pc[x] \in Writing, x \notin stale'
        PROVE  x \notin stale /\ target[x] # target[w] /\ target[x] \in Ids
    <2>1. target[x] \in Ids
        BY <1>3, BoundsType DEF IInv, WorkerOK, TypeOK, Ids
    <2> QED BY <1>3, <2>1 DEF Written, Writers, Writing
  <1> QED BY <1>1, <1>2, <1>3 DEF Fresh, Keeps

LEMMA InsertFresh ==
    ASSUME IInv, Fresh, NEW native \in BOOLEAN, Insert(native),
           UNCHANGED <<sess, stale>>,
           \A w \in Workers : pc'[w] \in Writing =>
              pc[w] \in Writing /\ target'[w] = target[w]
    PROVE  Fresh'
  <1>1. \A i \in 1..last : i \in Ids /\ rows'[i] = rows[i]
      BY InsertFacts DEF IInv
  <1>2. \A w \in Workers : pc[w] \in Writing => target[w] \in 1..last
      BY DEF IInv, WorkerOK
  <1> QED BY <1>1, <1>2 DEF Fresh, Keeps

LEMMA DropFresh ==
    ASSUME IInv, Fresh, NEW S \in SUBSET Workers, Drop(S)
    PROVE  Fresh'
  <1>1. \A w \in Workers : pc'[w] \in Writing =>
           /\ w \notin S /\ pc[w] \in Writing /\ target'[w] = target[w]
           /\ sess'[w] = sess[w] /\ (w \in stale => w \in stale')
      BY DEF Drop, Writing
  <1> QED BY <1>1 DEF Drop, table, Fresh, Keeps

LEMMA FreshStep == IInv /\ Fresh /\ [Next]_vars => Fresh'
  <1> SUFFICES ASSUME IInv, Fresh, [Next]_vars PROVE Fresh'
      OBVIOUS
  <1> USE DEF Writing
  <1>1. ASSUME NEW w \in Workers, Request(w) PROVE Fresh'
    <2>1. ASSUME NEW i \in Ids, NEW path \in BOOLEAN,
                 ProxyUpdateSession(w, i, path) PROVE Fresh'
        BY <2>1, ReadFresh DEF ProxyUpdateSession
    <2>2. ASSUME NEW i \in Ids, ForceFinishSession(w, i) PROVE Fresh'
        BY <2>2, ReadFresh DEF ForceFinishSession
    <2>3. CASE StartSession(w) \/ FinishActiveSessions(w)
               \/ \E i \in Ids : FinishSession(w, i)
        BY <2>3, FreshFrame DEF StartSession, FinishSession,
           FinishActiveSessions, Goto, IInv, TypeOK, table, history
    <2> QED BY <1>1, <2>1, <2>2, <2>3 DEF Request
  <1>2. ASSUME NEW w \in Workers, Statement(w) PROVE Fresh'
    <2>1. CASE UpdateSession(w)
        BY <2>1, WriteFresh DEF UpdateSession
    <2>2. CASE FinishSessionOnce(w)
      <3>1. CASE Written(w)
          BY <2>2, <3>1, WriteFresh
      <3>2. CASE Proceed(w) /\ UNCHANGED <<rows, stale>>
          BY <2>2, <3>2, FreshFrame DEF FinishSessionOnce, Proceed, Return,
             Goto, IInv, TypeOK
      <3> QED BY <2>2, <3>1, <3>2 DEF FinishSessionOnce
    <2>3. CASE CreateSessionUnderActiveLimit(w)
      <3>1. CASE Insert(TRUE) /\ Goto(w, "audit_start")
                 /\ target' = [target EXCEPT ![w] = last + 1]
        <4>1. \A x \in Workers : pc'[x] \in {"write", "write_force"} =>
                 pc[x] \in {"write", "write_force"} /\ target'[x] = target[x]
            BY <3>1 DEF Goto, IInv, TypeOK
        <4> QED BY <2>3, <3>1, <4>1, InsertFresh
                DEF CreateSessionUnderActiveLimit, history
      <3>2. CASE Return(w) /\ UNCHANGED table
          BY <2>3, <3>2, FreshFrame DEF CreateSessionUnderActiveLimit, Return,
             Goto, IInv, TypeOK, table, history
      <3> QED BY <2>3, <3>1, <3>2 DEF CreateSessionUnderActiveLimit
    <2>4. CASE AuditForce(w) \/ LockLimit(w) \/ CountActive(w)
        BY <2>4, FreshFrame DEF AuditForce, LockLimit, CountActive, Return,
           Goto, IInv, TypeOK, table, history
    <2>5. CASE AuditStart(w) \/ CheckNative(w) \/ AuditComplete(w)
        BY <2>5, FreshFrame DEF AuditStart, CheckNative, AuditComplete, Proceed,
           Return, Goto, IInv, TypeOK, table, history
    <2> QED BY <1>2, <2>1, <2>2, <2>3, <2>4, <2>5 DEF Statement
  <1>3. ASSUME NEW w \in Workers, AuditFails(w) PROVE Fresh'
      BY <1>3, FreshFrame DEF AuditFails, Proceed, Return, Goto, IInv, TypeOK,
         table
  <1>4. ASSUME NEW S \in SUBSET Workers, Drop(S) PROVE Fresh'
      BY <1>4, DropFresh
  <1>5. CASE CreateSession
    <2>1. UNCHANGED <<pc, target, sess, stale>>
        BY <1>5 DEF CreateSession, local, history
    <2> QED BY <1>5, <2>1, InsertFresh DEF CreateSession
  <1>6. CASE Tick \/ UNCHANGED vars
      BY <1>6, FreshFrame DEF Tick, vars, table, local, history
  <1> QED BY <1>1, <1>2, <1>3, <1>4, <1>5, <1>6, StepKinds

\* One step that takes an end or a recording away is a write of what was stale.
LEMMA LossStep ==
    ASSUME IInv, Fresh, [Next]_vars, NEW i \in Created,
           \/ rows[i].dateEnd # Open /\ rows'[i].dateEnd # rows[i].dateEnd
           \/ rows[i].recording /\ ~rows'[i].recording
    PROVE  \E w \in stale : /\ pc[w] \in {"write", "write_force"} /\ pc'[w] # pc[w]
                            /\ target[w] = i
  <1> USE DEF IInv
  <1>1. CASE CreateSession \/ \E w \in Workers : CreateSessionUnderActiveLimit(w)
    <2>1. UNCHANGED rows \/ Insert(TRUE) \/ Insert(FALSE)
        BY <1>1 DEF CreateSession, CreateSessionUnderActiveLimit, table
    <2>2. rows'[i] = rows[i]
        BY <2>1, InsertFacts DEF Created
    <2> QED BY <2>2
  <1>2. ASSUME NEW w \in Workers, FinishSessionOnce(w), rows'[i] # rows[i]
        PROVE  FALSE
    <2>1. i = target[w] /\ rows[i] \in Rows /\ ~rows[i].finished
          /\ rows'[i] = Finishing(rows[i], FALSE)
        BY <1>2 DEF FinishSessionOnce, StillActive, Created, TypeOK
    <2>2. rows[i].dateEnd = Open
        BY <2>1 DEF TableOK, Created
    <2> QED BY <2>1, <2>2, FinishingKeeps
  <1>3. ASSUME NEW w \in Workers, UpdateSession(w), rows'[i] # rows[i]
        PROVE  /\ w \in stale /\ pc'[w] # pc[w] /\ target[w] = i
               /\ pc[w] \in {"write", "write_force"}
    <2>1. /\ i = target[w] /\ rows[i] \in Rows /\ pc[w] \in Writing
          /\ sess[w] \in Rows
        BY <1>3 DEF UpdateSession, Created, TypeOK, WorkerOK, Writing
    <2>2. /\ rows'[i].dateEnd = sess[w].dateEnd
          /\ rows'[i].recording = sess[w].recording
        BY <1>3, <2>1 DEF UpdateSession, Created, TypeOK, Rows
    <2>3. pc'[w] \notin Writing
        BY <1>3 DEF UpdateSession, Return, Goto, TypeOK, Writing
    <2>4. ~Keeps(w)
        BY <2>1, <2>2 DEF Keeps
    <2> QED BY <2>1, <2>3, <2>4 DEF Fresh, Writing
  <1> QED BY <1>1, <1>2, <1>3, WhoWrites

\* LossNeedsOverlap: SessionService.Update takes an end or a recording away only
\* if the row was written between its read and its write.
THEOREM LossIsOverlap == Spec => LossNeedsOverlap
  <1>1. Init => Fresh
      BY DEF Init, Fresh, Writing
  <1>2. IInv /\ Fresh /\ [Next]_vars =>
           [\A i \in Created :
              (\/ rows[i].dateEnd # Open /\ rows'[i].dateEnd # rows[i].dateEnd
               \/ rows[i].recording /\ ~rows'[i].recording)
              => \E w \in stale :
                    /\ pc[w] \in {"write", "write_force"} /\ pc'[w] # pc[w]
                    /\ target[w] = i]_vars
      BY LossStep
  <1> QED BY <1>1, <1>2, FreshStep, Invariance, PTL DEF Spec, LossNeedsOverlap

-----------------------------------------------------------------------------
(* Who owes the audit log a line *)

\* Update without a line of its own is for web sessions only.
WebOnly == \A w \in Workers : pc[w] = "write" => ~rows[target[w]].native
LogInv == EventsAreLogged /\ WebOnly

\* Worker w has written the line it was about to write, or it was dropped.
Settles(w) ==
    \/ <<pc[w], target[w]>> \in dropped'
    \/ /\ pc[w] = "audit_start" => target[w] \in started'
       /\ pc[w] = "audit_force" => target[w] \in forced'
       /\ pc[w] = "audit_complete" => completed'[target[w]] = 1

\* No line is ever taken back.
LinesStay == /\ started \subseteq started' /\ forced \subseteq forced'
             /\ dropped \subseteq dropped'
             /\ \A i \in Ids : completed[i] = 1 => completed'[i] = 1

\* What one session needs in the log is kept by whoever goes on or settles.
LEMMA LineKept ==
    ASSUME EventsAreLogged, LinesStay, NEW i \in Created, i \in Ids,
           rows[i].native,
           \A w \in Workers : \/ pc'[w] = pc[w] /\ target'[w] = target[w]
                              \/ Settles(w)
    PROVE  /\ i \in started' \/ Awaited("audit_start", i)'
           /\ rows[i].finished => \/ completed'[i] = 1
                                  \/ i \in forced'
                                  \/ Awaited("audit_complete", i)'
                                  \/ Awaited("audit_force", i)'
  <1>1. i \in started' \/ Awaited("audit_start", i)'
      BY DEF EventsAreLogged, LinesStay, Awaited, Settles
  <1>2. CASE completed[i] = 1 \/ i \in forced
      BY <1>1, <1>2 DEF LinesStay
  <1>3. CASE Awaited("audit_complete", i)
    <2>1. completed'[i] = 1 \/ Awaited("audit_complete", i)'
        BY <1>3 DEF LinesStay, Awaited, Settles
    <2> QED BY <1>1, <2>1
  <1>4. CASE Awaited("audit_force", i)
    <2>1. i \in forced' \/ Awaited("audit_force", i)'
        BY <1>4 DEF LinesStay, Awaited, Settles
    <2> QED BY <1>1, <2>1
  <1> QED BY <1>1, <1>2, <1>3, <1>4 DEF EventsAreLogged

LEMMA LogFrame ==
    ASSUME LogInv, LinesStay, UNCHANGED rows,
           \A w \in Workers : \/ pc'[w] = pc[w] /\ target'[w] = target[w]
                              \/ Settles(w),
           \A w \in Workers : pc'[w] = "write" => ~rows[target'[w]].native
    PROVE  LogInv'
  <1>1. Created' = Created
      BY DEF Created
  <1>2. EventsAreLogged'
      BY <1>1, LineKept DEF LogInv, EventsAreLogged, Created
  <1> QED BY <1>2 DEF LogInv, WebOnly

LEMMA ReadLogged ==
    ASSUME IInv, LogInv, NEW w \in Workers, Request(w)
    PROVE  LogInv'
  <1> USE DEF IInv
  <1>1. /\ pc[w] = "idle" /\ UNCHANGED <<rows, log, dropped>>
        /\ \A x \in Workers \ {w} : pc'[x] = pc[x] /\ target'[x] = target[x]
      BY DEF Request, ProxyUpdateSession, ForceFinishSession, ReadForUpdate,
         StartSession, FinishSession, FinishActiveSessions, Goto, TypeOK, table,
         history
  <1>2. pc'[w] = "write" => ~rows[target'[w]].native
      BY DEF Request, ProxyUpdateSession, ForceFinishSession, ReadForUpdate,
         StartSession, FinishSession, FinishActiveSessions, Goto, TypeOK
  <1>3. LinesStay /\ Settles(w)
      BY <1>1 DEF LinesStay, Settles, log
  <1>4. \A x \in Workers : pc'[x] = "write" => ~rows[target'[x]].native
      BY <1>1, <1>2 DEF LogInv, WebOnly
  <1> QED BY <1>1, <1>3, <1>4, LogFrame

\* Statements that touch no row.
LEMMA QuietLogged ==
    ASSUME IInv, LogInv, NEW w \in Workers, UNCHANGED rows,
           \/ LockLimit(w) \/ CountActive(w) \/ CreateSessionUnderActiveLimit(w)
           \/ CheckNative(w) \/ FinishSessionOnce(w)
           \/ AuditForce(w) \/ AuditStart(w) \/ AuditComplete(w) \/ AuditFails(w)
    PROVE  LogInv'
  <1> USE DEF IInv, log, history, table
  <1> DEFINE Others == \A x \in Workers \ {w} : pc'[x] = pc[x] /\ target'[x] = target[x]
  <1>1. Others /\ pc'[w] # "write"
    <2>1. CASE LockLimit(w) \/ CountActive(w) \/ CheckNative(w)
        BY <2>1 DEF LockLimit, CountActive, CheckNative, Return, Goto, TypeOK
    <2>2. CASE CreateSessionUnderActiveLimit(w)
        BY <2>2 DEF CreateSessionUnderActiveLimit, Return, Goto, TypeOK
    <2>3. CASE FinishSessionOnce(w)
        BY <2>3 DEF FinishSessionOnce, Proceed, Return, Goto, TypeOK
    <2>4. CASE AuditForce(w) \/ AuditStart(w)
        BY <2>4 DEF AuditForce, AuditStart, Return, Goto, TypeOK
    <2>5. CASE AuditComplete(w) \/ AuditFails(w)
        BY <2>5 DEF AuditComplete, AuditFails, Proceed, Return, Goto, TypeOK
    <2> QED BY <2>1, <2>2, <2>3, <2>4, <2>5
  <1>2. LinesStay /\ Settles(w)
    <2>1. CASE LockLimit(w) \/ CountActive(w) \/ CheckNative(w)
               \/ CreateSessionUnderActiveLimit(w) \/ FinishSessionOnce(w)
        BY <2>1 DEF LinesStay, Settles, LockLimit, CountActive, CheckNative,
           CreateSessionUnderActiveLimit, FinishSessionOnce
    <2>2. CASE AuditForce(w)
        BY <2>2 DEF LinesStay, Settles, AuditForce
    <2>3. CASE AuditStart(w)
        BY <2>3 DEF LinesStay, Settles, AuditStart
    <2>4. CASE AuditComplete(w)
      <3>1. /\ target[w] \in Ids /\ completed[target[w]] = 0
            /\ completed' = [completed EXCEPT ![target[w]] = @ + 1]
          BY <2>4, BoundsType
             DEF AuditComplete, CompletionOK, WorkerOK, Finishers, TypeOK, Ids
      <3>2. completed'[target[w]] = 1 /\ \A i \in Ids : completed[i] = 1 => completed'[i] = 1
          BY <3>1 DEF TypeOK
      <3> QED BY <2>4, <3>2 DEF LinesStay, Settles, AuditComplete
    <2>5. CASE AuditFails(w)
        BY <2>5 DEF LinesStay, Settles, AuditFails
    <2> QED BY <2>1, <2>2, <2>3, <2>4, <2>5
  <1>3. \A x \in Workers : pc'[x] = "write" => ~rows[target'[x]].native
      BY <1>1 DEF LogInv, WebOnly
  <1> QED BY <1>1, <1>2, <1>3, LogFrame

\* A session that is finished now has its finisher, who owes the line.
LEMMA WriteLogged ==
    ASSUME IInv, LogInv, NEW w \in Workers, KeepsRows,
           UpdateSession(w) \/ (FinishSessionOnce(w) /\ ~UNCHANGED rows)
    PROVE  LogInv'
  <1> USE DEF IInv, log
  <1>1. /\ \A x \in Workers \ {w} : pc'[x] = pc[x] /\ target'[x] = target[x]
        /\ pc'[w] # "write" /\ UNCHANGED <<last, log, dropped>>
        /\ pc[w] \in {"write", "write_force", "finish"}
        /\ \A j \in Ids : j # target[w] => rows'[j] = rows[j]
        /\ target[w] \in 1..last
      BY ZenonT(60) DEF UpdateSession, FinishSessionOnce, Proceed, Return, Goto, TypeOK,
             WorkerOK, Writing, Finishers
  <1>2. LinesStay /\ Settles(w)
      BY <1>1 DEF LinesStay, Settles
  <1>3. target[w] \in Created
      BY <1>1, BoundsType DEF Created, TableOK, TypeOK, Ids
  <1>4. Created' = Created
      BY <1>1, <1>3 DEF Created, KeepsRows
  <1>5. rows[target[w]].native =>
           /\ target'[w] = target[w]
           /\ pc'[w] \in {"audit_force", "audit_complete"}
      BY DEF UpdateSession, FinishSessionOnce, Return, Goto, TypeOK, LogInv,
             WebOnly
  <1>6. EventsAreLogged'
    <2>1. ASSUME NEW j \in Created, rows'[j].native
          PROVE  /\ j \in started' \/ Awaited("audit_start", j)'
                 /\ rows'[j].finished => \/ completed'[j] = 1
                                         \/ j \in forced'
                                         \/ Awaited("audit_complete", j)'
                                         \/ Awaited("audit_force", j)'
      <3>1. j \in Ids /\ rows[j].native
          BY <2>1 DEF Created, KeepsRows
      <3>2. /\ j \in started' \/ Awaited("audit_start", j)'
            /\ rows[j].finished => \/ completed'[j] = 1
                                   \/ j \in forced'
                                   \/ Awaited("audit_complete", j)'
                                   \/ Awaited("audit_force", j)'
          BY <1>1, <1>2, <3>1, LineKept DEF LogInv
      <3>3. CASE j = target[w]
        <4>1. Awaited("audit_complete", j)' \/ Awaited("audit_force", j)'
            BY <1>5, <3>1, <3>3 DEF Awaited
        <4> QED BY <3>2, <4>1
      <3>4. CASE j # target[w]
          BY <1>1, <3>1, <3>2, <3>4
      <3> QED BY <3>3, <3>4
    <2> QED BY <1>4, <2>1 DEF EventsAreLogged
  <1>7. WebOnly'
    <2>1. ASSUME NEW x \in Workers, pc'[x] = "write"
          PROVE  ~rows'[target'[x]].native
      <3>1. pc[x] = "write" /\ target'[x] = target[x] /\ target[x] \in 1..last
          BY <1>1, <2>1 DEF WorkerOK, Writing
      <3>2. target[x] \in Created
          BY <3>1, BoundsType DEF Created, TableOK, TypeOK, Ids
      <3> QED BY <3>1, <3>2 DEF KeepsRows, LogInv, WebOnly
    <2> QED BY <2>1 DEF WebOnly
  <1> QED BY <1>6, <1>7 DEF LogInv

\* A new native session has its starter, who owes the line.
LEMMA InsertLogged ==
    ASSUME IInv, LogInv, NEW native \in BOOLEAN, Insert(native),
           UNCHANGED <<log, dropped>>,
           \/ ~native /\ UNCHANGED <<pc, target>>
           \/ \E w \in Workers : /\ pc[w] = "insert"
                                 /\ pc' = [pc EXCEPT ![w] = "audit_start"]
                                 /\ target' = [target EXCEPT ![w] = last + 1]
    PROVE  LogInv'
  <1> USE DEF IInv, log
  <1>1. /\ rows'[last + 1] = NewRow(native) /\ rows[last + 1] = NoRow
        /\ \A i \in Ids \ {last + 1} : rows'[i] = rows[i]
      BY InsertTable
  <1>2. ~NewRow(native).finished /\ NewRow(native).native = native
      BY NewRowRow
  <1>3. LinesStay /\ \A w \in Workers : \/ pc'[w] = pc[w] /\ target'[w] = target[w]
                                        \/ Settles(w)
      BY DEF LinesStay, Settles, TypeOK
  <1>4. EventsAreLogged'
    <2>1. ASSUME NEW j \in Ids, rows'[j] # NoRow, rows'[j].native
          PROVE  /\ j \in started' \/ Awaited("audit_start", j)'
                 /\ rows'[j].finished => \/ completed'[j] = 1
                                         \/ j \in forced'
                                         \/ Awaited("audit_complete", j)'
                                         \/ Awaited("audit_force", j)'
      <3>1. CASE j = last + 1
          BY <1>1, <1>2, <2>1, <3>1 DEF Awaited, TypeOK
      <3>2. CASE j # last + 1
        <4>1. j \in Created /\ rows[j] = rows'[j]
            BY <1>1, <2>1, <3>2 DEF Created
        <4> QED BY <1>3, <2>1, <4>1, LineKept DEF LogInv
      <3> QED BY <3>1, <3>2
    <2> QED BY <2>1 DEF EventsAreLogged, Created
  <1>5. WebOnly'
    <2>1. \A i \in 1..last : i \in Ids /\ rows'[i] = rows[i]
        BY InsertFacts
    <2>2. \A x \in Workers : pc'[x] = "write" =>
             pc[x] = "write" /\ target'[x] = target[x] /\ target[x] \in 1..last
        BY DEF TypeOK, WorkerOK, Writing
    <2> QED BY <2>1, <2>2 DEF LogInv, WebOnly
  <1> QED BY <1>4, <1>5 DEF LogInv

LEMMA DropLogged ==
    ASSUME IInv, LogInv, NEW S \in SUBSET Workers, Drop(S)
    PROVE  LogInv'
  <1>1. /\ UNCHANGED <<rows, log>> /\ dropped \subseteq dropped'
        /\ \A w \in S : <<pc[w], target[w]>> \in dropped' /\ pc'[w] = "idle"
        /\ \A w \in Workers \ S : pc'[w] = pc[w] /\ target'[w] = target[w]
      BY DEF Drop, table
  <1>2. LinesStay /\ \A w \in S : Settles(w)
      BY <1>1 DEF LinesStay, Settles, log
  <1>3. \A x \in Workers : pc'[x] = "write" => ~rows[target'[x]].native
      BY <1>1 DEF LogInv, WebOnly
  <1> QED BY <1>1, <1>2, <1>3, LogFrame

LEMMA LogStep == IInv /\ LogInv /\ [Next]_vars => LogInv'
  <1> SUFFICES ASSUME IInv, LogInv, [Next]_vars PROVE LogInv'
      OBVIOUS
  <1>1. ASSUME NEW w \in Workers, Statement(w) PROVE LogInv'
    <2>1. CASE \/ LockLimit(w) \/ CountActive(w) \/ CheckNative(w)
               \/ AuditForce(w) \/ AuditStart(w) \/ AuditComplete(w)
      <3>1. UNCHANGED rows
          BY <2>1 DEF LockLimit, CountActive, CheckNative, AuditForce,
             AuditStart, AuditComplete, table
      <3> QED BY <2>1, <3>1, QuietLogged
    <2>2. CASE UpdateSession(w) \/ (FinishSessionOnce(w) /\ ~UNCHANGED rows)
        BY <2>2, WriteLogged, RowsStep
    <2>3. CASE CreateSessionUnderActiveLimit(w) /\ ~UNCHANGED rows
      <3>1. /\ Insert(TRUE) /\ pc[w] = "insert"
            /\ pc' = [pc EXCEPT ![w] = "audit_start"]
            /\ target' = [target EXCEPT ![w] = last + 1]
            /\ UNCHANGED <<log, dropped>>
          BY <2>3 DEF CreateSessionUnderActiveLimit, Goto, table, history
      <3> QED BY <3>1, InsertLogged
    <2>4. CASE /\ CreateSessionUnderActiveLimit(w) \/ FinishSessionOnce(w)
               /\ UNCHANGED rows
        BY <2>4, QuietLogged
    <2> QED BY <1>1, <2>1, <2>2, <2>3, <2>4 DEF Statement
  <1>2. ASSUME NEW w \in Workers, AuditFails(w) PROVE LogInv'
      BY <1>2, QuietLogged DEF AuditFails, table
  <1>3. CASE CreateSession
      BY <1>3, InsertLogged DEF CreateSession, local, history
  <1>4. CASE Tick \/ UNCHANGED vars
    <2>1. UNCHANGED <<rows, pc, target, log, dropped>>
        BY <1>4 DEF Tick, vars, table, local, history
    <2>2. LinesStay
        BY <2>1 DEF LinesStay, log
    <2>3. \A x \in Workers : pc'[x] = "write" => ~rows[target'[x]].native
        BY <2>1 DEF LogInv, WebOnly
    <2>4. /\ UNCHANGED rows
          /\ \A w \in Workers : pc'[w] = pc[w] /\ target'[w] = target[w]
        BY <2>1
    <2> QED BY <2>2, <2>3, <2>4, LogFrame
  <1> QED BY <1>1, <1>2, <1>3, <1>4, StepKinds, ReadLogged, DropLogged

\* EventsAreLogged: whatever fails, a native session that was started or ended is
\* in the audit log, or its line is still to come or was lost by that failure.
THEOREM NoSilentSession == Spec => []EventsAreLogged
  <1>1. Init => LogInv
      BY DEF Init, LogInv, EventsAreLogged, WebOnly, Created
  <1>2. LogInv => EventsAreLogged
      BY DEF LogInv
  <1> QED BY <1>1, <1>2, LogStep, Invariance, PTL DEF Spec

-----------------------------------------------------------------------------
(* The list of the shutdown cleanup *)

\* Who has a list is at a statement of FinishSession, about a native session,
\* and so is every session of the list.
ListInv ==
    \A w \in Workers : todo[w] # {} =>
        /\ pc[w] \in Finishers
        /\ rows[target[w]].native
        /\ \A i \in todo[w] : rows[i].native

\* Only worker w moves, and its list does not grow.
GoesOn(w) ==
    /\ \A x \in Workers \ {w} : /\ pc'[x] = pc[x] /\ target'[x] = target[x]
                                /\ todo'[x] = todo[x]
    /\ todo'[w] # {} =>
          /\ todo'[w] \subseteq todo[w] /\ pc'[w] \in Finishers
          /\ target'[w] \in todo[w] \/ (target'[w] = target[w] /\ todo[w] # {})

\* An active session of a list stays in it, or is finished, or known to be lost.
ListKept(w) == \A i \in Listed(w) \intersect ActiveNative :
                  i \in Listed(w)' \/ rows'[i].finished \/ Forgotten(i)'

LEMMA ListFrame ==
    ASSUME IInv, ListInv, KeepsRows, NEW w \in Workers, GoesOn(w), ListKept(w)
    PROVE  ListInv' /\ \A x \in Workers : ListKept(x)
  <1>1. ASSUME NEW x \in Workers, todo[x] # {}
        PROVE  /\ rows'[target[x]].native
               /\ \A i \in todo[x] : rows'[i].native
    <2>1. target[x] \in 1..last /\ todo[x] \subseteq 1..last
        BY <1>1 DEF IInv, WorkerOK, ListInv
    <2>2. 1..last \subseteq Created
        BY BoundsType DEF IInv, TypeOK, TableOK, Created, Ids
    <2> QED BY <1>1, <2>1, <2>2 DEF ListInv, KeepsRows
  <1>2. ListInv'
      BY <1>1 DEF GoesOn, ListInv
  <1>3. \A x \in Workers \ {w} : Listed(x)' = Listed(x)
      BY DEF GoesOn, Listed
  <1> QED BY <1>2, <1>3 DEF ListKept

LEMMA ProceedGoesOn ==
    ASSUME IInv, ListInv, NEW w \in Workers, Proceed(w),
           pc[w] \in {"audit_force", "audit_start", "audit_complete"}
           \/ (pc[w] = "finish" /\ rows[target[w]].finished)
    PROVE  GoesOn(w) /\ ListKept(w)
  <1>1. GoesOn(w)
    <2>1. CASE todo[w] = {} /\ Return(w) /\ UNCHANGED todo
        BY <2>1 DEF IInv, TypeOK, Return, Goto, GoesOn
    <2>2. ASSUME NEW i \in todo[w], Goto(w, "check"),
                 target' = [target EXCEPT ![w] = i],
                 todo' = [todo EXCEPT ![w] = @ \ {i}]
          PROVE  GoesOn(w)
        BY <2>2 DEF IInv, TypeOK, Goto, GoesOn, Finishers
    <2> QED BY <2>1, <2>2 DEF Proceed
  <1>2. ASSUME NEW i \in todo[w]
        PROVE  i \in Listed(w)'
    <2>1. PICK j \in todo[w] : /\ Goto(w, "check")
                               /\ target' = [target EXCEPT ![w] = j]
                               /\ todo' = [todo EXCEPT ![w] = @ \ {j}]
        BY <1>2 DEF Proceed
    <2>2. /\ pc'[w] = "check" /\ target'[w] = j /\ todo'[w] = todo[w] \ {j}
          /\ i \in Ids
        BY <2>1 DEF IInv, TypeOK, Goto
    <2> QED BY <2>2 DEF Listed
  <1>3. \A i \in Listed(w) \intersect ActiveNative : i \in todo[w]
      BY DEF Listed, ActiveNative
  <1> QED BY <1>1, <1>2, <1>3 DEF ListKept

\* The statements of FinishSession: a session of the list is never refused.
LEMMA FinishingGoesOn ==
    ASSUME IInv, ListInv, NEW w \in Workers,
           CheckNative(w) \/ FinishSessionOnce(w) \/ AuditComplete(w)
    PROVE  GoesOn(w) /\ ListKept(w)
  <1>1. CASE CheckNative(w) /\ rows[target[w]].native
    <2>1. /\ pc[w] = "check" /\ pc' = [pc EXCEPT ![w] = "finish"]
          /\ UNCHANGED <<target, todo>>
        BY <1>1 DEF CheckNative, Goto
    <2>2. GoesOn(w)
        BY <2>1 DEF GoesOn, Finishers, IInv, TypeOK
    <2>3. Listed(w)' = Listed(w)
        BY <2>1 DEF Listed, IInv, TypeOK
    <2> QED BY <2>2, <2>3 DEF ListKept
  <1>2. CASE CheckNative(w) /\ ~rows[target[w]].native
    <2>1. /\ pc[w] = "check" /\ todo[w] = {} /\ UNCHANGED todo /\ Return(w)
        BY <1>2 DEF CheckNative, ListInv
    <2>2. GoesOn(w)
        BY <2>1 DEF GoesOn, Return, Goto, IInv, TypeOK
    <2>3. Listed(w) \intersect ActiveNative = {}
        BY <1>2, <2>1 DEF Listed, ActiveNative
    <2> QED BY <2>2, <2>3 DEF ListKept
  <1>3. CASE FinishSessionOnce(w) /\ StillActive(rows[target[w]])
    <2>1. /\ pc[w] = "finish" /\ pc' = [pc EXCEPT ![w] = "audit_complete"]
          /\ UNCHANGED <<target, todo>>
          /\ rows' = [rows EXCEPT ![target[w]] = Finishing(rows[target[w]], FALSE)]
        BY <1>3 DEF FinishSessionOnce, Goto
    <2>2. GoesOn(w)
        BY <2>1 DEF GoesOn, Finishers, IInv, TypeOK
    <2>3. ASSUME NEW i \in Listed(w), i \in ActiveNative
          PROVE  i \in Listed(w)' \/ rows'[i].finished
      <3>1. CASE i \in todo[w]
          BY <2>1, <3>1 DEF Listed
      <3>2. CASE i = target[w]
        <4>1. i \in Ids /\ rows[i] \in Rows
            BY <2>3 DEF ActiveNative, Created, IInv, TypeOK
        <4>2. rows'[i] = Finishing(rows[i], FALSE)
            BY <2>1, <3>2, <4>1 DEF IInv, TypeOK
        <4>3. FALSE \in BOOLEAN /\ now \in Nat
            BY DEF IInv, TypeOK
        <4>4. Finishing(rows[i], FALSE).finished
            BY <4>1, <4>3, FinishingRow
        <4> QED BY <4>2, <4>4
      <3> QED BY <2>3, <3>1, <3>2 DEF Listed
    <2> QED BY <2>2, <2>3 DEF ListKept
  <1>4. CASE FinishSessionOnce(w) /\ ~StillActive(rows[target[w]])
    <2>1. pc[w] = "finish" /\ rows[target[w]].finished /\ Proceed(w)
        BY <1>4 DEF FinishSessionOnce, StillActive
    <2> QED BY <2>1, ProceedGoesOn
  <1>5. CASE AuditComplete(w)
      BY <1>5, ProceedGoesOn DEF AuditComplete
  <1> QED BY <1>1, <1>2, <1>3, <1>4, <1>5

LEMMA ListStep ==
    ASSUME IInv, ListInv, [Next]_vars
    PROVE  ListInv' /\ \A x \in Workers : ListKept(x)
  <1>1. KeepsRows
      BY RowsStep
  <1>2. ASSUME NEW w \in Workers, Request(w)
        PROVE  ListInv' /\ \A x \in Workers : ListKept(x)
    <2>1. /\ pc[w] = "idle" /\ todo[w] = {} /\ Listed(w) = {} /\ UNCHANGED rows
          /\ \A x \in Workers \ {w} : /\ pc'[x] = pc[x] /\ target'[x] = target[x]
                                      /\ todo'[x] = todo[x]
        BY <1>2 DEF Request, ProxyUpdateSession, ForceFinishSession,
           ReadForUpdate, StartSession, FinishSession, FinishActiveSessions,
           Goto, ListInv, Finishers, Listed, IInv, TypeOK, table
    <2>2. CASE FinishActiveSessions(w)
      <3>1. /\ pc'[w] = "check" /\ target'[w] \in ActiveNative
            /\ todo'[w] \subseteq ActiveNative
          BY <2>2 DEF FinishActiveSessions, Goto, IInv, TypeOK
      <3>2. ListInv'
          BY <2>1, <3>1 DEF ListInv, Finishers, ActiveNative
      <3>3. \A x \in Workers \ {w} : Listed(x)' = Listed(x)
          BY <2>1 DEF Listed
      <3> QED BY <2>1, <3>2, <3>3 DEF ListKept
    <2>3. CASE ~FinishActiveSessions(w)
      <3>1. todo' = todo
          BY <1>2, <2>3 DEF Request, ProxyUpdateSession, ForceFinishSession,
             ReadForUpdate, StartSession, FinishSession
      <3>2. GoesOn(w) /\ ListKept(w)
          BY <2>1, <3>1 DEF GoesOn, ListKept
      <3> QED BY <1>1, <3>2, ListFrame
    <2> QED BY <2>2, <2>3
  <1>3. ASSUME NEW w \in Workers, Statement(w)
        PROVE  ListInv' /\ \A x \in Workers : ListKept(x)
    <2>1. CASE CheckNative(w) \/ FinishSessionOnce(w) \/ AuditComplete(w)
        BY <1>1, <2>1, FinishingGoesOn, ListFrame
    <2>2. CASE \/ UpdateSession(w) \/ AuditForce(w) \/ LockLimit(w)
               \/ CountActive(w) \/ CreateSessionUnderActiveLimit(w)
               \/ AuditStart(w)
      <3>1. pc[w] \notin Finishers /\ todo' = todo
          BY <2>2 DEF UpdateSession, AuditForce, LockLimit, CountActive,
             CreateSessionUnderActiveLimit, AuditStart, Finishers
      <3>2. todo[w] = {} /\ Listed(w) = {}
          BY <3>1 DEF ListInv, Listed, Finishers
      <3>3. \A x \in Workers \ {w} : pc'[x] = pc[x] /\ target'[x] = target[x]
          BY <2>2 DEF UpdateSession, AuditForce, LockLimit, CountActive,
             CreateSessionUnderActiveLimit, AuditStart, Return, Goto, IInv,
             TypeOK
      <3>4. GoesOn(w) /\ ListKept(w)
          BY <3>1, <3>2, <3>3 DEF GoesOn, ListKept
      <3> QED BY <1>1, <3>4, ListFrame
    <2> QED BY <1>3, <2>1, <2>2 DEF Statement
  <1>4. ASSUME NEW w \in Workers, AuditFails(w)
        PROVE  ListInv' /\ \A x \in Workers : ListKept(x)
    <2>1. GoesOn(w) /\ ListKept(w)
        BY <1>4, ProceedGoesOn DEF AuditFails
    <2> QED BY <1>1, <2>1, ListFrame
  <1>5. ASSUME NEW S \in SUBSET Workers, Drop(S)
        PROVE  ListInv' /\ \A x \in Workers : ListKept(x)
    <2>1. /\ UNCHANGED rows
          /\ \A x \in S : todo'[x] = {}
          /\ \A x \in Workers \ S : /\ pc'[x] = pc[x] /\ target'[x] = target[x]
                                    /\ todo'[x] = todo[x]
        BY <1>5 DEF Drop, table
    <2>2. ListInv'
        BY <2>1 DEF ListInv
    <2>3. ASSUME NEW x \in S, NEW i \in Listed(x)
          PROVE  Forgotten(i)'
      <3>1. CASE i \in todo[x]
        <4>1. <<"check", i>> \in dropped'
            BY <1>5, <3>1 DEF Drop
        <4> QED BY <4>1 DEF Forgotten
      <3>2. CASE pc[x] \in {"check", "finish"} /\ target[x] = i
        <4>1. <<pc[x], target[x]>> \in dropped'
            BY <1>5 DEF Drop
        <4> QED BY <3>2, <4>1 DEF Forgotten
      <3> QED BY <2>3, <3>1, <3>2 DEF Listed
    <2>4. \A x \in Workers \ S : Listed(x)' = Listed(x)
        BY <2>1 DEF Listed
    <2> QED BY <2>2, <2>3, <2>4 DEF ListKept
  <1>6. CASE CreateSession \/ Tick \/ UNCHANGED vars
    <2>1. UNCHANGED <<pc, target, todo>>
        BY <1>6 DEF CreateSession, Tick, vars, local
    <2>2. ASSUME NEW w \in Workers
          PROVE  ListInv' /\ \A x \in Workers : ListKept(x)
      <3>1. GoesOn(w) /\ ListKept(w)
          BY <2>1 DEF GoesOn, ListKept, Listed, ListInv
      <3> QED BY <1>1, <3>1, ListFrame
    <2>3. CASE Workers = {}
        BY <2>3 DEF ListInv
    <2> QED BY <2>2, <2>3
  <1> QED BY <1>2, <1>3, <1>4, <1>5, <1>6, StepKinds

\* ListIsKept, on which CleanupDrains rests: FinishActiveSessions meets every
\* session of its list that nobody else finishes, whatever runs beside it.
THEOREM ListIsWorkedOff == Spec => ListIsKept
  <1>1. Init => ListInv
      BY DEF Init, ListInv
  <1>2. IInv /\ ListInv /\ [Next]_vars =>
           [\A w \in Workers : \A i \in Listed(w) \intersect ActiveNative :
               \/ i \in Listed(w)'
               \/ rows'[i].finished
               \/ Forgotten(i)']_vars
      BY ListStep DEF ListKept
  <1>3. IInv /\ ListInv /\ [Next]_vars => ListInv'
      BY ListStep
  <1> QED BY <1>1, <1>2, <1>3, Invariance, PTL DEF Spec, ListIsKept

=============================================================================
