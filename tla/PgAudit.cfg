\* Everything a PostgreSQL client may send, pipelined, with one line of the log
\* lost; or a MySQL client; or a shell behind the command filter.
SPECIFICATION MCSpec
CONSTANTS
    NoText = NoText
    Prepared = prepared
    A = A
    B = B
    Names <- AllNames
    Portals <- TwoPortals
    Requests <- MixedRequests
    Pipelining = TRUE
    MaxMessages = 4
    MaxUnderWay = 2
    MaxFailures = 1
    \* Results of no and one column, and of the first number of columns that
    \* takes three bytes: by then the number of the packets has wrapped round.
    ColumnCounts = {0, 1, 251}
    MaxRows = 4
    MaxCommands = 2
    Window = 2
    Bytes <- MCBytes
    Blanks <- MCBlanks
    Controls <- MCControls
    LineEnds <- MCLineEnds
    RuleLists <- MCRuleLists
    Buffer = 2
    MaxBytes = 5
CONSTRAINT Regimes
INVARIANTS
    AuditedInOrder
    QuietIsSettled
    AuditIsTrue
    ExecutedIsRecorded
    AnswersInStep
    FilteredAsWhole
CHECK_DEADLOCK FALSE
