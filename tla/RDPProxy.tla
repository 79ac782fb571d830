------------------------------ MODULE RDPProxy ------------------------------
(***************************************************************************)
(* The RDP proxy and the life of its process.  Web connections become      *)
(* tunnels to guacd; native ones are served by an engine, a child process  *)
(* whose plugin talks to the API on its own.  Two goroutines stop the      *)
(* proxy, each on its own account: Server.Start, when the context ends or  *)
(* a listener fails, and main, through Server.Stop.  main does not wait    *)
(* for Start.                                                              *)
(*                                                                         *)
(* The API is either in the same process (--all), where main shuts it down *)
(* first, or in another one.  A request may fail or its answer be lost; a  *)
(* request of the API is one action here, SessionStore has its steps.      *)
(***************************************************************************)
EXTENDS Integers, FiniteSets

CONSTANTS Web,            \* connections to /ws/rdp/
          Native,         \* connections to the engine
          Limit           \* proxy.rdp.max_connections

ASSUME ConnectionsType == IsFiniteSet(Web) /\ IsFiniteSet(Native)
                          /\ Web \intersect Native = {}
ASSUME LimitType == Limit \in Nat \ {0}

Connections == Web \union Native
Stoppers == {"start", "main"}

VARIABLES
    together,   \* the API runs in this process
    cancelled,  \* the context of the process
    at,         \* [Stoppers -> Points]: Server.Start and main
    native,     \* Server.native holds the engine's handle
    mine,       \* stoppers that took the handle out of it
    http,       \* the proxy's listener
    engine, termed,     \* the child process, and whether it got SIGTERM
    conn,       \* [Connections -> ...]: how far each connection is
    slots,      \* limiter: taken slots
    row,        \* session rows
    lost,       \* history: web connections that lost a request about their row,
                \* and native ones that a lost cleanup was about
    late        \* history: native rows started after main's cleanup

process == <<together, cancelled, at, native, mine, http, engine, termed>>
sessions == <<conn, slots, row, lost, late>>
vars == <<process, sessions>>

Points == {"launch", "window", "serving", "running", "api", "take", "post",
           "term", "wait", "http", "returned"}
Stages == {"none", "slot", "session", "tunnel", "closing", "leaving",
           "asking", "open", "finishing", "over"}

TypeOK ==
    /\ together \in BOOLEAN /\ cancelled \in BOOLEAN
    /\ at \in [Stoppers -> Points]
    /\ native \in BOOLEAN /\ mine \subseteq Stoppers
    /\ http \in {"none", "open", "closed"}
    /\ engine \in {"none", "up", "dead"} /\ termed \in BOOLEAN
    /\ conn \in [Connections -> Stages]
    /\ slots \in 0..Limit
    /\ row \in [Connections -> {"none", "active", "finished"}]
    /\ lost \subseteq Connections
    /\ late \subseteq Native

Init ==
    /\ together \in BOOLEAN
    /\ cancelled = FALSE
    /\ at = [p \in Stoppers |-> IF p = "start" THEN "launch" ELSE "running"]
    /\ native = FALSE /\ mine = {} /\ http = "none"
    /\ engine = "none" /\ termed = FALSE
    /\ conn = [c \in Connections |-> "none"]
    /\ slots = 0
    /\ row = [c \in Connections |-> "none"]
    /\ lost = {} /\ late = {}

APIUp == together => at["main"] \in {"running", "api"}
Exited == at["main"] = "returned"
Goto(p, point) == at' = [at EXCEPT ![p] = point]
Move(c, stage) == conn' = [conn EXCEPT ![c] = stage]
Write(c, state) == row' = [row EXCEPT ![c] = state]
Lose(c) == lost' = lost \union {c}

-----------------------------------------------------------------------------
(* The life of the process *)

\* SIGTERM or SIGINT, or an error of another role.
Signal == /\ ~Exited /\ ~cancelled
          /\ cancelled' = TRUE
          /\ UNCHANGED <<together, at, native, mine, http, engine, termed,
                         sessions>>

\* FreeRDPEngine.Start: the child runs, for 100 ms only its death is watched.
Launch == /\ ~Exited /\ at["start"] = "launch"
          /\ engine' = "up"
          /\ Goto("start", "window")
          /\ UNCHANGED <<together, cancelled, native, mine, http, termed,
                         sessions>>

\* The configuration is invalid, or the engine died in the window.
StartFails == /\ ~Exited
              /\ at["start"] = "launch" \/ (at["start"] = "window" /\ engine = "dead")
              /\ Goto("start", "returned")
              /\ UNCHANGED <<together, cancelled, native, mine, http, engine,
                             termed, sessions>>

Serve == /\ ~Exited /\ at["start"] = "window"
         /\ Goto("start", "serving")
         /\ native' = TRUE
         /\ http' = IF http = "none" THEN "open" ELSE http
         /\ UNCHANGED <<together, cancelled, mine, engine, termed, sessions>>

EngineDies == /\ engine = "up"
              /\ engine' = "dead"
              /\ UNCHANGED <<together, cancelled, at, native, mine, http,
                             termed, sessions>>

\* exec.CommandContext, as long as there is a process to do it: SIGTERM when the
\* context ends, SIGKILL after WaitDelay.
ContextStops == /\ ~Exited /\ cancelled /\ engine = "up"
                /\ termed' = TRUE
                /\ engine' = IF termed THEN "dead" ELSE "up"
                /\ UNCHANGED <<together, cancelled, at, native, mine, http,
                               sessions>>

\* ListenAndServe returns an error of its own.
ListenerFails == /\ ~Exited /\ http = "open"
                 /\ http' = "closed"
                 /\ UNCHANGED <<together, cancelled, at, native, mine, engine,
                                termed, sessions>>

\* What the select of Server.Start waits for.
MutantEnded == cancelled \/ http = "closed"
Ended == cancelled \/ engine = "dead" \/ http = "closed"

ServeEnds == /\ ~Exited /\ at["start"] = "serving" /\ Ended
             /\ Goto("start", "take")
             /\ UNCHANGED <<together, cancelled, native, mine, http, engine,
                            termed, sessions>>

\* The select of main, and its stop().  Server.Start returns without a signal
\* only to report an error.
MainLeaves == /\ at["main"] = "running" /\ (cancelled \/ at["start"] = "returned")
              /\ cancelled' = TRUE
              /\ Goto("main", IF together THEN "api" ELSE "take")
              /\ UNCHANGED <<together, native, mine, http, engine, termed,
                             sessions>>

StopAPI == /\ at["main"] = "api"
           /\ Goto("main", "take")
           /\ UNCHANGED <<together, cancelled, native, mine, http, engine, termed,
                          sessions>>

Active == {n \in Native : row[n] = "active"}

\* stopNativeEngine: whoever comes first takes the handle, both tell the API.
MutantAfterTake(p) == IF native THEN "post" ELSE "http"
AfterTake(p) == "post"

TakeHandle(p) ==
    /\ ~Exited /\ at[p] = "take"
    /\ native' = FALSE
    /\ mine' = IF native THEN mine \union {p} ELSE mine
    /\ Goto(p, AfterTake(p))
    /\ UNCHANGED <<together, cancelled, http, engine, termed, sessions>>

\* FinishActiveNativeRDPSessions; the error is dropped.
FinishActive(p) ==
    /\ ~Exited /\ at[p] = "post"
    /\ Goto(p, IF p \in mine THEN "term" ELSE "http")
    /\ mine' = mine \ {p}
    /\ \/ /\ APIUp
          /\ row' = [c \in Connections |->
                        IF c \in Active THEN "finished" ELSE row[c]]
          /\ UNCHANGED lost
       \/ /\ lost' = lost \union Active
          /\ UNCHANGED row
    /\ UNCHANGED <<together, cancelled, native, http, engine, termed, conn,
                   slots, late>>

\* NativeEngineHandle.Stop: SIGTERM, five seconds, SIGKILL.
Terminate(p) ==
    /\ ~Exited /\ at[p] = "term"
    /\ termed' = TRUE
    /\ Goto(p, "wait")
    /\ UNCHANGED <<together, cancelled, native, mine, http, engine, sessions>>

MutantKilled == engine
Killed == "dead"

WaitOrKill(p) ==
    /\ ~Exited /\ at[p] = "wait"
    /\ engine' = Killed
    /\ Goto(p, "http")
    /\ UNCHANGED <<together, cancelled, native, mine, http, termed, sessions>>

\* http.Server.Shutdown: it closes the listener and forgets the WebSockets,
\* which are hijacked connections.  After it Start, or the process, ends.
CloseListener(p) ==
    /\ ~Exited /\ at[p] = "http"
    /\ http' = "closed"
    /\ Goto(p, "returned")
    /\ UNCHANGED <<together, cancelled, native, mine, engine, termed, sessions>>

Stopping(p) == TakeHandle(p) \/ FinishActive(p) \/ Terminate(p)
               \/ WaitOrKill(p) \/ CloseListener(p)

-----------------------------------------------------------------------------
(* Web connections: Server.connect and sessionTunnel *)

\* acquire never waits; release takes a slot back if one is taken at all.
Room == slots < Limit
GiveBack == slots' = IF slots > 0 THEN slots - 1 ELSE 0

Connect(w) == /\ ~Exited /\ http = "open" /\ conn[w] = "none"
              /\ \/ /\ Room
                    /\ slots' = slots + 1
                    /\ Move(w, "slot")
                 \/ /\ ~Room
                    /\ Move(w, "over")
                    /\ UNCHANGED slots
              /\ UNCHANGED <<process, row, lost, late>>

\* No token, a token that does not verify, one for another protocol, or no
\* answer to CreateSession, whose row the API may have written.
Refuse(w) == /\ ~Exited /\ conn[w] = "slot"
             /\ \/ UNCHANGED <<row, lost>>
                \/ APIUp /\ Write(w, "active") /\ Lose(w)
             /\ GiveBack
             /\ Move(w, "over")
             /\ UNCHANGED <<process, late>>

CreateSession(w) == /\ ~Exited /\ conn[w] = "slot" /\ APIUp
                    /\ Write(w, "active")
                    /\ Move(w, "session")
                    /\ UNCHANGED <<process, slots, lost, late>>

\* The recording directory, the dial or the handshake with guacd fails.
AfterFailure == "closing"
PrepareFails(w) == /\ ~Exited /\ conn[w] = "session"
                   /\ Move(w, AfterFailure)
                   /\ UNCHANGED <<process, slots, row, lost, late>>

OpenTunnel(w) == /\ ~Exited /\ conn[w] = "session"
                 /\ Move(w, "tunnel")
                 /\ UNCHANGED <<process, slots, row, lost, late>>

\* The first Close of a tunnel; sync.Once makes the others wait and do nothing.
MayClose(w) == conn[w] = "tunnel"
Close(w) == /\ ~Exited /\ MayClose(w)
            /\ Move(w, "closing")
            /\ UNCHANGED <<process, slots, row, lost, late>>

\* FinishSession, with or without a stored recording, under a context of its own.
FinishSession(w) == /\ ~Exited /\ conn[w] = "closing"
                    /\ \/ APIUp /\ Write(w, "finished") /\ UNCHANGED lost
                       \/ Lose(w) /\ UNCHANGED row
                    /\ Move(w, "leaving")
                    /\ UNCHANGED <<process, slots, late>>

Leave(w) == /\ ~Exited /\ conn[w] = "leaving"
            /\ GiveBack
            /\ Move(w, "over")
            /\ UNCHANGED <<process, row, lost, late>>

\* POST /sessions/:id/force-finish.  Nothing in this proxy watches the row.
ForceFinish(c) == /\ APIUp /\ row[c] = "active"
                  /\ Write(c, "finished")
                  /\ UNCHANGED <<process, conn, slots, lost, late>>

-----------------------------------------------------------------------------
(* Native connections: the engine and its plugin *)

Logon(n) == /\ engine = "up" /\ conn[n] = "none"
            /\ Move(n, "asking")
            /\ UNCHANGED <<process, slots, row, lost, late>>

\* StartSession at the API; the request may outlive the engine.
StartSession(n) == /\ conn[n] = "asking" /\ row[n] = "none" /\ APIUp
                   /\ Write(n, "active")
                   /\ late' = IF at["main"] \in {"term", "wait", "http", "returned"}
                              THEN late \union {n} ELSE late
                   /\ UNCHANGED <<process, conn, slots, lost>>

\* The answer arrives, or there is none or a refusal.
LogonEnds(n) == /\ conn[n] = "asking"
                /\ \/ engine = "up" /\ row[n] # "none" /\ Move(n, "open")
                   \/ Move(n, "over")
                /\ UNCHANGED <<process, slots, row, lost, late>>

\* finish_session_once, from the first of the hooks, the idle watchdog and the
\* unloading: it marks the session before it posts, and posts once.
FinishOnce(n) == /\ conn[n] = "open" /\ engine = "up"
                 /\ Move(n, "finishing")
                 /\ UNCHANGED <<process, slots, row, lost, late>>

FinishArrives(n) == /\ conn[n] = "finishing"
                    /\ (APIUp /\ Write(n, "finished")) \/ UNCHANGED row
                    /\ Move(n, "over")
                    /\ UNCHANGED <<process, slots, lost, late>>

-----------------------------------------------------------------------------

Step(w) == Connect(w) \/ Refuse(w) \/ CreateSession(w) \/ PrepareFails(w)
           \/ OpenTunnel(w) \/ Close(w) \/ FinishSession(w) \/ Leave(w)

Next ==
    \/ Signal \/ ListenerFails \/ Launch \/ StartFails \/ Serve \/ EngineDies \/ ContextStops
    \/ ServeEnds \/ MainLeaves \/ StopAPI
    \/ \E p \in Stoppers : Stopping(p)
    \/ \E w \in Web : Step(w)
    \/ \E c \in Connections : ForceFinish(c)
    \/ \E n \in Native : Logon(n) \/ StartSession(n) \/ LogonEnds(n)
                         \/ FinishOnce(n) \/ FinishArrives(n)

Spec == Init /\ [][Next]_vars

\* Goroutines run, requests and waits have timeouts.  Users, guacd, signals and
\* the engine do what they like.
Fairness ==
    /\ WF_vars(Launch \/ StartFails \/ Serve) /\ WF_vars(ServeEnds)
    /\ WF_vars(MainLeaves) /\ WF_vars(StopAPI)
    /\ \A p \in Stoppers : WF_vars(Stopping(p))
    /\ \A w \in Web : WF_vars(Refuse(w) \/ CreateSession(w) \/ PrepareFails(w)
                              \/ OpenTunnel(w) \/ FinishSession(w) \/ Leave(w))

FairSpec == Spec /\ Fairness

-----------------------------------------------------------------------------
(* Properties *)

\* Every slot of the limiter belongs to a connection that is being set up, open
\* or being closed: the release deferred by connect (server.go:197) and the one
\* of sessionTunnel.Close (server.go:402) never run both, whichever step fails.
\* A second release would free the slot of somebody else.
SlotsBalanced ==
    slots = Cardinality({w \in Web : conn[w] \notin {"none", "over"}})

\* A web connection that is over has left no session active, on any of the paths
\* out of connect (server.go:232-261) and through sessionTunnel.Close, unless a
\* request to the API was lost on the way.
WebFinished ==
    \A w \in Web : conn[w] = "over" /\ row[w] = "active" => w \in lost

\* Whatever way a web connection ends, its slot and its session end with it.
WebSettled == SlotsBalanced /\ WebFinished

\* When the proxy has gone and the API has stayed, a native session that is
\* still active was started after main's own cleanup, by the engine that
\* was yet to be terminated (server.go:134-147 posts before it stops the
\* engine); or the request of a cleanup
\* was lost.
NativeSettled ==
    Exited /\ ~together => Active \subseteq late \union lost

\* No session of either kind is left behind but for the causes named.
Settled == WebSettled /\ NativeSettled

\* An engine survives the process only if Server.Start was still at work: it
\* had just launched the engine, or had taken the handle away from main, which
\* then does not wait (main.go:192-194, server.go:134-147).
OrphanNeedsRace ==
    Exited /\ engine = "up" =>
        at["start"] \in {"window", "serving", "take", "post", "term", "wait"}

\* Once the context has ended, or the engine has died under a running server,
\* the whole process comes down (server.go:82-91, 105-117, main.go:168-194).
ComesDown ==
    (cancelled \/ (at["start"] = "serving" /\ engine = "dead")) ~> Exited
=============================================================================
