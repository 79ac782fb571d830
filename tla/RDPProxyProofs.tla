--------------------------- MODULE RDPProxyProofs ---------------------------
(***************************************************************************)
(* Proofs about RDPProxy, for any connections and any limit: its types,    *)
(* that slots and sessions are settled, and that an engine is left behind  *)
(* in one race only.                                                       *)
(***************************************************************************)
EXTENDS RDPProxy, FiniteSetTheorems, TLAPS

Busy == {w \in Web : conn[w] \notin {"none", "over"}}

\* A session is written once the connection has its slot, and finished before
\* the connection is left.
WebOK(w) == /\ conn[w] \in {"none", "slot"} => row[w] = "none"
            /\ conn[w] \in {"leaving", "over"} /\ row[w] = "active" => w \in lost

\* main's cleanup is over: only the engine still starts sessions.
CleanedUp == at["main"] \in {"term", "wait", "http", "returned"}
NativeOK == CleanedUp /\ ~together => Active \subseteq late \union lost

\* main has the engine's handle and has not waited for its end yet.
MainHas == \/ at["main"] = "post" /\ "main" \in mine
           \/ at["main"] \in {"term", "wait"}

\* Who is to stop a running engine: until it serves, nobody; then whoever takes
\* the handle.  Server.Start is done with it only if main has it.
EngineOK ==
    /\ at["start"] \notin {"running", "api"}
    /\ \A p \in mine : at[p] = "post"
    /\ native => at["start"] \in {"serving", "take"}
    /\ at["start"] = "launch" => engine = "none" /\ ~MainHas
    /\ engine = "up" /\ at["start"] \in {"serving", "take"} => native \/ MainHas
    /\ engine = "up" /\ at["start"] = "post" => "start" \in mine \/ MainHas
    /\ engine = "up" /\ at["start"] \in {"http", "returned"} => MainHas

IInv == /\ TypeOK /\ EngineOK /\ NativeOK
        /\ \A w \in Web : WebOK(w)
        /\ slots = Cardinality(Busy)

-----------------------------------------------------------------------------
(* Slots: a sum over the web connections *)

LEMMA BusyFinite == IsFiniteSet(Busy) /\ Cardinality(Busy) \in Nat
  BY ConnectionsType, FS_Subset, FS_CardinalityType DEF Busy

LEMMA SlotsFrame ==
    ASSUME slots = Cardinality(Busy), UNCHANGED slots,
           \A w \in Web : conn'[w] \in {"none", "over"} <=> conn[w] \in {"none", "over"}
    PROVE  slots' = Cardinality(Busy')
  <1>1. Busy' = Busy
    BY DEF Busy
  <1> QED BY <1>1

LEMMA SlotTaken ==
    ASSUME TypeOK, slots = Cardinality(Busy), NEW w \in Web,
           conn[w] = "none", Move(w, "slot"), slots' = slots + 1
    PROVE  slots' = Cardinality(Busy')
  <1>1. w \notin Busy /\ Busy' = Busy \union {w}
    BY DEF Busy, Move, TypeOK, Connections
  <1> QED BY <1>1, BusyFinite, FS_AddElement

LEMMA SlotGivenBack ==
    ASSUME TypeOK, slots = Cardinality(Busy), NEW w \in Web,
           conn[w] \notin {"none", "over"}, Move(w, "over"), GiveBack
    PROVE  slots' = Cardinality(Busy')
  <1>1. w \in Busy /\ Busy' = Busy \ {w}
    BY DEF Busy, Move, TypeOK, Connections
  <1>2. Cardinality(Busy') = Cardinality(Busy) - 1 /\ Cardinality(Busy) # 0
    BY <1>1, BusyFinite, FS_RemoveElement, FS_EmptySet
  <1> QED BY <1>2, BusyFinite DEF GiveBack

-----------------------------------------------------------------------------
(* The life of the process *)

LEMMA StopSteps ==
    ASSUME IInv, NEW p \in Stoppers, Stopping(p)
    PROVE  IInv'
  <1> USE DEF IInv, TypeOK, Goto, sessions, Stoppers, Points
  <1>1. CASE TakeHandle(p)
    <2>1. TypeOK'
      BY <1>1 DEF TakeHandle, AfterTake
    <2>2. EngineOK'
      BY <1>1 DEF TakeHandle, AfterTake, EngineOK, MainHas
    <2>3. NativeOK' /\ \A w \in Web : WebOK(w)'
      BY <1>1 DEF TakeHandle, AfterTake, NativeOK, CleanedUp, Active, WebOK
    <2>4. slots' = Cardinality(Busy')
      BY <1>1, SlotsFrame DEF TakeHandle
    <2> QED BY <2>1, <2>2, <2>3, <2>4
  <1>2. CASE FinishActive(p)
    <2>1. TypeOK'
      BY <1>2 DEF FinishActive, Active, Connections
    <2>2. EngineOK'
      BY <1>2 DEF FinishActive, EngineOK, MainHas
    <2>3. NativeOK'
      BY <1>2 DEF FinishActive, NativeOK, CleanedUp, Active, Connections
    <2>4. \A w \in Web : WebOK(w)'
      BY <1>2, ConnectionsType DEF FinishActive, WebOK, Active, Connections
    <2>5. slots' = Cardinality(Busy')
      BY <1>2, SlotsFrame DEF FinishActive
    <2> QED BY <2>1, <2>2, <2>3, <2>4, <2>5
  <1>3. CASE Terminate(p) \/ WaitOrKill(p) \/ CloseListener(p)
    <2>1. TypeOK'
      BY ZenonT(60), <1>3 DEF Terminate, WaitOrKill, CloseListener, Killed
    <2>2. EngineOK'
      <3>1. CASE Terminate(p)
        BY <3>1 DEF Terminate, EngineOK, MainHas
      <3>2. CASE WaitOrKill(p)
        BY <3>2 DEF WaitOrKill, Killed, EngineOK, MainHas
      <3>3. CASE CloseListener(p)
        BY <3>3 DEF CloseListener, EngineOK, MainHas
      <3> QED BY <1>3, <3>1, <3>2, <3>3
    <2>3. NativeOK' /\ \A w \in Web : WebOK(w)'
      BY <1>3 DEF Terminate, WaitOrKill, CloseListener, NativeOK, CleanedUp,
                  Active, WebOK
    <2>4. slots' = Cardinality(Busy')
      BY <1>3, SlotsFrame DEF Terminate, WaitOrKill, CloseListener
    <2> QED BY <2>1, <2>2, <2>3, <2>4
  <1> QED BY <1>1, <1>2, <1>3 DEF Stopping

\* Everything else about the process leaves its connections alone.
Living == \/ Signal \/ ListenerFails \/ Launch \/ StartFails \/ Serve
          \/ EngineDies \/ ContextStops \/ ServeEnds \/ MainLeaves \/ StopAPI

LEMMA LivingSteps ==
    ASSUME IInv, Living
    PROVE  IInv'
  <1> USE DEF IInv, TypeOK, Goto, sessions, Stoppers, Points, Exited
  <1>0. UNCHANGED sessions
    BY DEF Living, Signal, ListenerFails, Launch, StartFails, Serve, EngineDies,
           ContextStops, ServeEnds, MainLeaves, StopAPI
  <1>1. TypeOK'
    <2>1. CASE Signal
      BY <1>0, <2>1 DEF Signal
    <2>2. CASE ListenerFails
      BY <1>0, <2>2 DEF ListenerFails
    <2>3. CASE Launch
      BY <1>0, <2>3 DEF Launch
    <2>4. CASE StartFails
      BY <1>0, <2>4 DEF StartFails
    <2>5. CASE Serve
      BY <1>0, <2>5 DEF Serve
    <2>6. CASE EngineDies
      BY <1>0, <2>6 DEF EngineDies
    <2>7. CASE ContextStops
      BY <1>0, <2>7 DEF ContextStops
    <2>8. CASE ServeEnds
      BY <1>0, <2>8 DEF ServeEnds
    <2>9. CASE MainLeaves
      BY <1>0, <2>9 DEF MainLeaves
    <2>10. CASE StopAPI
      BY <1>0, <2>10 DEF StopAPI
    <2> QED BY <2>1, <2>2, <2>3, <2>4, <2>5, <2>6, <2>7, <2>8, <2>9, <2>10 DEF Living
  <1>2. EngineOK'
    <2> USE DEF EngineOK, MainHas
    <2>1. CASE Signal
      BY <2>1 DEF Signal
    <2>2. CASE ListenerFails
      BY <2>2 DEF ListenerFails
    <2>3. CASE EngineDies
      BY <2>3 DEF EngineDies
    <2>4. CASE ContextStops
      BY <2>4 DEF ContextStops
    <2>5. CASE Launch
      BY <2>5 DEF Launch
    <2>6. CASE StartFails
      BY <2>6 DEF StartFails
    <2>7. CASE Serve
      BY <2>7 DEF Serve
    <2>8. CASE ServeEnds
      BY <2>8 DEF ServeEnds
    <2>9. CASE MainLeaves
      BY <2>9 DEF MainLeaves
    <2>10. CASE StopAPI
      BY <2>10 DEF StopAPI
    <2> QED BY <2>1, <2>2, <2>3, <2>4, <2>5, <2>6, <2>7, <2>8, <2>9, <2>10 DEF Living
  <1>3. CleanedUp' => CleanedUp /\ UNCHANGED together
    BY DEF CleanedUp, Living, Signal, ListenerFails, Launch, StartFails, Serve,
           EngineDies, ContextStops, ServeEnds, MainLeaves, StopAPI
  <1>4. NativeOK' /\ \A w \in Web : WebOK(w)'
    BY <1>0, <1>3 DEF NativeOK, Active, WebOK
  <1>5. slots' = Cardinality(Busy')
    BY <1>0, SlotsFrame
  <1> QED BY <1>1, <1>2, <1>4, <1>5

-----------------------------------------------------------------------------
(* Connections *)

\* No connection has a say in the life of the process.
LEMMA SessionsFrame ==
    ASSUME EngineOK, NativeOK, UNCHANGED process,
           \A n \in Native : row'[n] = "active" /\ n \notin late' \union lost' =>
               \/ row[n] = "active" /\ n \notin late \union lost
               \/ ~CleanedUp
    PROVE  EngineOK' /\ NativeOK'
  <1>1. EngineOK'
    BY DEF EngineOK, MainHas, process
  <1>2. NativeOK'
    BY DEF NativeOK, CleanedUp, Active, process
  <1> QED BY <1>1, <1>2

LEMMA WebSteps ==
    ASSUME IInv, NEW w \in Web, Step(w)
    PROVE  IInv'
  <1> USE ConnectionsType
      DEF IInv, TypeOK, Move, Write, Lose, Connections, Stages
  <1>1. UNCHANGED process
    BY DEF Step, Connect, Refuse, CreateSession, PrepareFails, OpenTunnel, Close,
           FinishSession, Leave
  <1>2. UNCHANGED late /\ lost \subseteq lost' /\ \A n \in Native : row'[n] = row[n]
    BY DEF Step, Connect, Refuse, CreateSession, PrepareFails, OpenTunnel, Close,
           FinishSession, Leave
  <1>3. EngineOK' /\ NativeOK'
    BY <1>1, <1>2, SessionsFrame
  <1>4. slots' = Cardinality(Busy')
    <2>1. CASE Connect(w)
      BY <2>1, SlotTaken, SlotsFrame DEF Connect
    <2>2. CASE Refuse(w) \/ Leave(w)
      BY <2>2, SlotGivenBack DEF Refuse, Leave
    <2>3. CASE CreateSession(w) \/ PrepareFails(w) \/ OpenTunnel(w) \/ Close(w)
               \/ FinishSession(w)
      BY <2>3, SlotsFrame DEF CreateSession, PrepareFails, OpenTunnel, Close,
         FinishSession, AfterFailure, MayClose
    <2> QED BY <2>1, <2>2, <2>3 DEF Step
  <1>5. TypeOK'
    <2>1. slots' \in 0..Limit
      BY LimitType DEF Step, Connect, Refuse, CreateSession, PrepareFails,
         OpenTunnel, Close, FinishSession, Leave, Room, GiveBack
    <2>2. conn' \in [Connections -> Stages]
      BY DEF Step, Connect, Refuse, CreateSession, PrepareFails,
         OpenTunnel, Close, FinishSession, Leave, AfterFailure
    <2>3. /\ row' \in [Connections -> {"none", "active", "finished"}]
          /\ lost' \subseteq Connections
      BY DEF Step, Connect, Refuse, CreateSession, PrepareFails,
         OpenTunnel, Close, FinishSession, Leave
    <2> QED BY <1>1, <1>2, <2>1, <2>2, <2>3 DEF process
  <1>6. ASSUME NEW v \in Web PROVE WebOK(v)'
    BY DEF WebOK, Step, Connect, Refuse, CreateSession, PrepareFails, OpenTunnel,
           Close, FinishSession, Leave, AfterFailure
  <1> QED BY <1>3, <1>4, <1>5, <1>6

LEMMA ForceFinishStep ==
    ASSUME IInv, NEW c \in Connections, ForceFinish(c)
    PROVE  IInv'
  <1> USE DEF IInv, TypeOK, ForceFinish, Write
  <1>1. EngineOK' /\ NativeOK'
    BY SessionsFrame DEF Connections
  <1>2. TypeOK' /\ \A w \in Web : WebOK(w)'
    BY DEF process, WebOK, Connections
  <1>3. slots' = Cardinality(Busy')
    BY SlotsFrame
  <1> QED BY <1>1, <1>2, <1>3

Plugin(n) == Logon(n) \/ StartSession(n) \/ LogonEnds(n) \/ FinishOnce(n)
             \/ FinishArrives(n)

LEMMA PluginSteps ==
    ASSUME IInv, NEW n \in Native, Plugin(n)
    PROVE  IInv'
  <1> USE ConnectionsType DEF IInv, TypeOK, Move, Write, Connections, Stages
  <1>1. UNCHANGED process
    BY DEF Plugin, Logon, StartSession, LogonEnds, FinishOnce, FinishArrives
  <1>2. EngineOK' /\ NativeOK'
    BY <1>1, SessionsFrame DEF Plugin, Logon, StartSession, LogonEnds,
       FinishOnce, FinishArrives, CleanedUp
  <1>3. TypeOK'
    BY <1>1 DEF Plugin, Logon, StartSession, LogonEnds, FinishOnce,
       FinishArrives, process
  <1>4. ASSUME NEW w \in Web
        PROVE  /\ WebOK(w)'
               /\ conn'[w] \in {"none", "over"} <=> conn[w] \in {"none", "over"}
    BY DEF Plugin, Logon, StartSession, LogonEnds, FinishOnce, FinishArrives, WebOK
  <1>5. slots' = Cardinality(Busy')
    BY <1>4, SlotsFrame DEF Plugin, Logon, StartSession, LogonEnds, FinishOnce,
       FinishArrives
  <1> QED BY <1>2, <1>3, <1>4, <1>5

-----------------------------------------------------------------------------
(* The invariant *)

LEMMA InitInv == ASSUME Init PROVE IInv
  <1>1. TypeOK
    <2>1. at \in [Stoppers -> Points]
      BY DEF Init, Stoppers, Points
    <2>2. slots \in 0..Limit
      BY LimitType DEF Init
    <2> QED BY <2>1, <2>2 DEF Init, TypeOK, Stages
  <1>2. EngineOK /\ NativeOK /\ \A w \in Web : WebOK(w)
    BY DEF Init, EngineOK, MainHas, NativeOK, CleanedUp, WebOK, Stoppers,
           Connections
  <1>3. Busy = {}
    BY DEF Init, Busy, Connections
  <1>4. slots = Cardinality(Busy)
    BY <1>3, FS_EmptySet DEF Init
  <1> QED BY <1>1, <1>2, <1>4 DEF IInv

LEMMA NextInv == ASSUME IInv, Next PROVE IInv'
  BY StopSteps, LivingSteps, WebSteps, ForceFinishStep, PluginSteps
     DEF Next, Living, Plugin

LEMMA StutterInv == ASSUME IInv, UNCHANGED vars PROVE IInv'
  <1> USE DEF vars, process, sessions
  <1>1. TypeOK' /\ EngineOK' /\ NativeOK' /\ \A w \in Web : WebOK(w)'
    BY DEF IInv, TypeOK, EngineOK, MainHas, NativeOK, CleanedUp, Active, WebOK
  <1>2. Busy' = Busy
    BY DEF Busy
  <1> QED BY <1>1, <1>2 DEF IInv

LEMMA Invariance == Spec => []IInv
  <1>1. IInv /\ [Next]_vars => IInv'
    BY NextInv, StutterInv
  <1> QED BY InitInv, <1>1, PTL DEF Spec

\* Every variable keeps its type; no more slots are ever taken than there are.
THEOREM TypeCorrect == Spec => []TypeOK
  <1>1. IInv => TypeOK
    BY DEF IInv
  <1> QED BY <1>1, Invariance, PTL

\* However a web connection ends, its slot and its session end with it, but for
\* lost requests; and once the process has gone, a native session is active only
\* if it was started after main's cleanup, or that cleanup was lost
\* (server.go:134-147, 197, 402).
THEOREM SettledAtTheEnd == Spec => []Settled
  <1>1. IInv => Settled
    <2>1. ASSUME IInv PROVE WebSettled
      <3>1. {w \in Web : conn[w] \notin {"none", "over"}} = Busy
        BY DEF Busy
      <3> QED BY <2>1, <3>1 DEF IInv, WebOK, WebSettled, SlotsBalanced, WebFinished
    <2>2. ASSUME IInv PROVE NativeSettled
      BY <2>2 DEF IInv, NativeOK, NativeSettled, CleanedUp, Exited
    <2> QED BY <2>1, <2>2 DEF Settled
  <1> QED BY <1>1, Invariance, PTL

\* An engine survives the process only if main came while Server.Start was at
\* work: before it had the handle, or with the handle taken away (main.go:192).
THEOREM OrphansNeedTheRace == Spec => []OrphanNeedsRace
  <1>1. IInv => OrphanNeedsRace
    BY DEF IInv, TypeOK, EngineOK, MainHas, OrphanNeedsRace, Exited, Stoppers,
           Points
  <1> QED BY <1>1, Invariance, PTL
=============================================================================
