---------------------------- MODULE SSHProxyProofs ----------------------------
(***************************************************************************)
(* Proofs about SSHProxy, for any connections, any limit and any number of *)
(* failures; and about the command filter, of which SSHStreams has an      *)
(* instance, for any bytes, rules and buffer.                              *)
(***************************************************************************)
EXTENDS SSHProxy, SSHStreams, FiniteSetTheorems, SequenceTheorems,
        WellFoundedInduction, TLAPS

Holders(d) == {c \in Conns : HoldsSlot(c) /\ DialerOf(c) = d}

\* The slots taken are those of the handlers under way.  Only finitely many
\* are, however many connections there may be.
SlotsInv == \A d \in Dialers : /\ IsFiniteSet(Holders(d))
                               /\ slots[d] = Cardinality(Holders(d))

Before == {"idle", "acquire", "dial", "create"}
After == {"close", "release", "done"}

\* Where a handler may be.
PlaceOK(c) ==
    /\ pc[c] \in {"acquire", "release"} => c \notin Sftp
    /\ pc[c] \in {"record", "open"} => c \in known /\ c \in Recorded
    /\ pc[c] \in {"drain", "cleanup"} => c \in Recorded

\* A known session is active beyond the finishing update only for a reason,
\* and a target is open only between the dial and the close.
EndOK(c) ==
    /\ c \in known => pc[c] \notin Before
    /\ c \in known /\ pc[c] \in After /\ row[c] = "active" =>
          c \in failed \/ (c \in Shell /\ peer[c] = "gone")
    /\ c \notin Tunnel /\ target[c] = "open" =>
          pc[c] \notin {"idle", "acquire", "dial", "release", "done"}

\* While a web terminal has output to copy, its recording is open.
WebOK(c) ==
    c \in Web =>
        /\ pc[c] \in {"open", "bridge", "drain"} => cast[c] = "open"
        /\ stream[c] = "running" => pc[c] = "bridge"
        /\ c \in pending => pc[c] \in {"bridge", "drain"}
        /\ c \notin lost
        /\ c \in path => cast[c] # "none"

ConnOK(c) == PlaceOK(c) /\ EndOK(c) /\ WebOK(c)
Every == \A c \in Conns : ConnOK(c)

IInv == TypeOK /\ Every /\ SlotsInv

-----------------------------------------------------------------------------

LEMMA InitIInv == Init => IInv
  <1> SUFFICES ASSUME Init PROVE IInv
      OBVIOUS
  <1>1. TypeOK
      BY BoundsType DEF Init, TypeOK, Points, Dialers
  <1>2. Every
      BY DEF Init, Every, ConnOK, PlaceOK, EndOK, WebOK, Before, After
  <1>3. \A d \in Dialers : Holders(d) = {}
      BY DEF Init, Holders, HoldsSlot
  <1>4. SlotsInv
      BY <1>3, FS_EmptySet DEF Init, SlotsInv
  <1> QED BY <1>1, <1>2, <1>4 DEF IInv

\* A step that takes and gives no slot keeps the slots balanced.
LEMMA SlotsFrame ==
    ASSUME SlotsInv, UNCHANGED slots,
           \A c \in Conns : HoldsSlot(c)' <=> HoldsSlot(c)
    PROVE  SlotsInv'
  <1>1. \A d : Holders(d)' = Holders(d)
      BY DEF Holders, DialerOf
  <1> QED BY <1>1 DEF SlotsInv

\* Setting up, up to the session.
LEMMA SetUp ==
    ASSUME TypeOK, Every, NEW c \in Conns,
           Connect(c) \/ Dial(c) \/ CreateSession(c)
    PROVE  /\ TypeOK' /\ Every' /\ UNCHANGED slots
           /\ \A e \in Conns : HoldsSlot(e)' <=> HoldsSlot(e)
  <1> USE KindsDisjoint DEF Goto, Fails, FailsUnder, Cancelled, link, session,
          recording, faults, Conns, Recorded
  <1>1. CASE Connect(c)
    <2>1. TypeOK'
        BY <1>1 DEF Connect, TypeOK, Points
    <2>2. Every'
        BY <1>1 DEF Connect, TypeOK, Every, ConnOK, PlaceOK, EndOK, WebOK,
                    Before, After
    <2>3. \A e \in Conns : HoldsSlot(e)' <=> HoldsSlot(e)
        BY <1>1 DEF Connect, TypeOK, HoldsSlot
    <2> QED BY <1>1, <2>1, <2>2, <2>3 DEF Connect
  <1>2. CASE Dial(c)
    <2>1. TypeOK'
        BY <1>2 DEF Dial, Released, TypeOK, Points
    <2>2. Every'
        BY <1>2 DEF Dial, Released, TypeOK, Every, ConnOK, PlaceOK, EndOK,
                    WebOK, Before, After
    <2>3. \A e \in Conns : HoldsSlot(e)' <=> HoldsSlot(e)
        BY <1>2 DEF Dial, Released, TypeOK, HoldsSlot
    <2> QED BY <1>2, <2>1, <2>2, <2>3 DEF Dial
  <1>3. CASE CreateSession(c)
    <2>1. TypeOK'
        BY <1>3 DEF CreateSession, TypeOK, Points
    <2>2. Every'
        BY <1>3 DEF CreateSession, TypeOK, Every, ConnOK, PlaceOK, EndOK,
                    WebOK, Before, After
    <2>3. \A e \in Conns : HoldsSlot(e)' <=> HoldsSlot(e)
        BY <1>3 DEF CreateSession, TypeOK, HoldsSlot
    <2> QED BY <1>3, <2>1, <2>2, <2>3 DEF CreateSession
  <1> QED BY <1>1, <1>2, <1>3

\* Recording and stream.
LEMMA Opening ==
    ASSUME TypeOK, Every, NEW c \in Conns,
           StartRecording(c) \/ OpenStream(c)
    PROVE  /\ TypeOK' /\ Every' /\ UNCHANGED slots
           /\ \A e \in Conns : HoldsSlot(e)' <=> HoldsSlot(e)
  <1> USE KindsDisjoint DEF Goto, Fails, FailsUnder, Cancelled, Cut, Proceed,
          link, session, recording, faults, Conns, Recorded
  <1>1. CASE StartRecording(c)
    <2>1. TypeOK'
        BY <1>1 DEF StartRecording, TypeOK, Points
    <2>2. Every'
        BY <1>1 DEF StartRecording, TypeOK, Every, ConnOK, PlaceOK,
                    EndOK, WebOK, Before, After
    <2>3. \A e \in Conns : HoldsSlot(e)' <=> HoldsSlot(e)
        BY <1>1 DEF StartRecording, TypeOK, HoldsSlot
    <2> QED BY <1>1, <2>1, <2>2, <2>3 DEF StartRecording
  <1>2. CASE OpenStream(c)
    <2>1. TypeOK'
        BY <1>2 DEF OpenStream, TypeOK, Points, Every, ConnOK, PlaceOK
    <2>2. Every'
        BY <1>2 DEF OpenStream, TypeOK, Every, ConnOK, PlaceOK,
                    EndOK, WebOK, Before, After
    <2>3. \A e \in Conns : HoldsSlot(e)' <=> HoldsSlot(e)
        BY <1>2 DEF OpenStream, TypeOK, HoldsSlot
    <2> QED BY <1>2, <2>1, <2>2, <2>3 DEF OpenStream
  <1> QED BY <1>1, <1>2

\* What users, targets, administrators and the copying goroutines do.
LEMMA Streaming ==
    ASSUME TypeOK, Every, NEW c \in Conns,
           \/ Output(c) \/ CopyOutput(c) \/ StreamEnds(c) \/ Disconnect(c)
           \/ InputEnds(c) \/ TunnelCloses(c) \/ WatchCloses(c) \/ ForceFinish(c)
    PROVE  /\ TypeOK' /\ Every' /\ UNCHANGED slots
           /\ \A e \in Conns : HoldsSlot(e)' <=> HoldsSlot(e)
  <1> USE KindsDisjoint DEF Goto, Fails, FailsUnder, Cancelled, Cut, Proceed,
          link, session, recording, faults, Conns, Recorded
  <1>1. CASE Output(c)
    <2>1. TypeOK'
        BY <1>1 DEF Output, TypeOK, Points
    <2>2. Every'
        BY <1>1 DEF Output, TypeOK, Every, ConnOK, PlaceOK,
                    EndOK, WebOK, Before, After
    <2>3. \A e \in Conns : HoldsSlot(e)' <=> HoldsSlot(e)
        BY <1>1 DEF Output, TypeOK, HoldsSlot
    <2> QED BY <1>1, <2>1, <2>2, <2>3 DEF Output
  <1>2. CASE CopyOutput(c)
    <2>1. TypeOK'
        BY <1>2 DEF CopyOutput, TypeOK, Points
    <2>2. Every'
        BY <1>2 DEF CopyOutput, TypeOK, Every, ConnOK, PlaceOK,
                    EndOK, WebOK, Before, After
    <2>3. \A e \in Conns : HoldsSlot(e)' <=> HoldsSlot(e)
        BY <1>2 DEF CopyOutput, TypeOK, HoldsSlot
    <2> QED BY <1>2, <2>1, <2>2, <2>3 DEF CopyOutput
  <1>3. CASE StreamEnds(c)
    <2>1. TypeOK'
        BY <1>3 DEF StreamEnds, TypeOK, Points
    <2>2. Every'
        BY <1>3 DEF StreamEnds, TypeOK, Every, ConnOK, PlaceOK,
                    EndOK, WebOK, Before, After
    <2>3. \A e \in Conns : HoldsSlot(e)' <=> HoldsSlot(e)
        BY <1>3 DEF StreamEnds, TypeOK, HoldsSlot
    <2> QED BY <1>3, <2>1, <2>2, <2>3 DEF StreamEnds
  <1>4. CASE Disconnect(c)
    <2>1. TypeOK'
        BY <1>4 DEF Disconnect, TypeOK, Points
    <2>2. Every'
        BY <1>4 DEF Disconnect, TypeOK, Every, ConnOK, PlaceOK,
                    EndOK, WebOK, Before, After
    <2>3. \A e \in Conns : HoldsSlot(e)' <=> HoldsSlot(e)
        BY <1>4 DEF Disconnect, TypeOK, HoldsSlot
    <2> QED BY <1>4, <2>1, <2>2, <2>3 DEF Disconnect
  <1>5. CASE InputEnds(c)
    <2>1. TypeOK'
        BY <1>5 DEF InputEnds, InputFails, TypeOK, Points
    <2>2. Every'
        BY <1>5 DEF InputEnds, InputFails, TypeOK, Every, ConnOK, PlaceOK,
                    EndOK, WebOK, Before, After
    <2>3. \A e \in Conns : HoldsSlot(e)' <=> HoldsSlot(e)
        BY <1>5 DEF InputEnds, InputFails, TypeOK, HoldsSlot
    <2> QED BY <1>5, <2>1, <2>2, <2>3 DEF InputEnds
  <1>6. CASE TunnelCloses(c)
    <2>1. TypeOK'
        BY <1>6 DEF TunnelCloses, TypeOK, Points
    <2>2. Every'
        BY <1>6 DEF TunnelCloses, TypeOK, Every, ConnOK, PlaceOK,
                    EndOK, WebOK, Before, After
    <2>3. \A e \in Conns : HoldsSlot(e)' <=> HoldsSlot(e)
        BY <1>6 DEF TunnelCloses, TypeOK, HoldsSlot
    <2> QED BY <1>6, <2>1, <2>2, <2>3 DEF TunnelCloses
  <1>7. CASE WatchCloses(c)
    <2>1. TypeOK'
        BY <1>7 DEF WatchCloses, Noticed, TypeOK, Points
    <2>2. Every'
        BY <1>7 DEF WatchCloses, Noticed, TypeOK, Every, ConnOK, PlaceOK,
                    EndOK, WebOK, Before, After
    <2>3. \A e \in Conns : HoldsSlot(e)' <=> HoldsSlot(e)
        BY <1>7 DEF WatchCloses, Noticed, TypeOK, HoldsSlot
    <2> QED BY <1>7, <2>1, <2>2, <2>3 DEF WatchCloses
  <1>8. CASE ForceFinish(c)
    <2>1. TypeOK'
        BY <1>8 DEF ForceFinish, TypeOK, Points
    <2>2. Every'
        BY <1>8 DEF ForceFinish, TypeOK, Every, ConnOK, PlaceOK,
                    EndOK, WebOK, Before, After
    <2>3. \A e \in Conns : HoldsSlot(e)' <=> HoldsSlot(e)
        BY <1>8 DEF ForceFinish, TypeOK, HoldsSlot
    <2> QED BY <1>8, <2>1, <2>2, <2>3 DEF ForceFinish
  <1> QED BY <1>1, <1>2, <1>3, <1>4, <1>5, <1>6, <1>7, <1>8

\* The deferred calls but the last.
LEMMA Returning ==
    ASSUME TypeOK, Every, NEW c \in Conns,
           \/ WaitReturns(c) \/ Drain(c) \/ CloseRecording(c)
           \/ ServeReturns(c) \/ FinishSession(c) \/ CloseTarget(c)
    PROVE  /\ TypeOK' /\ Every' /\ UNCHANGED slots
           /\ \A e \in Conns : HoldsSlot(e)' <=> HoldsSlot(e)
  <1> USE KindsDisjoint DEF Goto, Fails, FailsUnder, Cancelled, Cut, Proceed,
          link, session, recording, faults, Conns, Recorded
  <1>1. CASE WaitReturns(c)
    <2>1. TypeOK'
        BY <1>1 DEF WaitReturns, AfterWait, TypeOK, Points
    <2>2. Every'
        BY <1>1 DEF WaitReturns, AfterWait, TypeOK, Every, ConnOK, PlaceOK,
                    EndOK, WebOK, Before, After
    <2>3. \A e \in Conns : HoldsSlot(e)' <=> HoldsSlot(e)
        BY <1>1 DEF WaitReturns, AfterWait, TypeOK, HoldsSlot
    <2> QED BY <1>1, <2>1, <2>2, <2>3 DEF WaitReturns
  <1>2. CASE Drain(c)
    <2>1. TypeOK'
        BY <1>2 DEF Drain, TypeOK, Points
    <2>2. Every'
        BY <1>2 DEF Drain, TypeOK, Every, ConnOK, PlaceOK,
                    EndOK, WebOK, Before, After
    <2>3. \A e \in Conns : HoldsSlot(e)' <=> HoldsSlot(e)
        BY <1>2 DEF Drain, TypeOK, HoldsSlot
    <2> QED BY <1>2, <2>1, <2>2, <2>3 DEF Drain
  <1>3. CASE CloseRecording(c)
    <2>1. TypeOK'
        BY <1>3 DEF CloseRecording, TypeOK, Points
    <2>2. Every'
        BY <1>3 DEF CloseRecording, TypeOK, Every, ConnOK, PlaceOK,
                    EndOK, WebOK, Before, After
    <2>3. \A e \in Conns : HoldsSlot(e)' <=> HoldsSlot(e)
        BY <1>3 DEF CloseRecording, TypeOK, HoldsSlot
    <2> QED BY <1>3, <2>1, <2>2, <2>3 DEF CloseRecording
  <1>4. CASE ServeReturns(c)
    <2>1. TypeOK'
        BY <1>4 DEF ServeReturns, TypeOK, Points
    <2>2. Every'
        BY <1>4 DEF ServeReturns, TypeOK, Every, ConnOK, PlaceOK,
                    EndOK, WebOK, Before, After
    <2>3. \A e \in Conns : HoldsSlot(e)' <=> HoldsSlot(e)
        BY <1>4 DEF ServeReturns, TypeOK, HoldsSlot
    <2> QED BY <1>4, <2>1, <2>2, <2>3 DEF ServeReturns
  <1>5. CASE FinishSession(c)
    <2>1. TypeOK'
        BY <1>5 DEF FinishSession, FinishCancelled, NamesRecording,
                    AfterFinish, TypeOK, Points
    <2>2. Every'
        BY <1>5 DEF FinishSession, FinishCancelled, NamesRecording, AfterFinish, TypeOK, Every, ConnOK, PlaceOK,
                    EndOK, WebOK, Before, After
    <2>3. \A e \in Conns : HoldsSlot(e)' <=> HoldsSlot(e)
        BY <1>5 DEF FinishSession, FinishCancelled, NamesRecording,
                    AfterFinish, TypeOK, HoldsSlot
    <2> QED BY <1>5, <2>1, <2>2, <2>3 DEF FinishSession
  <1>6. CASE CloseTarget(c)
    <2>1. TypeOK'
        BY <1>6 DEF CloseTarget, Released, TypeOK, Points
    <2>2. Every'
        BY <1>6 DEF CloseTarget, Released, TypeOK, Every, ConnOK, PlaceOK,
                    EndOK, WebOK, Before, After
    <2>3. \A e \in Conns : HoldsSlot(e)' <=> HoldsSlot(e)
        BY <1>6 DEF CloseTarget, Released, TypeOK, HoldsSlot
    <2> QED BY <1>6, <2>1, <2>2, <2>3 DEF CloseTarget
  <1> QED BY <1>1, <1>2, <1>3, <1>4, <1>5, <1>6

-----------------------------------------------------------------------------
(* The two actions that touch the slots *)

LEMMA DialerType == \A c \in Conns : DialerOf(c) \in Dialers
  BY DEF DialerOf, Dialers

\* A handler that finds a slot free becomes a holder; one that does not ends.
LEMMA AcquireIInv ==
    ASSUME IInv, NEW c \in Conns, Acquire(c)
    PROVE  IInv'
  <1> USE DEF IInv, Goto, link, session, recording, faults
  <1>1. c \notin Sftp /\ ~HoldsSlot(c)
      BY DEF Acquire, Every, ConnOK, PlaceOK, HoldsSlot
  <1>2. Every'
      BY <1>1 DEF Acquire, TypeOK, Every, ConnOK, PlaceOK, EndOK, WebOK,
                  Before, After
  <1>3. CASE SlotFree(DialerOf(c)) /\ pc' = [pc EXCEPT ![c] = "dial"]
             /\ slots' = [slots EXCEPT ![DialerOf(c)] = @ + 1]
    <2>1. TypeOK'
        BY <1>3, DialerType, BoundsType
           DEF Acquire, SlotFree, TypeOK, Points, Dialers
    <2>2. /\ Holders(DialerOf(c))' = Holders(DialerOf(c)) \union {c}
          /\ c \notin Holders(DialerOf(c))
        BY <1>1, <1>3 DEF TypeOK, Holders, HoldsSlot, DialerOf
    <2>3. \A d \in Dialers : d # DialerOf(c) => Holders(d)' = Holders(d)
        BY <1>1, <1>3 DEF TypeOK, Holders, HoldsSlot, DialerOf
    <2>4. /\ IsFiniteSet(Holders(DialerOf(c))')
          /\ Cardinality(Holders(DialerOf(c))')
               = Cardinality(Holders(DialerOf(c))) + 1
        BY <2>2, DialerType, FS_AddElement DEF SlotsInv
    <2>5. SlotsInv'
        BY <1>3, <2>3, <2>4, DialerType DEF SlotsInv, TypeOK
    <2> QED BY <1>2, <2>1, <2>5
  <1>4. CASE pc' = [pc EXCEPT ![c] = "done"] /\ UNCHANGED slots
    <2>1. TypeOK'
        BY <1>4 DEF Acquire, TypeOK, Points
    <2>2. \A e \in Conns : HoldsSlot(e)' <=> HoldsSlot(e)
        BY <1>1, <1>4 DEF TypeOK, HoldsSlot
    <2>3. SlotsInv'
        BY <1>4, <2>2, SlotsFrame
    <2> QED BY <1>2, <2>1, <2>3
  <1> QED BY <1>3, <1>4 DEF Acquire

\* A holder leaves, so there was a slot to give back.
LEMMA ReleaseIInv ==
    ASSUME IInv, NEW c \in Conns, Release(c)
    PROVE  IInv'
  <1> USE DEF IInv, Goto, link, session, recording, faults
  <1>1. c \notin Sftp /\ HoldsSlot(c)
      BY DEF Release, Every, ConnOK, PlaceOK, HoldsSlot
  <1>2. Every'
      BY DEF Release, TypeOK, Every, ConnOK, PlaceOK, EndOK, WebOK,
             Before, After
  <1>3. /\ c \in Holders(DialerOf(c))
        /\ Holders(DialerOf(c))' = Holders(DialerOf(c)) \ {c}
      BY <1>1 DEF Release, TypeOK, Holders, HoldsSlot, DialerOf
  <1>4. \A d \in Dialers : d # DialerOf(c) => Holders(d)' = Holders(d)
      BY <1>1 DEF Release, TypeOK, Holders, HoldsSlot, DialerOf
  <1>5. /\ IsFiniteSet(Holders(DialerOf(c))')
        /\ Cardinality(Holders(DialerOf(c))')
             = Cardinality(Holders(DialerOf(c))) - 1
        /\ Cardinality(Holders(DialerOf(c))) \in Nat
        /\ Cardinality(Holders(DialerOf(c))) # 0
      BY <1>3, DialerType, FS_RemoveElement, FS_CardinalityType, FS_EmptySet
         DEF SlotsInv
  <1>6. slots' = [slots EXCEPT ![DialerOf(c)] = slots[DialerOf(c)] - 1]
    <2>1. slots[DialerOf(c)] > 0
        BY <1>5, DialerType DEF SlotsInv
    <2>2. slots' = [slots EXCEPT ![DialerOf(c)] =
                       IF slots[DialerOf(c)] > 0 THEN slots[DialerOf(c)] - 1
                                                 ELSE 0]
        BY DEF Release
    <2> QED BY <2>1, <2>2
  <1>7. SlotsInv'
      BY <1>4, <1>5, <1>6, DialerType DEF SlotsInv, TypeOK
  <1>8. TypeOK'
    <2>1. slots[DialerOf(c)] - 1 \in 0..Limit
        BY <1>5, DialerType, BoundsType DEF SlotsInv, TypeOK
    <2> QED BY ZenonT(60), <1>6, <2>1 DEF Release, TypeOK, Points
  <1> QED BY <1>2, <1>7, <1>8

-----------------------------------------------------------------------------

LEMMA NextIInv == IInv /\ [Next]_vars => IInv'
  <1> SUFFICES ASSUME IInv, [Next]_vars PROVE IInv'
      OBVIOUS
  <1>1. CASE UNCHANGED vars
    <2>1. TypeOK' /\ Every'
        BY <1>1 DEF IInv, vars, link, session, recording, faults, TypeOK,
           Every, ConnOK, PlaceOK, EndOK, WebOK
    <2>2. SlotsInv'
        BY <1>1, SlotsFrame DEF IInv, vars, HoldsSlot
    <2> QED BY <2>1, <2>2 DEF IInv
  <1>2. ASSUME NEW c \in Conns, Acquire(c) PROVE IInv'
      BY <1>2, AcquireIInv
  <1>3. ASSUME NEW c \in Conns, Release(c) PROVE IInv'
      BY <1>3, ReleaseIInv
  <1>4. ASSUME NEW c \in Conns,
               \/ Connect(c) \/ Dial(c) \/ CreateSession(c)
               \/ StartRecording(c) \/ OpenStream(c)
               \/ Output(c) \/ CopyOutput(c) \/ StreamEnds(c) \/ Disconnect(c)
               \/ InputEnds(c) \/ TunnelCloses(c) \/ WatchCloses(c)
               \/ ForceFinish(c)
               \/ WaitReturns(c) \/ Drain(c) \/ CloseRecording(c)
               \/ ServeReturns(c) \/ FinishSession(c) \/ CloseTarget(c)
        PROVE  IInv'
    <2>1. /\ TypeOK' /\ Every' /\ UNCHANGED slots
          /\ \A e \in Conns : HoldsSlot(e)' <=> HoldsSlot(e)
        BY <1>4, SetUp, Opening, Streaming, Returning DEF IInv
    <2>2. SlotsInv'
        BY <2>1, SlotsFrame DEF IInv
    <2> QED BY <2>1, <2>2 DEF IInv
  <1> QED BY <1>1, <1>2, <1>3, <1>4 DEF Next, Run

THEOREM Invariance == Spec => []IInv
  <1> QED BY InitIInv, NextIInv, PTL DEF Spec

\* TypeOK: among others, no more slots are ever taken than there are.
THEOREM TypeCorrect == Spec => []TypeOK
  <1>1. IInv => TypeOK
      BY DEF IInv
  <1> QED BY <1>1, Invariance, PTL

\* SlotsBalanced: every exit of every handler gives back what it took.
THEOREM SlotsReturned == Spec => []SlotsBalanced
  <1>1. IInv => SlotsBalanced
      BY DEF IInv, SlotsInv, Holders, SlotsBalanced
  <1> QED BY <1>1, Invariance, PTL

\* EndedIsFinished: a handler that is done has finished the session it was
\* told of, a failed request or a shell without its user excepted.
THEOREM SessionsEnd == Spec => []EndedIsFinished
  <1>1. IInv => EndedIsFinished
      BY DEF IInv, TypeOK, Every, ConnOK, EndOK, After, EndedIsFinished
  <1> QED BY <1>1, Invariance, PTL

\* WebRecordingComplete: a web terminal's recording misses nothing.
THEOREM RecordingComplete == Spec => []WebRecordingComplete
  <1>1. IInv => WebRecordingComplete
      BY DEF IInv, Every, ConnOK, WebOK, WebRecordingComplete, Conns
  <1> QED BY <1>1, Invariance, PTL

\* What EndIsNoticed says of one connection.
NoticedOK(c) ==
    /\ c \in known \ Tunnel /\ pc[c] = "bridge" /\ stream[c] = "running" =>
          c \in watch \/ (c \notin Web /\ peer[c] = "gone")
    /\ c \in Tunnel /\ target[c] = "open" /\ pc[c] # "create" => stream[c] # "none"

\* A step of one connection leaves the others as they are.
LEMMA NoticedFrame ==
    ASSUME TypeOK, \A e \in Conns : NoticedOK(e), NEW c \in Conns,
           \A e \in Conns \ {c} :
              /\ pc'[e] = pc[e] /\ stream'[e] = stream[e]
              /\ peer'[e] = peer[e] /\ target'[e] = target[e]
              /\ e \in known' <=> e \in known
              /\ e \in watch' <=> e \in watch,
           NoticedOK(c)'
    PROVE  \A e \in Conns : NoticedOK(e)'
  BY DEF NoticedOK

LEMMA NoticedStep ==
    ASSUME IInv, \A e \in Conns : NoticedOK(e), [Next]_vars
    PROVE  \A e \in Conns : NoticedOK(e)'
  <1> USE KindsDisjoint DEF Goto, Fails, FailsUnder, Cancelled, Cut, Proceed,
          link, session, recording, faults
  <1>1. CASE UNCHANGED vars
      BY <1>1 DEF vars, NoticedOK
  <1>2. ASSUME NEW c \in Conns, Connect(c) \/ Acquire(c) \/ Dial(c) \/ Release(c)
        PROVE  \A e \in Conns : NoticedOK(e)'
    <2>1. UNCHANGED <<peer, stream, watch, known>>
        BY <1>2 DEF Connect, Acquire, Dial, Release
    <2>2. /\ \A e \in Conns \ {c} : pc'[e] = pc[e] /\ target'[e] = target[e]
          /\ pc'[c] # "bridge" /\ (pc'[c] = "create" \/ target'[c] = target[c])
          /\ pc[c] # "create"
        BY <1>2 DEF Connect, Acquire, Dial, Release, Released, IInv, TypeOK
    <2>3. NoticedOK(c)'
        BY <2>1, <2>2 DEF NoticedOK
    <2> QED BY <2>1, <2>2, <2>3, NoticedFrame DEF IInv
  <1>3. ASSUME NEW c \in Conns, CreateSession(c) PROVE \A e \in Conns : NoticedOK(e)'
    <2>1. /\ pc[c] = "create" /\ c \notin known
          /\ UNCHANGED <<peer, target>>
        BY <1>3 DEF CreateSession, IInv, Every, ConnOK, EndOK, Before
    <2>2. ASSUME NEW e \in Conns \ {c}
          PROVE  /\ pc'[e] = pc[e] /\ stream'[e] = stream[e]
                 /\ e \in known' <=> e \in known
                 /\ e \in watch' <=> e \in watch
      <3>1. pc'[e] = pc[e] /\ (e \in known' <=> e \in known)
          BY <1>3 DEF CreateSession, IInv, TypeOK
      <3>2. stream'[e] = stream[e]
          BY <1>3 DEF CreateSession, IInv, TypeOK
      <3>3. e \in watch' <=> e \in watch
          BY <1>3 DEF CreateSession, IInv, TypeOK
      <3> QED BY <3>1, <3>2, <3>3
    <2>3. c \in known' \ Tunnel /\ pc'[c] = "bridge" => c \in watch'
        BY <1>3, <2>1 DEF CreateSession, Conns, Recorded, IInv, TypeOK
    <2>4. c \in Tunnel => stream'[c] # "none"
        BY <1>3 DEF CreateSession, Conns, Recorded, IInv, TypeOK
    <2>5. NoticedOK(c)'
        BY <2>3, <2>4 DEF NoticedOK
    <2> QED BY <2>1, <2>2, <2>5, NoticedFrame DEF IInv
  <1>4. ASSUME NEW c \in Conns, StartRecording(c) \/ OpenStream(c)
        PROVE  \A e \in Conns : NoticedOK(e)'
    <2>1. /\ c \in Recorded /\ c \in known
          /\ UNCHANGED <<peer, target, known>>
        BY <1>4 DEF StartRecording, OpenStream, IInv, Every, ConnOK, PlaceOK
    <2>2. \A e \in Conns \ {c} : /\ pc'[e] = pc[e] /\ stream'[e] = stream[e]
                                 /\ e \in watch' <=> e \in watch
        BY <1>4 DEF StartRecording, OpenStream, IInv, TypeOK
    <2>3. NoticedOK(c)'
        BY <1>4, <2>1 DEF StartRecording, OpenStream, NoticedOK, IInv, TypeOK
    <2>4. ASSUME NEW e \in Conns \ {c}
          PROVE  /\ pc'[e] = pc[e] /\ stream'[e] = stream[e]
                 /\ peer'[e] = peer[e] /\ target'[e] = target[e]
                 /\ e \in known' <=> e \in known
                 /\ e \in watch' <=> e \in watch
        BY <2>1, <2>2
    <2> QED BY <2>3, <2>4, NoticedFrame DEF IInv
  <1>5. ASSUME NEW c \in Conns,
               \/ Output(c) \/ CopyOutput(c) \/ ForceFinish(c) \/ Drain(c)
               \/ CloseRecording(c) \/ FinishSession(c)
        PROVE  \A e \in Conns : NoticedOK(e)'
    <2>1. UNCHANGED <<peer, target, stream, watch, known>>
        BY <1>5 DEF Output, CopyOutput, ForceFinish, Drain, CloseRecording,
           FinishSession
    <2>2. /\ \A e \in Conns \ {c} : pc'[e] = pc[e]
          /\ pc'[c] = pc[c] \/ (pc'[c] # "bridge" /\ pc[c] # "create")
        BY <1>5 DEF Output, CopyOutput, ForceFinish, Drain, CloseRecording,
           FinishSession, AfterFinish, IInv, TypeOK
    <2>3. NoticedOK(c)'
        BY <2>1, <2>2 DEF NoticedOK
    <2> QED BY <2>1, <2>2, <2>3, NoticedFrame DEF IInv
  <1>6. ASSUME NEW c \in Conns, Disconnect(c) PROVE \A e \in Conns : NoticedOK(e)'
    <2>1. /\ UNCHANGED <<pc, target, stream, known>> /\ peer'[c] = "gone"
          /\ \A e \in Conns \ {c} : peer'[e] = peer[e]
          /\ watch' = IF c \in Web THEN watch ELSE watch \ {c}
        BY <1>6 DEF Disconnect, IInv, TypeOK
    <2>2. NoticedOK(c)'
        BY <2>1 DEF NoticedOK
    <2> QED BY <2>1, <2>2, NoticedFrame DEF IInv
  <1>7. ASSUME NEW c \in Conns,
               \/ StreamEnds(c) \/ InputEnds(c) \/ WatchCloses(c)
               \/ TunnelCloses(c) \/ CloseTarget(c)
        PROVE  \A e \in Conns : NoticedOK(e)'
    <2>1. /\ stream'[c] = "ended" /\ UNCHANGED <<peer, known>>
          /\ \A e \in Conns \ {c} : /\ pc'[e] = pc[e] /\ stream'[e] = stream[e]
                                    /\ target'[e] = target[e]
                                    /\ e \in watch' <=> e \in watch
        BY <1>7 DEF StreamEnds, InputEnds, WatchCloses, TunnelCloses,
           CloseTarget, IInv, TypeOK
    <2>2. NoticedOK(c)'
        BY <2>1 DEF NoticedOK
    <2>3. ASSUME NEW e \in Conns \ {c}
          PROVE  /\ pc'[e] = pc[e] /\ stream'[e] = stream[e]
                 /\ peer'[e] = peer[e] /\ target'[e] = target[e]
                 /\ e \in known' <=> e \in known
                 /\ e \in watch' <=> e \in watch
        BY <2>1
    <2> QED BY <2>2, <2>3, NoticedFrame DEF IInv
  <1>8. ASSUME NEW c \in Conns, WaitReturns(c) \/ ServeReturns(c)
        PROVE  \A e \in Conns : NoticedOK(e)'
    <2>1. /\ pc'[c] # "bridge" /\ pc[c] # "create"
          /\ UNCHANGED <<peer, known, stream>>
          /\ target'[c] # "open" \/ target'[c] = target[c]
          /\ \A e \in Conns \ {c} : /\ pc'[e] = pc[e] /\ target'[e] = target[e]
                                    /\ e \in watch' <=> e \in watch
        BY <1>8 DEF WaitReturns, ServeReturns, AfterWait, IInv, TypeOK
    <2>2. NoticedOK(c)'
        BY <2>1 DEF NoticedOK
    <2>3. ASSUME NEW e \in Conns \ {c}
          PROVE  /\ pc'[e] = pc[e] /\ stream'[e] = stream[e]
                 /\ peer'[e] = peer[e] /\ target'[e] = target[e]
                 /\ e \in known' <=> e \in known
                 /\ e \in watch' <=> e \in watch
        BY <2>1
    <2> QED BY <2>2, <2>3, NoticedFrame DEF IInv
  <1> QED BY <1>1, <1>2, <1>3, <1>4, <1>5, <1>6, <1>7, <1>8 DEF Next, Run

\* EndIsNoticed, on which EndsReachTarget rests: somebody always waits for the
\* end that a user or an administrator may make.
THEOREM EndNoticed == Spec => []EndIsNoticed
  <1>1. Init => \A c \in Conns : NoticedOK(c)
      BY DEF Init, NoticedOK
  <1>2. IInv /\ (\A c \in Conns : NoticedOK(c)) => EndIsNoticed
      BY DEF NoticedOK, EndIsNoticed, IInv, TypeOK, Conns
  <1>3. IInv /\ (\A c \in Conns : NoticedOK(c)) /\ [Next]_vars
           => (\A c \in Conns : NoticedOK(c))'
      BY NoticedStep
  <1> QED BY <1>1, <1>2, <1>3, Invariance, PTL DEF Spec

\* TerminalsLimited: a terminal with an open target holds a slot.
THEOREM TerminalsBounded == Spec => []TerminalsLimited
  <1>1. IInv => TerminalsLimited
    <2> SUFFICES ASSUME IInv PROVE TerminalsLimited
        OBVIOUS
    <2>1. ASSUME NEW d \in Dialers
          PROVE  Cardinality({c \in Recorded : target[c] = "open"
                                               /\ DialerOf(c) = d}) <= Limit
      <3> DEFINE S == {c \in Recorded : target[c] = "open" /\ DialerOf(c) = d}
      <3>1. S \subseteq Holders(d)
          BY KindsDisjoint DEF IInv, Every, ConnOK, EndOK, Holders, HoldsSlot,
             Conns, Recorded
      <3>2. IsFiniteSet(Holders(d)) /\ Cardinality(Holders(d)) <= Limit
          BY BoundsType DEF IInv, SlotsInv, TypeOK
      <3>3. /\ Cardinality(S) <= Cardinality(Holders(d))
            /\ Cardinality(S) \in Nat /\ Cardinality(Holders(d)) \in Nat
          BY <3>1, <3>2, FS_Subset, FS_CardinalityType
      <3> QED BY <3>2, <3>3, BoundsType
    <2>2. \A c \in Conns \ Tunnel : pc[c] = "done" => target[c] # "open"
        BY DEF IInv, Every, ConnOK, EndOK
    <2> QED BY <2>1, <2>2 DEF TerminalsLimited
  <1> QED BY <1>1, Invariance, PTL

-----------------------------------------------------------------------------
(* The fold of the command filter                                          *)

\* A set of natural numbers that is not empty has a least one.
LEMMA LeastNatural ==
    ASSUME NEW T, T \subseteq Nat, T # {}
    PROVE  \E x \in T : \A y \in T : x <= y
  <1> DEFINE R == {p \in Nat \X Nat : p[1] < p[2]}
  <1>1. IsWellFoundedOn(R, Nat)
    BY NatLessThanWellFounded, Zenon DEF OpToRel
  <1>2. \E x \in T : \A y \in T : ~ (<<y, x>> \in R)
    <2> HIDE DEF R
    <2> QED BY <1>1, WFMin
  <1>3. \A x, y \in Nat : <<y, x>> \in R <=> y < x
    OBVIOUS
  <1>4. PICK x \in T : \A y \in T : ~ (<<y, x>> \in R)
    BY <1>2
  <1> HIDE DEF R
  <1>5. ASSUME NEW y \in T PROVE x <= y
    <2>1. x \in Nat /\ y \in Nat
      BY <1>4
    <2>2. ~ (y < x)
      BY <1>3, <1>4, <1>5, <2>1
    <2> QED BY <2>1, <2>2
  <1> QED BY <1>5

\* The largest number of a set is the one that bounds it.
LEMMA MaxIs ==
    ASSUME NEW S, S \subseteq Int, NEW m \in S, \A y \in S : y <= m
    PROVE  Filter!Max(S) = m
  <1> DEFINE x == CHOOSE z \in S : \A y \in S : z >= y
  <1>1. \A y \in S : m >= y
      OBVIOUS
  <1>2. x \in S /\ \A y \in S : x >= y
      BY <1>1, Zenon
  <1>3. Filter!Max(S) = x
      BY DEF Filter!Max
  <1> HIDE DEF x
  <1>4. x <= m /\ m <= x /\ x \in Int /\ m \in Int
      BY <1>2
  <1> QED BY <1>3, <1>4

\* The recursion of MapThenFoldSet, for FoldLeft over the first n bytes.
Folding(n, F, chunk, base) ==
    F = [s \in SUBSET (1..n) |->
            IF s = {} THEN base
            ELSE Filter!Collect(F[s \ {Filter!Max(s)}], chunk[Filter!Max(s)])]

\* FoldLeft is defined by a recursive function, which exists.
LEMMA FoldingExists ==
    ASSUME NEW chunk, NEW base, NEW n \in Nat
    PROVE  \E F : Folding(n, F, chunk, base)
  <1> DEFINE T == {m \in Nat : ~ \E F : Folding(m, F, chunk, base)}
  <1>1. SUFFICES ASSUME T # {} PROVE FALSE
      OBVIOUS
  <1>2. PICK m \in T : \A k \in T : m <= k
      BY <1>1, LeastNatural
  <1>3. CASE m = 0
    <2> DEFINE F == [s \in SUBSET (1..0) |-> base]
    <2>1. Folding(0, F, chunk, base)
        BY DEF Folding
    <2> QED BY <1>2, <1>3, <2>1
  <1>4. CASE m # 0
    <2>1. m - 1 \in Nat /\ m - 1 \notin T
        BY <1>2, <1>4
    <2>2. PICK F : Folding(m - 1, F, chunk, base)
        BY <2>1
    <2> DEFINE G == [s \in SUBSET (1..m) |->
                       IF m \in s THEN Filter!Collect(F[s \ {m}], chunk[m])
                                  ELSE F[s]]
    <2>3. ASSUME NEW s \in SUBSET (1..m)
          PROVE  G[s] = IF s = {} THEN base
                        ELSE Filter!Collect(G[s \ {Filter!Max(s)}],
                                            chunk[Filter!Max(s)])
      <3>1. CASE m \in s
        <4>0. s \subseteq Int /\ \A y \in s : y <= m
            BY <1>2
        <4>1. Filter!Max(s) = m
            BY <3>1, <4>0, MaxIs, Zenon
        <4>2. s \ {m} \in SUBSET (1..m) /\ m \notin s \ {m}
            OBVIOUS
        <4> QED BY <3>1, <4>1, <4>2
      <3>2. CASE m \notin s
        <4>1. s \in SUBSET (1..(m - 1))
            BY <3>2
        <4>2. /\ s \ {Filter!Max(s)} \in SUBSET (1..m)
              /\ m \notin s \ {Filter!Max(s)}
            BY <3>2
        <4>3. F[s] = IF s = {} THEN base
                     ELSE Filter!Collect(F[s \ {Filter!Max(s)}],
                                         chunk[Filter!Max(s)])
            BY <2>2, <4>1 DEF Folding
        <4> QED BY <3>2, <4>2, <4>3
      <3> QED BY <3>1, <3>2
    <2>4. Folding(m, G, chunk, base)
        BY <2>3, Zenon DEF Folding
    <2> QED BY <1>2, <2>4
  <1> QED BY <1>3, <1>4

\* What FoldLeft makes of a chunk, byte by byte.
LEMMA FoldSteps ==
    ASSUME NEW chunk \in Seq(Bytes), NEW base
    PROVE  \E f : /\ f[0] = base
                  /\ \A k \in 1..Len(chunk) :
                        f[k] = Filter!Collect(f[k - 1], chunk[k])
                  /\ f[Len(chunk)] = Filter!FoldLeft(Filter!Collect, base, chunk)
  <1> DEFINE n == Len(chunk)
             iter == CHOOSE F : Folding(n, F, chunk, base)
             f == [k \in 0..n |-> iter[1..k]]
  <1>1. n \in Nat /\ DOMAIN chunk = 1..n
      OBVIOUS
  <1>2. Folding(n, iter, chunk, base)
      BY <1>1, FoldingExists
  <1> HIDE DEF iter
  <1>3. f[0] = base
    <2>1. 1..0 = {} /\ {} \in SUBSET (1..n)
        OBVIOUS
    <2>2. iter[{}] = base
        BY <1>2, <2>1 DEF Folding
    <2> QED BY <1>1, <2>1, <2>2
  <1>4. ASSUME NEW k \in 1..n PROVE f[k] = Filter!Collect(f[k - 1], chunk[k])
    <2> HIDE DEF n
    <2>1. /\ 1..k \in SUBSET (1..n) /\ k \in 1..k /\ 1..k # {}
          /\ (1..k) \ {k} = 1..(k - 1)
          /\ 1..k \subseteq Int /\ \A y \in 1..k : y <= k
        BY <1>1
    <2>2. Filter!Max(1..k) = k
        BY <2>1, MaxIs, Zenon
    <2>3. iter[1..k] = Filter!Collect(iter[1..(k - 1)], chunk[k])
        BY <1>2, <2>1, <2>2 DEF Folding
    <2> QED BY <1>1, <2>3
  <1>5. f[n] = Filter!FoldLeft(Filter!Collect, base, chunk)
    BY <1>1 DEF Filter!FoldLeft, Filter!MapThenFoldSet, Folding, iter
  <1> QED BY <1>3, <1>4, <1>5

\* A set of numbers with a bound has a largest one.
LEMMA MaxIn ==
    ASSUME NEW n \in Nat, NEW S, S \subseteq 0..n, S # {}
    PROVE  Filter!Max(S) \in S /\ \A y \in S : y <= Filter!Max(S)
  <1> DEFINE T == {n - x : x \in S}
  <1>1. T \subseteq Nat /\ T # {}
    <2>1. \A x \in S : n - x \in Nat
        OBVIOUS
    <2> QED BY <2>1
  <1>2. PICK d \in T : \A y \in T : d <= y
      BY <1>1, LeastNatural
  <1>3. PICK m \in S : d = n - m
      BY <1>2
  <1>4. \A y \in S : y <= m
    <2>1. ASSUME NEW y \in S PROVE y <= m
      <3>1. n - y \in T
          OBVIOUS
      <3>2. n - m <= n - y
          BY <1>2, <1>3, <3>1
      <3>3. y \in Int /\ m \in Int
          OBVIOUS
      <3> HIDE DEF T
      <3> QED BY <3>2, <3>3
    <2> QED BY <2>1
  <1>5. Filter!Max(S) = m
    <2>1. S \subseteq Int
        OBVIOUS
    <2> QED BY <1>4, <2>1, MaxIs, Zenon
  <1> QED BY <1>4, <1>5

\* Where a line begins: behind every earlier end, and not behind its own.
LEMMA BeginFacts ==
    ASSUME NEW text \in Seq(Bytes), NEW e \in 1..(Len(text) + 1)
    PROVE  /\ Filter!Begin(text, e) \in 1..e
           /\ \A i \in Filter!Ends(text) : i < e => i < Filter!Begin(text, e)
  <1> DEFINE S == {0} \union {i \in Filter!Ends(text) : i < e}
  <1>1. Len(text) \in Nat /\ Filter!Ends(text) \subseteq 1..Len(text)
      BY DEF Filter!Ends
  <1>2. S \subseteq 0..Len(text) /\ S # {} /\ \A y \in S : y < e
      BY <1>1
  <1>3. Filter!Begin(text, e) = Filter!Max(S) + 1
      BY DEF Filter!Begin
  <1>4. \A i \in Filter!Ends(text) : i < e => i \in S
      OBVIOUS
  <1> HIDE DEF S
  <1>5. Filter!Max(S) \in S /\ \A y \in S : y <= Filter!Max(S)
      BY <1>1, <1>2, MaxIn
  <1>6. Filter!Max(S) \in 0..Len(text) /\ Filter!Max(S) < e
      BY <1>2, <1>5
  <1> QED BY <1>1, <1>3, <1>4, <1>5, <1>6

\* The filter counts as the theorems about finite sets do.
LEMMA SameCount ==
    ASSUME NEW S
    PROVE  Filter!Cardinality(S) = Cardinality(S)
  BY DEF Filter!Cardinality, Cardinality

\* The listing of a function grows at its end.
LEMMA ListsGrow ==
    ASSUME NEW V, NEW v \in Seq(V), NEW w \in Seq(V), NEW f, NEW g,
           NEW a \in Nat, DOMAIN f \subseteq 1..a, Filter!Lists(v, f),
           DOMAIN g = DOMAIN f \union ((a + 1)..(a + Len(w))),
           \A i \in DOMAIN f : g[i] = f[i],
           \A k \in 1..Len(w) : g[a + k] = w[k]
    PROVE  Filter!Lists(v \o w, g)
  <1> DEFINE D == DOMAIN f
             E == DOMAIN g
             r(i) == Cardinality({j \in E : j <= i})
  <1>0. /\ Len(v) = Cardinality(D)
        /\ \A i \in D : v[Cardinality({j \in D : j <= i})] = f[i]
      BY SameCount DEF Filter!Lists
  <1>1. IsFiniteSet(D) /\ Len(w) \in Nat /\ Len(v) \in Nat
    <2>1. IsFiniteSet(1..a)
        BY FS_Interval
    <2>2. IsFiniteSet(D)
        BY <2>1, FS_Subset
    <2> QED BY <2>2
  <1>2. ASSUME NEW k \in 0..Len(w)
        PROVE  Cardinality(D \union ((a + 1)..(a + k))) = Len(v) + k
    <2> DEFINE I == (a + 1)..(a + k)
    <2>1. IsFiniteSet(I) /\ Cardinality(I) = k
      <3>1. a + 1 \in Int /\ a + k \in Int /\ a + 1 <= a + k + 1
          BY <1>1
      <3>2. IsFiniteSet(I) /\ Cardinality(I) = IF a + 1 > a + k THEN 0
                                               ELSE (a + k) - (a + 1) + 1
          BY <3>1, FS_Interval
      <3> QED BY <1>1, <3>2
    <2>2. D \intersect I = {}
        OBVIOUS
    <2>3. Cardinality(D \union I) = Cardinality(D) + Cardinality(I)
      <3> HIDE DEF D, I
      <3>1. Cardinality(D \union I) =
               Cardinality(D) + Cardinality(I) - Cardinality(D \intersect I)
          BY <1>1, <2>1, FS_Union
      <3>2. Cardinality(D \intersect I) = 0
          BY <2>2, FS_EmptySet
      <3>3. Cardinality(D) \in Nat /\ Cardinality(I) \in Nat
          BY <1>1, <2>1, FS_CardinalityType
      <3> QED BY <3>1, <3>2, <3>3
    <2> QED BY <1>0, <1>1, <2>1, <2>3
  <1>3. Len(v \o w) = Cardinality(E)
    <2>1. Len(v \o w) = Len(v) + Len(w)
        OBVIOUS
    <2>2. Len(w) \in 0..Len(w)
        BY <1>1
    <2> QED BY <1>2, <2>1, <2>2
  <1>4. ASSUME NEW i \in D PROVE (v \o w)[r(i)] = g[i]
    <2> DEFINE L == {j \in D : j <= i}
    <2>1. {j \in E : j <= i} = L
        BY <1>1
    <2>2. IsFiniteSet(L) /\ Cardinality(L) <= Cardinality(D)
        BY <1>1, FS_Subset
    <2>3. i \in L
        OBVIOUS
    <2>4. Cardinality(L) # 0 /\ Cardinality(L) \in Nat
        BY <2>2, <2>3, FS_EmptySet, FS_CardinalityType
    <2>5. Cardinality(L) \in 1..Len(v)
        BY <1>0, <1>1, <2>2, <2>4
    <2>6. (v \o w)[Cardinality(L)] = v[Cardinality(L)]
      <3> HIDE DEF L
      <3> QED BY <2>5
    <2>7. v[Cardinality(L)] = f[i]
        BY <1>0
    <2> QED BY <2>1, <2>6, <2>7
  <1>5. ASSUME NEW i \in (a + 1)..(a + Len(w)) PROVE (v \o w)[r(i)] = g[i]
    <2> DEFINE k == i - a
    <2>1. k \in 1..Len(w) /\ k \in 0..Len(w) /\ a + k = i
        BY <1>1
    <2>2. {j \in E : j <= i} = D \union ((a + 1)..(a + k))
        BY <1>1, <2>1
    <2>3. r(i) = Len(v) + k
        BY <1>2, <2>1, <2>2
    <2> HIDE DEF k
    <2>4. (v \o w)[Len(v) + k] = w[k]
        BY <2>1
    <2> QED BY <2>1, <2>3, <2>4
  <1>6. ASSUME NEW i \in E PROVE (v \o w)[r(i)] = g[i]
      BY <1>4, <1>5
  <1> QED BY <1>3, <1>6, SameCount DEF Filter!Lists

\* What FilteredAsWhole says of a text, of what the target was or will be
\* given, of the rules the client was told of, and of what stays behind.
Rejected(text) ==
    {e \in Filter!Ends(text) :
        Filter!Rejects(Filter!Match(Filter!LineAt(text, e)))}
Given(text) ==
    UNION {Filter!Begin(text, e)..e : e \in Filter!Ends(text) \ Rejected(text)}
Told(text) == [e \in Rejected(text) |-> Filter!Match(Filter!LineAt(text, e))]
Rest(text) == SubSeq(text, Filter!Begin(text, Len(text) + 1), Len(text))

Filtered(text, out, told, rest) ==
    /\ Filter!Lists(out, [i \in Given(text) |-> text[i]])
    /\ Filter!Lists(told, Told(text))
    /\ rest = Rest(text)

\* A byte more changes nothing about the lines that have ended.
OneMore(text, b, all, n) ==
    /\ all \in Seq(Bytes) /\ Len(all) = n + 1 /\ all[n + 1] = b
    /\ \A i \in 1..n : all[i] = text[i]
    /\ n \in Nat /\ Filter!Ends(text) \subseteq 1..n
    /\ Filter!Ends(all) = Filter!Ends(text) \union
                          (IF b \in LineEnds THEN {n + 1} ELSE {})
    /\ \A e \in 1..(n + 1) : Filter!Begin(all, e) = Filter!Begin(text, e)
    /\ \A e \in Filter!Ends(text) :
          Filter!LineAt(all, e) = Filter!LineAt(text, e)
    /\ SubSeq(all, Filter!Begin(all, n + 1), n + 1) = Append(Rest(text), b)

LEMMA OneByteMore ==
    ASSUME NEW text \in Seq(Bytes), NEW b \in Bytes
    PROVE  OneMore(text, b, Append(text, b), Len(text))
  <1> DEFINE all == Append(text, b)
             n == Len(text)
  <1>1. /\ all \in Seq(Bytes) /\ Len(all) = n + 1 /\ all[n + 1] = b /\ n \in Nat
        /\ \A i \in 1..n : all[i] = text[i]
      OBVIOUS
  <1>2. /\ Filter!Ends(text) \subseteq 1..n
        /\ Filter!Ends(all) = Filter!Ends(text) \union
                              (IF b \in LineEnds THEN {n + 1} ELSE {})
    <2>1. DOMAIN text = 1..n /\ DOMAIN all = 1..(n + 1)
        BY <1>1
    <2> HIDE DEF all, n
    <2> QED BY <1>1, <2>1 DEF Filter!Ends
  <1> HIDE DEF all, n
  <1>3. ASSUME NEW e \in 1..(n + 1)
        PROVE  Filter!Begin(all, e) = Filter!Begin(text, e)
    <2>1. {i \in Filter!Ends(all) : i < e} = {i \in Filter!Ends(text) : i < e}
        BY <1>1, <1>2
    <2> QED BY <2>1, Zenon DEF Filter!Begin
  <1>4. ASSUME NEW e \in Filter!Ends(text)
        PROVE  Filter!LineAt(all, e) = Filter!LineAt(text, e)
    <2>1. e \in 1..n /\ e \in 1..(Len(text) + 1)
        BY <1>1, <1>2 DEF n
    <2>2. Filter!Begin(text, e) \in 1..e
        BY <2>1, BeginFacts
    <2>3. Filter!Begin(all, e) = Filter!Begin(text, e)
        BY <1>1, <1>3, <2>1
    <2> DEFINE m == Filter!Begin(text, e)
    <2> HIDE DEF m
    <2>4. SubSeq(all, m, e) = SubSeq(text, m, e)
      <3>1. m \in 1..e
          BY <2>2 DEF m
      <3>2. SubSeq(all, m, e) = [i \in 1..(e + 1 - m) |-> all[i + m - 1]]
          BY <1>1, <2>1, <3>1 DEF n
      <3>3. SubSeq(text, m, e) = [i \in 1..(e + 1 - m) |-> text[i + m - 1]]
          BY <1>1, <2>1, <3>1 DEF n
      <3>4. ASSUME NEW i \in 1..(e + 1 - m)
            PROVE  all[i + m - 1] = text[i + m - 1]
        <4>1. i + m - 1 \in 1..n
            BY <1>1, <2>1, <3>1
        <4> QED BY <1>1, <4>1
      <3> QED BY <3>2, <3>3, <3>4
    <2> QED BY <2>3, <2>4 DEF Filter!LineAt, m
  <1>5. SubSeq(all, Filter!Begin(all, n + 1), n + 1) = Append(Rest(text), b)
    <2> DEFINE m == Filter!Begin(text, n + 1)
    <2>1. n + 1 \in 1..(n + 1) /\ n + 1 \in 1..(Len(text) + 1)
        BY <1>1 DEF n
    <2>2. m \in 1..(n + 1)
        BY <2>1, BeginFacts
    <2>3. Filter!Begin(all, n + 1) = m
        BY <1>3, <2>1
    <2>4. Rest(text) = SubSeq(text, m, n)
        BY DEF Rest, n
    <2> HIDE DEF m
    <2>5. SubSeq(all, m, n + 1) = Append(SubSeq(text, m, n), b)
      <3>1. SubSeq(all, m, n + 1) = [i \in 1..(n + 2 - m) |-> all[i + m - 1]]
          BY <1>1, <2>2 DEF n
      <3>2. SubSeq(text, m, n) = [i \in 1..(n + 1 - m) |-> text[i + m - 1]]
          BY <1>1, <2>2 DEF n
      <3>3. /\ SubSeq(text, m, n) \in Seq(Bytes)
            /\ Len(SubSeq(text, m, n)) = n + 1 - m
          BY <1>1, <2>2 DEF n
      <3>4. Append(SubSeq(text, m, n), b) =
               [i \in 1..(n + 2 - m) |-> IF i = n + 2 - m THEN b
                                          ELSE SubSeq(text, m, n)[i]]
          BY <1>1, <2>2, <3>3
      <3>5. ASSUME NEW i \in 1..(n + 2 - m)
            PROVE  all[i + m - 1] = IF i = n + 2 - m THEN b
                                    ELSE SubSeq(text, m, n)[i]
          BY <1>1, <2>2, <3>2
      <3> QED BY <3>1, <3>4, <3>5
    <2> QED BY <2>3, <2>4, <2>5
  <1> QED BY <1>1, <1>2, <1>3, <1>4, <1>5, Zenon DEF OneMore, all, n

\* What was given on lies before the line that has no end yet.
LEMMA GivenBefore ==
    ASSUME NEW text \in Seq(Bytes)
    PROVE  /\ Filter!Begin(text, Len(text) + 1) \in 1..(Len(text) + 1)
           /\ Given(text) \subseteq 1..(Filter!Begin(text, Len(text) + 1) - 1)
           /\ Rejected(text) \subseteq 1..Len(text)
  <1> DEFINE n == Len(text)
             B == Filter!Begin(text, n + 1)
  <1>1. n \in Nat /\ Filter!Ends(text) \subseteq 1..n
      BY DEF Filter!Ends
  <1>2. n + 1 \in 1..(Len(text) + 1)
      BY <1>1
  <1>3. B \in 1..(n + 1) /\ \A e \in Filter!Ends(text) : e < n + 1 => e < B
      BY <1>2, BeginFacts
  <1>4. ASSUME NEW e \in Filter!Ends(text)
        PROVE  Filter!Begin(text, e)..e \subseteq 1..(B - 1)
    <2>1. e \in 1..(Len(text) + 1) /\ e < n + 1
        BY <1>1
    <2>2. Filter!Begin(text, e) \in 1..e
        BY <2>1, BeginFacts
    <2> HIDE DEF B, n
    <2> QED BY <1>1, <1>3, <2>1, <2>2
  <1>5. Given(text) \subseteq 1..(B - 1)
      BY <1>4 DEF Given
  <1> QED BY <1>1, <1>3, <1>5 DEF Rejected

State(V) == [line : Seq(Bytes), buf : Seq(Bytes), notices : Seq(V)]
Good(text, before, st) ==
    /\ text \in Seq(Bytes) /\ before \in Seq(Bytes)
    /\ \E V : st \in State(V)
    /\ Filtered(text, before \o st.buf, st.notices, st.line)

\* One turn of the loop keeps it.
LEMMA CollectGood ==
    ASSUME NEW text, NEW before, NEW st, Good(text, before, st), NEW b \in Bytes
    PROVE  Good(Append(text, b), before, Filter!Collect(st, b))
  <1> DEFINE all == Append(text, b)
             n == Len(text)
             full == Append(st.line, b)
             rule == Filter!Match(full)
             next == Filter!Collect(st, b)
             B == Filter!Begin(text, n + 1)
  <1>1. text \in Seq(Bytes) /\ before \in Seq(Bytes)
      BY DEF Good
  <1>2. PICK V : st \in State(V)
      BY DEF Good
  <1>3. /\ Filter!Lists(before \o st.buf, [i \in Given(text) |-> text[i]])
        /\ Filter!Lists(st.notices, Told(text)) /\ st.line = Rest(text)
      BY DEF Good, Filtered
  <1>4. /\ all \in Seq(Bytes) /\ Len(all) = n + 1 /\ all[n + 1] = b
        /\ \A i \in 1..n : all[i] = text[i]
        /\ n \in Nat /\ Filter!Ends(text) \subseteq 1..n
        /\ Filter!Ends(all) = Filter!Ends(text) \union
                              (IF b \in LineEnds THEN {n + 1} ELSE {})
        /\ \A e \in 1..(n + 1) : Filter!Begin(all, e) = Filter!Begin(text, e)
        /\ \A e \in Filter!Ends(text) :
              Filter!LineAt(all, e) = Filter!LineAt(text, e)
        /\ SubSeq(all, Filter!Begin(all, n + 1), n + 1) = full
    <2>1. OneMore(text, b, all, n)
        BY <1>1, OneByteMore
    <2> QED BY <1>3, <2>1, Zenon DEF OneMore
  <1>5. /\ B \in 1..(n + 1) /\ Given(text) \subseteq 1..(B - 1)
        /\ Rejected(text) \subseteq 1..n
      BY <1>1, GivenBefore
  <1>6. /\ st.line \in Seq(Bytes) /\ st.buf \in Seq(Bytes)
        /\ st.notices \in Seq(V) /\ full \in Seq(Bytes)
      BY <1>2 DEF State
  <1> HIDE DEF all, n, full, B
  <1>7. \A i \in Given(text) : all[i] = text[i]
      BY <1>4, <1>5
  <1>8. CASE b \notin LineEnds
    <2>1. next = [st EXCEPT !.line = full]
        BY <1>8 DEF Filter!Collect, full
    <2>2. Filter!Ends(all) = Filter!Ends(text)
        BY <1>4, <1>8
    <2>3. Rejected(all) = Rejected(text)
        BY <1>4, <2>2 DEF Rejected
    <2>4. Given(all) = Given(text)
      <3>1. \A e \in Filter!Ends(text) : Filter!Begin(all, e) = Filter!Begin(text, e)
          BY <1>4
      <3> QED BY <2>2, <2>3, <3>1 DEF Given
    <2>5. Told(all) = Told(text)
      <3>1. \A e \in Rejected(text) : Filter!LineAt(all, e) = Filter!LineAt(text, e)
          BY <1>4 DEF Rejected
      <3> QED BY <2>3, <3>1 DEF Told
    <2>6. [i \in Given(all) |-> all[i]] = [i \in Given(text) |-> text[i]]
        BY <1>7, <2>4
    <2>7. Rest(all) = full
      <3>1. {i \in Filter!Ends(all) : i < n + 2} = {i \in Filter!Ends(all) : i < n + 1}
          BY <1>4, <2>2
      <3>2. Filter!Begin(all, n + 2) = Filter!Begin(all, n + 1)
          BY <3>1, Zenon DEF Filter!Begin
      <3>3. Len(all) + 1 = n + 2
          BY <1>4
      <3> QED BY <1>4, <3>2, <3>3 DEF Rest
    <2>8. /\ next \in State(V) /\ next.line = full /\ next.buf = st.buf
          /\ next.notices = st.notices
        BY <1>2, <1>6, <2>1 DEF State
    <2> QED BY <1>1, <1>3, <1>4, <2>5, <2>6, <2>7, <2>8, Zenon
           DEF Good, Filtered, all
  <1>9. CASE b \in LineEnds
    <2>1. /\ Filter!Ends(all) = Filter!Ends(text) \union {n + 1}
          /\ n + 1 \notin Filter!Ends(text)
        BY <1>4, <1>9
    <2>2. Filter!LineAt(all, n + 1) = full
        BY <1>4 DEF Filter!LineAt
    <2>3. Rest(all) = <<>>
      <3>1. n + 2 \in 1..(Len(all) + 1) /\ n + 1 \in Filter!Ends(all) /\ n + 1 < n + 2
          BY <1>4, <2>1
      <3>2. /\ Filter!Begin(all, n + 2) \in 1..(n + 2)
            /\ n + 1 < Filter!Begin(all, n + 2)
          BY <1>4, <3>1, BeginFacts
      <3>3. Filter!Begin(all, n + 2) = n + 2
          BY <1>4, <3>2
      <3>4. Len(all) + 1 = n + 2 /\ Len(all) = n + 1
          BY <1>4
      <3>5. SubSeq(all, n + 2, n + 1) = <<>>
          BY <1>4
      <3> QED BY <3>3, <3>4, <3>5 DEF Rest
    <2>4. \A e \in Filter!Ends(text) :
             /\ Filter!Begin(all, e) = Filter!Begin(text, e)
             /\ Filter!LineAt(all, e) = Filter!LineAt(text, e)
        BY <1>4
    <2>5. CASE Filter!Rejects(rule)
      <3>1. /\ next \in State(V \union {rule}) /\ next.line = <<>>
            /\ next.buf = st.buf /\ next.notices = Append(st.notices, rule)
        <4>1. next = [st EXCEPT !.line = <<>>, !.notices = Append(@, rule)]
            BY <1>9, <2>5 DEF Filter!Collect, full
        <4>2. Append(st.notices, rule) \in Seq(V \union {rule})
            BY <1>6
        <4> DEFINE none == <<>>
                   s1 == [st EXCEPT !.line = none]
        <4>3. /\ s1 \in State(V) /\ s1.line = none /\ s1.buf = st.buf
              /\ s1.notices = st.notices
          <5>1. none \in Seq(Bytes)
              OBVIOUS
          <5> HIDE DEF none
          <5> QED BY <1>2, <5>1 DEF State
        <4>4. next = [s1 EXCEPT !.notices = Append(st.notices, rule)]
            BY <1>2, <4>1 DEF State
        <4> HIDE DEF rule, s1, next
        <4> QED BY <4>2, <4>3, <4>4 DEF State
      <3>2. Rejected(all) = Rejected(text) \union {n + 1}
          BY <2>1, <2>2, <2>4, <2>5 DEF Rejected
      <3>3. Given(all) = Given(text)
        <4>1. Filter!Ends(all) \ Rejected(all) = Filter!Ends(text) \ Rejected(text)
            BY <2>1, <3>2
        <4> QED BY <2>4, <4>1 DEF Given
      <3>4. [i \in Given(all) |-> all[i]] = [i \in Given(text) |-> text[i]]
          BY <1>7, <3>3
      <3>5. Filter!Lists(Append(st.notices, rule), Told(all))
        <4> DEFINE w == <<rule>>
                   U == V \union {rule}
        <4> HIDE DEF rule
        <4>1. /\ st.notices \in Seq(U) /\ w \in Seq(U) /\ Len(w) = 1 /\ w[1] = rule
              /\ Append(st.notices, rule) = st.notices \o w
            BY <1>6
        <4>2. DOMAIN Told(text) = Rejected(text) /\ DOMAIN Told(all) = Rejected(all)
            BY DEF Told
        <4>3. (n + 1)..(n + Len(w)) = {n + 1} /\ n \in Nat
            BY <1>4, <4>1
        <4>4. \A i \in Rejected(text) : Told(all)[i] = Told(text)[i]
            BY <2>4, <3>2 DEF Told, Rejected
        <4>5. Told(all)[n + 1] = w[1]
            BY <2>2, <3>2, <4>1 DEF Told, rule
        <4>6. \A k \in 1..Len(w) : Told(all)[n + k] = w[k]
            BY <4>1, <4>5
        <4> HIDE DEF w, U
        <4>7. /\ DOMAIN Told(text) \subseteq 1..n
              /\ DOMAIN Told(all) = DOMAIN Told(text) \union ((n + 1)..(n + Len(w)))
              /\ \A i \in DOMAIN Told(text) : Told(all)[i] = Told(text)[i]
            BY <1>5, <3>2, <4>2, <4>3, <4>4, Zenon
        <4>8. Filter!Lists(st.notices \o w, Told(all))
          <5>1. /\ st.notices \in Seq(U) /\ w \in Seq(U) /\ n \in Nat
                /\ Filter!Lists(st.notices, Told(text))
              BY <1>3, <4>1, <4>3, Zenon
          <5> DEFINE told == st.notices
                     f == Told(text)
                     g == Told(all)
          <5> HIDE DEF told, f, g
          <5>2. /\ told \in Seq(U) /\ Filter!Lists(told, f) /\ DOMAIN f \subseteq 1..n
                /\ DOMAIN g = DOMAIN f \union ((n + 1)..(n + Len(w)))
                /\ \A i \in DOMAIN f : g[i] = f[i]
                /\ \A k \in 1..Len(w) : g[n + k] = w[k]
              BY <4>6, <4>7, <5>1, Zenon DEF told, f, g
          <5>3. Filter!Lists(told \o w, g)
              BY <5>1, <5>2, ListsGrow
          <5> QED BY <5>3 DEF told, g
        <4> QED BY <4>1, <4>8, Zenon
      <3> QED BY <1>1, <1>3, <1>4, <2>3, <3>1, <3>4, <3>5, Zenon
                 DEF Good, Filtered, all
    <2>6. CASE ~Filter!Rejects(rule)
      <3>1. /\ next \in State(V) /\ next.line = <<>>
            /\ next.buf = st.buf \o full /\ next.notices = st.notices
        <4>1. next = [st EXCEPT !.line = <<>>, !.buf = @ \o full]
            BY <1>9, <2>6 DEF Filter!Collect, full
        <4>2. st.buf \o full \in Seq(Bytes)
            BY <1>6
        <4> DEFINE none == <<>>
                   s1 == [st EXCEPT !.line = none]
        <4>3. /\ s1 \in State(V) /\ s1.line = none /\ s1.buf = st.buf
              /\ s1.notices = st.notices
          <5>1. none \in Seq(Bytes)
              OBVIOUS
          <5> HIDE DEF none
          <5> QED BY <1>2, <5>1 DEF State
        <4>4. next = [s1 EXCEPT !.buf = st.buf \o full]
            BY <1>2, <4>1 DEF State
        <4> HIDE DEF s1, next
        <4> QED BY <4>2, <4>3, <4>4 DEF State
      <3>2. Rejected(all) = Rejected(text)
          BY <2>1, <2>2, <2>4, <2>6 DEF Rejected
      <3>3. Told(all) = Told(text)
          BY <2>4, <3>2 DEF Told, Rejected
      <3>4. Given(all) = Given(text) \union (B..(n + 1))
        <4>1. Filter!Ends(all) \ Rejected(all) =
                 (Filter!Ends(text) \ Rejected(text)) \union {n + 1}
            BY <1>4, <1>5, <2>1, <3>2
        <4>2. Filter!Begin(all, n + 1) = B
            BY <1>4 DEF B, n
        <4> QED BY <2>4, <4>1, <4>2 DEF Given
      <3>5. Filter!Lists((before \o st.buf) \o full, [i \in Given(all) |-> all[i]])
        <4> DEFINE f == [i \in Given(text) |-> text[i]]
                   g == [i \in Given(all) |-> all[i]]
                   v == before \o st.buf
                   a == B - 1
        <4>1. v \in Seq(Bytes) /\ a \in Nat
            BY <1>1, <1>5, <1>6
        <4>2. full = SubSeq(all, B, n + 1)
            BY <1>4 DEF B
        <4>3. /\ Len(full) = n + 2 - B
              /\ \A k \in 1..Len(full) : full[k] = all[a + k]
            BY <1>4, <1>5, <4>2
        <4>4. DOMAIN f = Given(text) /\ DOMAIN g = Given(all)
            OBVIOUS
        <4>5. (a + 1)..(a + Len(full)) = B..(n + 1)
            BY <1>4, <1>5, <4>3
        <4>6. \A i \in DOMAIN f : g[i] = f[i]
            BY <1>7, <3>4
        <4>7. \A k \in 1..Len(full) : g[a + k] = full[k]
          <5>1. ASSUME NEW k \in 1..Len(full) PROVE a + k \in Given(all)
              BY <1>4, <1>5, <3>4, <4>3
          <5> QED BY <4>3, <5>1
        <4>8. DOMAIN f \subseteq 1..a /\ Filter!Lists(v, f)
            BY <1>3, <1>5
        <4>9. DOMAIN g = DOMAIN f \union ((a + 1)..(a + Len(full)))
            BY <3>4, <4>4, <4>5
        <4> HIDE DEF f, g, v, a
        <4>10. Filter!Lists(v \o full, g)
            BY <1>6, <4>1, <4>6, <4>7, <4>8, <4>9, ListsGrow
        <4> QED BY <4>10 DEF g, v
      <3>6. (before \o st.buf) \o full = before \o (st.buf \o full)
        <4>1. \A s, t, u \in Seq(Bytes) : (s \o t) \o u = s \o (t \o u)
          <5>1. ASSUME NEW s \in Seq(Bytes), NEW t \in Seq(Bytes),
                       NEW u \in Seq(Bytes)
                PROVE  (s \o t) \o u = s \o (t \o u)
              BY ConcatAssociative
          <5> QED BY <5>1
        <4> QED BY <1>1, <1>6, <4>1, Zenon
      <3> QED BY <1>1, <1>3, <1>4, <2>3, <3>1, <3>3, <3>5, <3>6, Zenon
                 DEF Good, Filtered, all
    <2> QED BY <2>5, <2>6
  <1> QED BY <1>8, <1>9 DEF all

\* So does a whole chunk, whatever its length.
LEMMA ChunkGood ==
    ASSUME NEW text, NEW before, NEW base, Good(text, before, base),
           NEW chunk \in Seq(Bytes)
    PROVE  Good(text \o chunk, before, Filter!FoldLeft(Filter!Collect, base, chunk))
  <1> DEFINE n == Len(chunk)
             at(k) == text \o SubSeq(chunk, 1, k)
  <1>1. PICK f : /\ f[0] = base
                 /\ \A k \in 1..n : f[k] = Filter!Collect(f[k - 1], chunk[k])
                 /\ f[n] = Filter!FoldLeft(Filter!Collect, base, chunk)
      BY FoldSteps
  <1>2. text \in Seq(Bytes) /\ n \in Nat
      BY DEF Good
  <1> DEFINE T == {k \in 0..n : ~ Good(at(k), before, f[k])}
  <1>3. T = {}
    <2>1. SUFFICES ASSUME T # {} PROVE FALSE
        OBVIOUS
    <2>2. PICK k \in T : \A j \in T : k <= j
      <3>1. T \subseteq Nat
          OBVIOUS
      <3> QED BY <2>1, <3>1, LeastNatural
    <2>3. k # 0
      <3>1. SubSeq(chunk, 1, 0) = <<>> /\ text \o <<>> = text
          BY <1>2
      <3>2. at(0) = text
          BY <3>1
      <3> QED BY <1>1, <2>2, <3>2
    <2>4. k - 1 \in 0..n /\ k - 1 \notin T
      <3>1. k \in 1..n /\ ~ (k <= k - 1)
          BY <1>2, <2>3
      <3> QED BY <1>2, <2>2, <3>1
    <2>5. Good(at(k - 1), before, f[k - 1])
        BY <2>4
    <2>6. k \in 1..n /\ chunk[k] \in Bytes
        BY <1>2, <2>3
    <2>7. at(k) = Append(at(k - 1), chunk[k])
      <3>1. SubSeq(chunk, 1, k) = Append(SubSeq(chunk, 1, k - 1), chunk[k])
        <4>1. SubSeq(chunk, 1, k) = [i \in 1..k |-> chunk[i]]
            BY <2>6
        <4>2. /\ SubSeq(chunk, 1, k - 1) = [i \in 1..(k - 1) |-> chunk[i]]
              /\ SubSeq(chunk, 1, k - 1) \in Seq(Bytes)
            BY <2>6
        <4>3. Append(SubSeq(chunk, 1, k - 1), chunk[k]) =
                 [i \in 1..k |-> IF i = k THEN chunk[k]
                                 ELSE SubSeq(chunk, 1, k - 1)[i]]
            BY <2>6, <4>2
        <4> QED BY <2>6, <4>1, <4>2, <4>3
      <3>2. SubSeq(chunk, 1, k - 1) \in Seq(Bytes)
          BY <2>6
      <3>3. \A s \in Seq(Bytes), b \in Bytes :
               text \o Append(s, b) = Append(text \o s, b)
          BY <1>2
      <3> QED BY <2>6, <3>1, <3>2, <3>3, Zenon
    <2>8. Good(at(k), before, f[k])
        BY <1>1, <2>5, <2>6, <2>7, CollectGood, Zenon
    <2> QED BY <2>2, <2>8
  <1>4. Good(at(n), before, f[n])
      BY <1>2, <1>3
  <1>5. SubSeq(chunk, 1, n) = chunk
      BY <1>2
  <1> QED BY <1>1, <1>4, <1>5

-----------------------------------------------------------------------------
(* FilteredAsWhole *)

\* What the target was and will be given follows from all that was typed.
FilterInv ==
    /\ \A text \in {line, buf, delivered, typed} : text \in Seq(Bytes)
    /\ \E V : notices \in Seq(V)
    /\ IF rules = <<>> THEN delivered \o buf = typed
                       ELSE Filtered(typed, delivered \o buf, notices, line)

\* It is what the property says.
LEMMA FilterInvSays == ASSUME FilterInv PROVE FilteredAsWhole
  <1>1. CASE rules = <<>>
      BY <1>1 DEF FilterInv, FilteredAsWhole, Filter!FilteredAsWhole
  <1>2. CASE rules # <<>>
    <2>1. Filtered(typed, delivered \o buf, notices, line)
        BY <1>2 DEF FilterInv
    <2> QED BY <1>2, <2>1 DEF FilteredAsWhole, Filter!FilteredAsWhole, Filtered,
                              Rejected, Given, Told, Rest
  <1> QED BY <1>1, <1>2

LEMMA FilterInit == ASSUME Filter!Init PROVE FilterInv
  <1>1. /\ line = <<>> /\ buf = <<>> /\ delivered = <<>> /\ typed = <<>>
        /\ notices = <<>>
      BY DEF Filter!Init
  <1> DEFINE none == <<>>
  <1>2. /\ none \in Seq(Bytes) /\ none \in Seq({})
        /\ none \o none = none /\ Len(none) = 0
      OBVIOUS
  <1>3. Filtered(none, none, none, none)
    <2>1. Filter!Ends(none) = {}
        BY DEF Filter!Ends
    <2>2. Rejected(none) = {} /\ Given(none) = {}
        BY <2>1 DEF Rejected, Given
    <2>3. \A f : DOMAIN f = {} => Filter!Lists(none, f)
        BY SameCount, FS_EmptySet DEF Filter!Lists
    <2>4. DOMAIN Told(none) = {} /\ DOMAIN [i \in Given(none) |-> none[i]] = {}
        BY <2>2 DEF Told
    <2>5. Rest(none) = none
      <3>1. {0} \union {i \in Filter!Ends(none) : i < 1} = {0}
          BY <2>1
      <3>2. Filter!Max({0}) = 0
          BY MaxIs
      <3>3. Filter!Begin(none, 1) = 1
        <4>1. Filter!Begin(none, 1) = Filter!Max({0}) + 1
          <5> HIDE DEF none
          <5> QED BY <3>1, Zenon DEF Filter!Begin
        <4> QED BY <3>2, <4>1
      <3> QED BY <3>3 DEF Rest
    <2> HIDE DEF none
    <2> QED BY <2>3, <2>4, <2>5, Zenon DEF Filtered
  <1> HIDE DEF none
  <1>4. /\ line = none /\ buf = none /\ delivered = none /\ typed = none
        /\ notices = none
      BY <1>1 DEF none
  <1> QED BY <1>2, <1>3, <1>4 DEF FilterInv

\* The rules of a shell stay what they are, and so does what a line means.
LEMMA VerdictsStay ==
    ASSUME rules' = rules
    PROVE  Filtered(typed, delivered \o buf, notices, line)' <=>
              Filtered(typed', delivered' \o buf', notices', line')
  BY DEF Filtered, Rejected, Given, Told, Rest, Filter!Rejects, Filter!Match

LEMMA ArriveKeeps ==
    ASSUME FilterInv, NEW chunk \in Seq(Bytes), Filter!Arrive(chunk)
    PROVE  FilterInv'
  <1> DEFINE after == Filter!Passed(chunk)
  <1>1. /\ buf = <<>> /\ typed' = typed \o chunk
        /\ rules' = rules /\ delivered' = delivered
        /\ line' = after.line /\ buf' = after.buf /\ notices' = after.notices
      BY DEF Filter!Arrive
  <1>2. /\ line \in Seq(Bytes) /\ buf \in Seq(Bytes) /\ delivered \in Seq(Bytes)
        /\ typed \in Seq(Bytes)
      BY DEF FilterInv
  <1>3. CASE rules = <<>>
    <2>1. line' = <<>> /\ buf' = chunk /\ notices' = <<>>
        BY <1>1, <1>3 DEF Filter!Passed
    <2>2. delivered = typed
        BY <1>1, <1>2, <1>3 DEF FilterInv
    <2>3. notices' \in Seq({}) /\ line' \in Seq(Bytes) /\ typed' \in Seq(Bytes)
        BY <1>1, <1>2, <2>1
    <2> QED BY <1>1, <1>2, <1>3, <2>1, <2>2, <2>3 DEF FilterInv
  <1>4. CASE rules # <<>>
    <2> DEFINE base == [line |-> line, buf |-> buf, notices |-> notices]
    <2>1. after = Filter!FoldLeft(Filter!Collect, base, chunk)
        BY <1>4 DEF Filter!Passed, Filter!WriteFiltered
    <2>2. Good(typed, delivered, base)
      <3>1. PICK V : notices \in Seq(V)
          BY DEF FilterInv
      <3>2. base \in State(V)
          BY <1>2, <3>1 DEF State
      <3>3. Filtered(typed, delivered \o base.buf, base.notices, base.line)
          BY <1>4 DEF FilterInv
      <3> QED BY <1>2, <3>2, <3>3 DEF Good
    <2>3. Good(typed \o chunk, delivered, after)
      <3> HIDE DEF base, after
      <3> QED BY <2>1, <2>2, ChunkGood
    <2> HIDE DEF after
    <2>4. PICK V : after \in State(V)
        BY <2>3 DEF Good
    <2>5. /\ line' \in Seq(Bytes) /\ buf' \in Seq(Bytes) /\ notices' \in Seq(V)
          /\ typed' \in Seq(Bytes) /\ delivered' \in Seq(Bytes)
        BY <1>1, <1>2, <2>3, <2>4 DEF State, Good
    <2>6. Filtered(typed', delivered' \o buf', notices', line')
        BY <1>1, <2>3, Zenon DEF Good
    <2>7. Filtered(typed, delivered \o buf, notices, line)'
        BY <1>1, <2>6, VerdictsStay
    <2> QED BY <1>1, <1>4, <2>5, <2>7 DEF FilterInv
  <1> QED BY <1>3, <1>4

LEMMA HandKeeps ==
    ASSUME FilterInv, BufferType, Filter!Hand
    PROVE  FilterInv'
  <1> DEFINE n == Filter!Min({Len(buf), Buffer})
  <1>1. /\ delivered' = delivered \o SubSeq(buf, 1, n)
        /\ buf' = SubSeq(buf, n + 1, Len(buf))
        /\ UNCHANGED <<rules, line, notices, typed>> /\ buf # <<>>
      BY DEF Filter!Hand
  <1>2. /\ line \in Seq(Bytes) /\ buf \in Seq(Bytes) /\ delivered \in Seq(Bytes)
        /\ typed \in Seq(Bytes)
      BY DEF FilterInv
  <1>3. n \in 1..Len(buf)
    <2> DEFINE S == {Len(buf), Buffer}
               m == IF Len(buf) <= Buffer THEN Len(buf) ELSE Buffer
    <2>1. Len(buf) \in Nat /\ Len(buf) # 0 /\ Buffer \in Nat \ {0}
        BY <1>1, <1>2, BufferType
    <2>2. m \in S /\ m \in 1..Len(buf) /\ \A y \in S : m <= y /\ y \in Int
        BY <2>1
    <2>3. n = CHOOSE x \in S : \A y \in S : x <= y
        BY DEF Filter!Min
    <2> HIDE DEF S, m, n
    <2>4. n \in S /\ \A y \in S : n <= y
        BY <2>2, <2>3, Zenon
    <2>5. n <= m /\ m <= n /\ n \in Int /\ m \in Int
        BY <2>2, <2>4
    <2> QED BY <2>2, <2>5
  <1> HIDE DEF n
  <1>4. /\ SubSeq(buf, 1, n) \in Seq(Bytes) /\ buf' \in Seq(Bytes)
        /\ buf = SubSeq(buf, 1, n) \o buf'
      BY <1>1, <1>2, <1>3
  <1>5. delivered' \o buf' = delivered \o buf /\ delivered' \in Seq(Bytes)
    <2>1. \A s, t, u \in Seq(Bytes) : (s \o t) \o u = s \o (t \o u)
      <3>1. ASSUME NEW s \in Seq(Bytes), NEW t \in Seq(Bytes),
                   NEW u \in Seq(Bytes)
            PROVE  (s \o t) \o u = s \o (t \o u)
          BY ConcatAssociative
      <3> QED BY <3>1
    <2>2. (delivered \o SubSeq(buf, 1, n)) \o buf' =
             delivered \o (SubSeq(buf, 1, n) \o buf')
        BY <1>2, <1>4, <2>1, Zenon
    <2>3. delivered \o SubSeq(buf, 1, n) \in Seq(Bytes)
        BY <1>2, <1>4
    <2> QED BY <1>1, <1>4, <2>2, <2>3
  <1>6. PICK V : notices \in Seq(V)
      BY DEF FilterInv
  <1>7. Filtered(typed, delivered \o buf, notices, line)' <=>
           Filtered(typed', delivered' \o buf', notices', line')
      BY <1>1, VerdictsStay
  <1> QED BY <1>1, <1>2, <1>4, <1>5, <1>6, <1>7 DEF FilterInv

LEMMA FilterStep ==
    ASSUME FilterInv, BufferType, [Filter!Next]_(Filter!vars)
    PROVE  FilterInv'
  <1>1. CASE Filter!Next
    <2>1. ASSUME NEW chunk \in Filter!SeqOf(Bytes, Buffer) \ {<<>>},
                 Filter!Arrive(chunk)
          PROVE  FilterInv'
      <3>1. chunk \in Seq(Bytes)
          BY BufferType DEF Filter!SeqOf
      <3> QED BY <2>1, <3>1, ArriveKeeps
    <2>2. CASE Filter!End
      <3>1. UNCHANGED <<rules, line, buf, delivered, notices, typed>>
          BY <2>2 DEF Filter!End
      <3> QED BY <3>1, VerdictsStay DEF FilterInv
    <2>3. CASE Filter!Hand
        BY <2>3, HandKeeps
    <2> QED BY <1>1, <2>1, <2>2, <2>3 DEF Filter!Next
  <1>2. CASE UNCHANGED Filter!vars
    <2>1. UNCHANGED <<rules, line, buf, delivered, notices, typed>>
        BY <1>2 DEF Filter!vars
    <2> QED BY <2>1, VerdictsStay DEF FilterInv
  <1> QED BY <1>1, <1>2

\* However the bytes are cut, the target is given exactly the lines that pass,
\* in order and whole, for any bytes, rules and buffer (filter.go:135-180).
THEOREM LinesAreFiltered == Filter!Spec => []FilteredAsWhole
  <1>1. FilterInv /\ [Filter!Next]_(Filter!vars) => FilterInv'
      BY FilterStep, BufferType
  <1>2. FilterInv => FilteredAsWhole
      BY FilterInvSays
  <1>3. Filter!Init => FilterInv
      BY FilterInit
  <1> QED BY <1>1, <1>2, <1>3, PTL DEF Filter!Spec
=============================================================================
