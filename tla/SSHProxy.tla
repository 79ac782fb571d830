------------------------------ MODULE SSHProxy ------------------------------
(***************************************************************************)
(* The SSH proxy: one handler per connection carries a user's stream to    *)
(* the target between opening a session row and finishing it.  There are   *)
(* four handlers: WebTerminal.ServeHTTP (web), handleSession (shell),      *)
(* directTCPIPHandler (tunnel) and sftpSubsystemHandler (sftp).  They take *)
(* slots from a limiter, watch the row to notice that an administrator     *)
(* finished it, record the output, and undo everything in the order of     *)
(* their deferred calls.                                                   *)
(*                                                                         *)
(* The token is verified before a handler begins (ConnectionToken), a      *)
(* request to the API is one step whose outcome may be a failure, and the  *)
(* row is what SessionStore makes of it.  An SSH client's connection is    *)
(* taken to carry one channel.                                             *)
(***************************************************************************)
EXTENDS Integers, FiniteSets

CONSTANTS Web, Shell, Tunnel, Sftp,  \* connections, by the handler they meet
          Limit,          \* proxy.ssh.max_connections
          MaxFailures     \* bound: failed dials, requests and files

ASSUME KindsDisjoint ==
    /\ Web \intersect Shell = {} /\ Web \intersect Tunnel = {}
    /\ Web \intersect Sftp = {} /\ Shell \intersect Tunnel = {}
    /\ Shell \intersect Sftp = {} /\ Tunnel \intersect Sftp = {}
ASSUME BoundsType == Limit \in Nat \ {0} /\ MaxFailures \in Nat

Conns == Web \union Shell \union Tunnel \union Sftp
Recorded == Web \union Shell

\* NewWebTerminal and NewServer make a dialer, and so a limiter, each.
Dialers == {"web", "native"}
DialerOf(c) == IF c \in Web THEN "web" ELSE "native"

VARIABLES
    pc,         \* [Conns -> Points]: where the handler is
    slots,      \* [Dialers -> Nat]: len(sshDialer.limit)
    peer,       \* the user's end: "here" or "gone"
    target,     \* the connection to the target: "none", "open" or "closed"
    stream,     \* what is bridged over it: "none", "running" or "ended"
    watch,      \* connections with a running watchSessionFinish
    row,        \* the session's row: "none", "active" or "finished"
    known,      \* connections whose handler was told the id of the row
    path,       \* connections whose row names a recording
    cast,       \* the recording file: "none", "open" or "closed"
    pending,    \* connections with output the copying goroutine has not read
    lost,       \* history: connections with output missing in the recording
    failed,     \* history: connections with a request that failed
    failures

link == <<peer, target, stream, watch>>
session == <<row, known, path>>
recording == <<cast, pending, lost>>
faults == <<failed, failures>>
vars == <<pc, slots, link, session, recording, faults>>

Points == {"idle", "acquire", "dial", "create", "record", "open", "bridge",
           "drain", "cleanup", "finish", "close", "release", "done"}

TypeOK ==
    /\ pc \in [Conns -> Points]
    /\ slots \in [Dialers -> 0..Limit]
    /\ peer \in [Conns -> {"here", "gone"}]
    /\ target \in [Conns -> {"none", "open", "closed"}]
    /\ stream \in [Conns -> {"none", "running", "ended"}]
    /\ row \in [Conns -> {"none", "active", "finished"}]
    /\ cast \in [Conns -> {"none", "open", "closed"}]
    /\ watch \subseteq known /\ known \subseteq Conns /\ path \subseteq Conns
    /\ pending \subseteq Recorded /\ lost \subseteq Recorded
    /\ failed \subseteq Conns /\ failures \in Nat

Init ==
    /\ pc = [c \in Conns |-> "idle"]
    /\ slots = [d \in Dialers |-> 0]
    /\ peer = [c \in Conns |-> "here"]
    /\ target = [c \in Conns |-> "none"]
    /\ stream = [c \in Conns |-> "none"]
    /\ row = [c \in Conns |-> "none"]
    /\ cast = [c \in Conns |-> "none"]
    /\ watch = {} /\ known = {} /\ path = {}
    /\ pending = {} /\ lost = {}
    /\ failed = {} /\ failures = 0

Goto(c, point) == pc' = [pc EXCEPT ![c] = point]

\* Something c needs from outside fails.
Fails(c) == /\ failures < MaxFailures
            /\ failures' = failures + 1
            /\ failed' = failed \union {c}

\* The context of an SSH connection is cancelled when the client is gone; the
\* context of a hijacked HTTP request is not.
Cancelled(c) == c \notin Web /\ peer[c] = "gone"

\* So does whatever is asked for with a cancelled context.
FailsUnder(c, cancelled) ==
    \/ cancelled /\ UNCHANGED faults
    \/ Fails(c)

-----------------------------------------------------------------------------
(* Setting up *)

\* A user connects with a good token.  Only sftp asks for no slot.
Connect(c) ==
    /\ pc[c] = "idle"
    /\ Goto(c, IF c \in Sftp THEN "dial" ELSE "acquire")
    /\ UNCHANGED <<slots, link, session, recording, faults>>

SlotFree(d) == slots[d] < Limit

\* sshDialer.acquire never waits: "too many connections".
Acquire(c) ==
    /\ pc[c] = "acquire"
    /\ LET d == DialerOf(c)
       IN  \/ /\ SlotFree(d)
              /\ slots' = [slots EXCEPT ![d] = @ + 1]
              /\ Goto(c, "dial")
           \/ /\ ~SlotFree(d)
              /\ Goto(c, "done")
              /\ UNCHANGED slots
    /\ UNCHANGED <<link, session, recording, faults>>

\* Handlers that took a slot have deferred its release.
MutantNoRelease(c) == "done"
Released(c) == IF c \in Sftp THEN "done" ELSE "release"

Dial(c) ==
    /\ pc[c] = "dial"
    /\ \/ /\ target' = [target EXCEPT ![c] = "open"]
          /\ Goto(c, "create")
          /\ UNCHANGED faults
       \/ /\ FailsUnder(c, c \in Tunnel /\ Cancelled(c))
          /\ Goto(c, Released(c))
          /\ UNCHANGED target
    /\ UNCHANGED <<slots, peer, stream, watch, session, recording>>

\* Web and shell give up without a session; tunnel and sftp carry on without
\* one, and without a watch.  The row may exist although the answer was lost.
CreateSession(c) ==
    /\ pc[c] = "create"
    /\ \/ /\ ~Cancelled(c)
          /\ row' = [row EXCEPT ![c] = "active"]
          /\ known' = known \union {c}
          /\ Goto(c, IF c \in Recorded THEN "record" ELSE "bridge")
          /\ watch' = IF c \in Recorded THEN watch ELSE watch \union {c}
          /\ UNCHANGED faults
       \/ /\ FailsUnder(c, Cancelled(c))
          /\ \E r \in {"none", "active"} : row' = [row EXCEPT ![c] = r]
          /\ Goto(c, IF c \in Recorded THEN "close" ELSE "bridge")
          /\ UNCHANGED <<known, watch>>
    /\ stream' = IF c \in Recorded THEN stream
                                   ELSE [stream EXCEPT ![c] = "running"]
    /\ UNCHANGED <<slots, peer, target, path, recording>>

\* recorder.NewCastWriter.  The web terminal gives up without a recording, the
\* shell goes on.
StartRecording(c) ==
    /\ pc[c] = "record"
    /\ \/ /\ cast' = [cast EXCEPT ![c] = "open"]
          /\ Goto(c, "open")
          /\ UNCHANGED faults
       \/ /\ Fails(c)
          /\ Goto(c, IF c \in Web THEN "finish" ELSE "open")
          /\ UNCHANGED cast
    /\ UNCHANGED <<slots, link, session, pending, lost>>

\* NewSession, watchSessionFinish, RequestPty and Shell.
OpenStream(c) ==
    /\ pc[c] = "open"
    /\ \/ /\ stream' = [stream EXCEPT ![c] = "running"]
          /\ watch' = IF Cancelled(c) THEN watch ELSE watch \union {c}
          /\ Goto(c, "bridge")
          /\ UNCHANGED faults
       \/ /\ Fails(c)
          /\ Goto(c, "cleanup")
          /\ UNCHANGED <<stream, watch>>
    /\ UNCHANGED <<slots, peer, target, session, recording>>

-----------------------------------------------------------------------------
(* While the stream is open *)

\* The target writes something; a goroutine copies it to the recording and to
\* the user.
Output(c) ==
    /\ c \in Recorded /\ stream[c] = "running" /\ c \notin pending
    /\ pending' = pending \union {c}
    /\ UNCHANGED <<pc, slots, link, session, cast, lost, faults>>

\* CastWriter.WriteOutput fails once the file is closed.  A shell's copying also
\* ends with the first write the user does not take, after recording it.
CopyOutput(c) ==
    /\ c \in pending
    /\ pending' = pending \ {c}
    /\ \/ cast[c] = "open" /\ UNCHANGED lost
       \/ /\ cast[c] # "open" \/ Cancelled(c)
          /\ lost' = lost \union {c}
    /\ UNCHANGED <<pc, slots, link, session, cast, faults>>

\* The stream ends by itself: the remote shell exits, the sftp client quits, a
\* side of the tunnel closes.
StreamEnds(c) ==
    /\ stream[c] = "running"
    /\ stream' = [stream EXCEPT ![c] = "ended"]
    /\ UNCHANGED <<pc, slots, peer, target, watch, session, recording, faults>>

\* The user's end goes away: by itself, by the idle timeout or because the
\* server stops.  The watch of an SSH connection ends with its context.
Disconnect(c) ==
    /\ pc[c] # "idle" /\ peer[c] = "here"
    /\ peer' = [peer EXCEPT ![c] = "gone"]
    /\ watch' = IF c \in Web THEN watch ELSE watch \ {c}
    /\ UNCHANGED <<pc, slots, target, stream, session, recording, faults>>

\* Both ends of the bridge are closed, the watch with them.
Cut(c) == /\ stream' = [stream EXCEPT ![c] = "ended"]
          /\ target' = [target EXCEPT ![c] = "closed"]
          /\ watch' = watch \ {c}
          /\ UNCHANGED <<peer, session, recording, faults>>

\* watchSessionFinish: the row, polled every two seconds, turns out finished.
MutantDeaf(c) == c \in watch /\ row[c] = "finished" /\ c \notin Web
Noticed(c) == c \in watch /\ row[c] = "finished"

WatchCloses(c) == Noticed(c) /\ Cut(c) /\ UNCHANGED <<pc, slots>>

\* copyWSInput fails to read and closes the session.
InputFails(c) == peer[c] = "gone"

InputEnds(c) ==
    /\ c \in Web /\ pc[c] = "bridge" /\ InputFails(c)
    /\ stream[c] = "running"
    /\ Cut(c)
    /\ UNCHANGED <<pc, slots>>

\* Of the two goroutines of a tunnel, the first to end closes both sides.
TunnelCloses(c) ==
    /\ c \in Tunnel /\ target[c] = "open"
    /\ stream[c] = "ended" \/ (stream[c] = "running" /\ peer[c] = "gone")
    /\ stream' = [stream EXCEPT ![c] = "ended"]
    /\ target' = [target EXCEPT ![c] = "closed"]
    /\ UNCHANGED <<pc, slots, peer, watch, session, recording, faults>>

\* An administrator ends the session.
ForceFinish(c) ==
    /\ row[c] = "active"
    /\ row' = [row EXCEPT ![c] = "finished"]
    /\ UNCHANGED <<pc, slots, link, known, path, recording, faults>>

-----------------------------------------------------------------------------
(* Returning: the deferred calls, last one first *)

\* Nothing but the handler's place changes.
Proceed(c, from, to) ==
    /\ pc[c] = from
    /\ Goto(c, to)
    /\ UNCHANGED <<slots, link, session, recording, faults>>

\* remoteSession.Wait() returns: the channel is closed, output it carried may
\* still be unread.  The web terminal closes everything and waits for the
\* copying goroutines; the shell does not.
MutantNoDrain(c) == "cleanup"
AfterWait(c) == IF c \in Web THEN "drain" ELSE "cleanup"

WaitReturns(c) ==
    /\ c \in Recorded /\ pc[c] = "bridge" /\ stream[c] = "ended"
    /\ Goto(c, AfterWait(c))
    /\ watch' = watch \ {c}
    /\ target' = IF c \in Web THEN [target EXCEPT ![c] = "closed"] ELSE target
    /\ UNCHANGED <<slots, peer, stream, session, recording, faults>>

\* bridgeWG.Wait()
Drain(c) == c \notin pending /\ Proceed(c, "drain", "cleanup")

CloseRecording(c) ==
    /\ pc[c] = "cleanup"
    /\ Goto(c, "finish")
    /\ cast' = [cast EXCEPT ![c] = IF @ = "open" THEN "closed" ELSE @]
    /\ UNCHANGED <<slots, link, session, pending, lost, faults>>

\* directTCPIPHandler returns as soon as it has started its goroutines, sftp
\* when server.Serve() does.  Without an id there is nothing to finish.
ServeReturns(c) ==
    /\ pc[c] = "bridge"
    /\ \/ c \in Tunnel
       \/ /\ c \in Sftp
          /\ stream[c] = "ended" \/ peer[c] = "gone"
    /\ watch' = watch \ {c}
    /\ Goto(c, IF c \in known THEN "finish"
               ELSE IF c \in Tunnel THEN "release" ELSE "close")
    /\ UNCHANGED <<slots, peer, target, stream, session, recording, faults>>

\* The context the finishing update is sent with: handleSession takes that of
\* the connection, the others context.Background().
MutantAllCancelled(c) == peer[c] = "gone"
FinishCancelled(c) == c \in Shell /\ peer[c] = "gone"

\* The recording path sent along; the shell names one even without a file.
NamesRecording(c) == c \in Shell \/ (c \in Web /\ cast[c] # "none")

AfterFinish(c) == IF c \in Tunnel THEN "release" ELSE "close"

FinishSession(c) ==
    /\ pc[c] = "finish"
    /\ \/ /\ ~FinishCancelled(c)
          /\ row' = [row EXCEPT ![c] = "finished"]
          /\ path' = IF NamesRecording(c) THEN path \union {c} ELSE path
          /\ UNCHANGED faults
       \/ /\ FailsUnder(c, FinishCancelled(c))
          /\ UNCHANGED <<row, path>>
    /\ Goto(c, AfterFinish(c))
    /\ UNCHANGED <<slots, link, known, recording>>

\* client.Close()
CloseTarget(c) ==
    /\ pc[c] = "close"
    /\ Goto(c, Released(c))
    /\ Cut(c)
    /\ UNCHANGED slots

\* sshDialer.release
Release(c) ==
    /\ pc[c] = "release"
    /\ slots' = [slots EXCEPT ![DialerOf(c)] = IF @ > 0 THEN @ - 1 ELSE 0]
    /\ Goto(c, "done")
    /\ UNCHANGED <<link, session, recording, faults>>

-----------------------------------------------------------------------------

\* What a handler and its goroutines do without being asked.
Run(c) ==
    \/ Acquire(c) \/ Dial(c) \/ CreateSession(c) \/ StartRecording(c)
    \/ OpenStream(c) \/ InputEnds(c) \/ WaitReturns(c) \/ Drain(c)
    \/ CloseRecording(c) \/ ServeReturns(c) \/ FinishSession(c)
    \/ CloseTarget(c) \/ Release(c)

Next ==
    \/ \E c \in Conns :
          \/ Run(c) \/ CopyOutput(c) \/ TunnelCloses(c) \/ WatchCloses(c)
          \/ Connect(c) \/ Output(c) \/ StreamEnds(c) \/ Disconnect(c)
          \/ ForceFinish(c)
    \/ (\A c \in Conns : pc[c] \in {"idle", "done"}) /\ UNCHANGED vars

Spec == Init /\ [][Next]_vars

\* Goroutines run, the timer of a watch ticks and a poll is answered in the
\* end.  Users, targets and administrators may do nothing.
Fairness == \A c \in Conns : /\ WF_vars(Run(c))
                             /\ WF_vars(CopyOutput(c))
                             /\ WF_vars(TunnelCloses(c))
                             /\ WF_vars(WatchCloses(c))

FairSpec == Spec /\ Fairness

-----------------------------------------------------------------------------
(* Properties *)

HoldsSlot(c) ==
    c \notin Sftp /\ pc[c] \notin {"idle", "acquire", "done"}

\* However a handler returns, it gives back the one slot it took.
SlotsBalanced ==
    \A d \in Dialers :
        slots[d] = Cardinality({c \in Conns : HoldsSlot(c) /\ DialerOf(c) = d})

\* Terminals and shells together have at most max_connections targets open per
\* dialer, and a handler that is done has left none open.
TerminalsLimited ==
    /\ \A d \in Dialers :
          Cardinality({c \in Recorded : target[c] = "open" /\ DialerOf(c) = d})
             <= Limit
    /\ \A c \in Conns \ Tunnel : pc[c] = "done" => target[c] # "open"

\* A handler that is done leaves the session it was told of finished, unless the
\* API failed it.  (A shell only while its user is there: see ShellFinished.)
EndedIsFinished ==
    \A c \in known :
        pc[c] = "done" /\ row[c] = "active" =>
            c \in failed \/ (c \in Shell /\ peer[c] = "gone")

\* All the target wrote is in the recording of a web terminal, also when the
\* terminal is cut; and a recording named by its session exists.
WebRecordingComplete ==
    /\ Web \intersect lost = {}
    /\ \A c \in Web \intersect path : cast[c] # "none"

\* While a handler waits for its stream, somebody waits for the end of the
\* session: the watch, or, where the client has left, the handler itself but for
\* a shell's.  A tunnel's handler does not wait, and its goroutines, which do,
\* are there as long as its target is open (session_watch.go:20-45).
EndIsNoticed ==
    /\ \A c \in known \ Tunnel :
          pc[c] = "bridge" /\ stream[c] = "running" =>
             c \in watch \/ (c \notin Web /\ peer[c] = "gone")
    /\ \A c \in Tunnel : target[c] = "open" /\ pc[c] # "create" => stream[c] # "none"

\* A session an administrator finished is disconnected, if the proxy knows its
\* id and, for a shell, the user is still there.
ForcedIsCut ==
    \A c \in Conns \ Tunnel :
        row[c] = "finished" /\ c \in known /\ target[c] = "open"
        ~> target[c] = "closed" \/ (c \in Shell /\ peer[c] = "gone")

\* When the user goes away, the handler of a web terminal, a tunnel or an sftp
\* client comes to its end and the target is closed.
AbandonedEnds ==
    \A c \in Conns \ Shell :
        peer[c] = "gone" ~> pc[c] = "done" /\ target[c] # "open"

\* Whoever ends a connection, the user or an administrator, the target's end
\* comes down too (session_watch.go:30, websocket.go:175-184).
EndsReachTarget == []EndIsNoticed /\ ForcedIsCut /\ AbandonedEnds

\* "At most max_connections connections at a time."  (Violated: README.)
TargetsLimited ==
    \A d \in Dialers :
        Cardinality({c \in Conns : target[c] = "open" /\ DialerOf(c) = d}) <= Limit

\* "Tell the API, after the session ended, that it is finished."  Stated where
\* no request of the proxy is refused.  (Violated: README.)
ShellFinished ==
    \A c \in Shell \intersect known :
        pc[c] = "done" => row[c] = "finished"

=============================================================================
