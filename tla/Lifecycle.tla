------------------------------ MODULE Lifecycle ------------------------------
(***************************************************************************)
(* The life of a daemon process (cmd/komitake/daemon_command.go), the RPCs *)
(* it serves on its admin socket (internal/ipc/server.go), and the clients *)
(* that put it in pairing mode and wait (pair_command.go, pkg/komitake).   *)
(*                                                                         *)
(* Several instances may live at a time and share the path of the socket,  *)
(* which is acted on by name: path is the instance whose socket is there.  *)
(* Nothing keeps two of them from starting or stopping at the same time;   *)
(* met is a history variable that no step reads, kept to say what comes of *)
(* it.  What happens inside a daemon is the matter of module Manager; here *)
(* its mode and pairing session are changed in one step.                   *)
(***************************************************************************)
CONSTANTS
  Instance,    \* daemon processes, each run once
  Caller,      \* clients with one call each in flight
  None

ASSUME LifecycleAssumption == None \notin Instance

VARIABLES
  proc,     \* how far each instance is
  why,      \* what ended its serving: None, signal, restart or error
  path,     \* the instance whose socket the path leads to
  met,      \* the others that were past their probe when each one bound it
  restart,  \* restartCh is closed
  call,     \* of each caller: [kind, on]
  mode,     \* of each instance: off, down, running or pairing
  asked,    \* those whose pairing session the pairing client has asked for
  cli       \* the pairing client

processVars == <<proc, why, path, met, restart>>
modeVars    == <<mode, asked>>
vars        == <<processVars, call, modeVars, cli>>

TypeOK ==
  /\ proc \in [Instance -> {"off", "probed", "removed", "bound",
                            "serving", "stopping", "closing", "closed", "gone"}]
  /\ why \in [Instance -> {None, "signal", "restart", "error"}]
  /\ path \in Instance \cup {None}
  /\ met \in [Instance -> SUBSET Instance]
  /\ restart \in [Instance -> BOOLEAN]
  /\ call \in [Caller -> {None} \cup [kind : {"unary", "wait", "stream", "restart"},
                                     on : Instance]]
  /\ mode \in [Instance -> {"off", "down", "running", "pairing"}]
  /\ asked \in SUBSET Instance
  /\ cli \in [at : {"idle", "asking", "entered", "info", "poll", "restore",
                    "reset", "done"},
              on : Instance \cup {None}, web : BOOLEAN,
              deferred : BOOLEAN, lost : BOOLEAN]

NoClient == [at |-> "idle", on |-> None, web |-> FALSE,
             deferred |-> FALSE, lost |-> FALSE]

Init ==
  /\ proc = [d \in Instance |-> "off"]
  /\ why = [d \in Instance |-> None]
  /\ path = None
  /\ met = [d \in Instance |-> {}]
  /\ restart = [d \in Instance |-> FALSE]
  /\ call = [c \in Caller |-> None]
  /\ mode = [d \in Instance |-> "off"]
  /\ asked = {}
  /\ cli = NoClient

-----------------------------------------------------------------------------
(* The command, from its start (off) to serving.                           *)

Listening(d) == proc[d] \in {"bound", "serving"}
PastProbe(d) == proc[d] \notin {"off", "gone"}
OnCall(d)    == {c \in Caller : call[c] # None /\ call[c].on = d}

\* The pair command waits for the daemon to enter the mode and say so.
Asking(d) == cli.at \in {"asking", "entered"} /\ cli.on = d

At(d, p) == proc' = [proc EXCEPT ![d] = p]

Leaves(d) ==
  /\ At(d, "gone")
  /\ why' = [why EXCEPT ![d] = None]
  /\ met' = [met EXCEPT ![d] = {}]

\* The configuration does not load, or the directory cannot be made.
LoadFails(d) ==
  /\ proc[d] = "off"
  /\ Leaves(d)
  /\ UNCHANGED <<path, restart, call, modeVars, cli>>

\* A socket that answers belongs to another daemon.
\* Mutant: nobody asks.
ProbeNobody(d) ==
  /\ proc[d] = "off"
  /\ At(d, "probed")
  /\ UNCHANGED <<why, path, met, restart, call, modeVars, cli>>

Probe(d) ==
  /\ proc[d] = "off"
  /\ At(d, IF path # None /\ Listening(path) THEN "gone" ELSE "probed")
  /\ UNCHANGED <<why, path, met, restart, call, modeVars, cli>>

RemoveStale(d) ==
  /\ proc[d] = "probed"
  /\ path' = None
  /\ At(d, "removed")
  /\ UNCHANGED <<why, met, restart, call, modeVars, cli>>

Listen(d) ==
  /\ proc[d] = "removed" /\ path = None
  /\ path' = d
  /\ met' = [met EXCEPT ![d] = {e \in Instance \ {d} : PastProbe(e)}]
  /\ At(d, "bound")
  /\ UNCHANGED <<why, restart, call, modeVars, cli>>

\* The path is taken again, or may not be written to.
ListenFails(d) ==
  /\ proc[d] = "removed"
  /\ Leaves(d)
  /\ UNCHANGED <<path, restart, call, modeVars, cli>>

\* Manager.Start, into the normal mode or none.
Serve(d) ==
  /\ proc[d] = "bound"
  /\ At(d, "serving")
  /\ \E m \in {"running", "down"} : mode' = [mode EXCEPT ![d] = m]
  /\ UNCHANGED <<why, path, met, restart, call, asked, cli>>

\* The mode of the socket cannot be set, and closing the listener removes the
\* path; or Manager.Start fails, and cleanup does.
StartFails(d) ==
  /\ proc[d] = "bound"
  /\ Leaves(d)
  /\ path' = None
  /\ UNCHANGED <<restart, call, modeVars, cli>>

-----------------------------------------------------------------------------
(* From serving to exit.                                                   *)

\* GracefulStop closes the listener, which removes the path, and takes no new
\* call.
GracefulStop(d, reason) ==
  /\ proc[d] = "serving"
  /\ At(d, "stopping")
  /\ why' = [why EXCEPT ![d] = reason]
  /\ path' = None
  /\ UNCHANGED <<met, restart, call, modeVars, cli>>

Signalled(d) == GracefulStop(d, "signal")

RestartRequested(d) == restart[d] /\ GracefulStop(d, "restart")

\* Mutant: the manager is closed with the calls still in flight.
NotDrained(d) ==
  /\ proc[d] = "stopping"
  /\ At(d, "closing")
  /\ UNCHANGED <<why, path, met, restart, call, modeVars, cli>>

\* It returns when the calls in flight have.
Drained(d) ==
  /\ proc[d] = "stopping" /\ OnCall(d) = {} /\ ~Asking(d)
  /\ At(d, "closing")
  /\ UNCHANGED <<why, path, met, restart, call, modeVars, cli>>

\* Serve returns an error: Stop cancels the calls and does not wait for them.
ServeError(d) ==
  /\ proc[d] = "serving"
  /\ At(d, "closing")
  /\ why' = [why EXCEPT ![d] = "error"]
  /\ path' = None
  /\ call' = [c \in Caller |-> IF c \in OnCall(d) THEN [call[c] EXCEPT !.kind = "unary"]
                                                  ELSE call[c]]
  /\ UNCHANGED <<met, restart, modeVars, cli>>

\* The deferred Manager.Close, then cleanup.
CloseManager(d) ==
  /\ proc[d] = "closing"
  /\ At(d, "closed")
  /\ mode' = [mode EXCEPT ![d] = "off"]
  /\ asked' = asked \ {d}
  /\ UNCHANGED <<why, path, met, restart, call, cli>>

\* Its calls end with the process.
Dies(d) ==
  /\ Leaves(d)
  /\ restart' = [restart EXCEPT ![d] = FALSE]
  /\ call' = [c \in Caller |-> IF c \in OnCall(d) THEN None ELSE call[c]]

Cleanup(d) ==
  /\ proc[d] = "closed"
  /\ path' = None
  /\ Dies(d)
  /\ UNCHANGED <<modeVars, cli>>

\* The process is killed: its socket stays behind.
Crash(d) ==
  /\ proc[d] \notin {"off", "gone"}
  /\ Dies(d)
  /\ mode' = [mode EXCEPT ![d] = "off"]
  /\ asked' = asked \ {d}
  /\ UNCHANGED <<path, cli>>

-----------------------------------------------------------------------------
(* Calls.                                                                  *)

\* A client may hold a connection to a daemon that the path leads to no more.
Issue(c, kind) ==
  /\ call[c] = None
  /\ \E d \in Instance :
       /\ proc[d] = "serving"
       /\ call' = [call EXCEPT ![c] = [kind |-> kind, on |-> d]]
  /\ UNCHANGED <<processVars, modeVars, cli>>

Answered(c, kind) ==
  /\ call[c] # None /\ call[c].kind = kind
  /\ call' = [call EXCEPT ![c] = None]

\* A call with a bound of its own: a mode change, a kart parameter, a drive
\* command, a reload.
CallReturns(c) ==
  /\ Answered(c, "unary")
  /\ UNCHANGED <<processVars, modeVars, cli>>

\* WaitForDevice: a kart is there, or the client has left.
WaitReturns(c) ==
  /\ Answered(c, "wait")
  /\ UNCHANGED <<processVars, modeVars, cli>>

\* StreamVideo: the client has left, or cannot be sent to.
StreamReturns(c) ==
  /\ Answered(c, "stream")
  /\ UNCHANGED <<processVars, modeVars, cli>>

\* Mutant: the answer is sent when the daemon has stopped.
RestartWaits(c) ==
  /\ call[c] # None /\ call[c].kind = "restart"
  /\ LET d == call[c].on IN
       /\ ~restart[d]
       /\ restart' = [restart EXCEPT ![d] = TRUE]
  /\ UNCHANGED <<proc, why, path, met, call, modeVars, cli>>

RestartReturns(c) ==
  /\ Answered(c, "restart")
  /\ restart' = [restart EXCEPT ![call[c].on] = TRUE]
  /\ UNCHANGED <<proc, why, path, met, modeVars, cli>>

-----------------------------------------------------------------------------
(* The mode, as the calls of clients and the kart change it.               *)

\* Manager.SetState to normal mode, which may fail on the way.
Normal(d) ==
  /\ \E m \in {"running", "down"} : mode' = [mode EXCEPT ![d] = m]
  /\ asked' = asked \ {d}

InService(d) == proc[d] \in {"serving", "stopping"}

\* A kart has paired, or nobody has in time.
PairingEnds(d) ==
  /\ InService(d) /\ mode[d] = "pairing"
  /\ Normal(d)
  /\ UNCHANGED <<processVars, call, cli>>

\* Another client starts or stops pairing, or one that has left did.
StartPairing(d) ==
  /\ InService(d) /\ mode[d] # "pairing"
  /\ mode' = [mode EXCEPT ![d] = "pairing"]
  /\ UNCHANGED <<processVars, call, asked, cli>>

StopPairing(d) ==
  /\ InService(d) /\ mode[d] # "running"
  /\ Normal(d)
  /\ UNCHANGED <<processVars, call, cli>>

-----------------------------------------------------------------------------
(* The pair command, or the web's request to pair and wait (web).           *)

\* Its connection leads to the instance it was made to while that one serves,
\* and is made again at the path when it does not.
Reaches(d) ==
  /\ proc[d] = "serving"
  /\ cli.on = d \/ (proc[cli.on] # "serving" /\ path = d)

Through(at, d) == cli' = [cli EXCEPT !.at = at, !.on = IF at = "done" THEN None ELSE d]

PairAsks(d, web) ==
  /\ cli.at = "idle" /\ proc[d] = "serving" /\ path = d
  /\ cli' = [NoClient EXCEPT !.at = "asking", !.on = d, !.web = web]
  /\ UNCHANGED <<processVars, call, modeVars>>

\* To pairing mode: a daemon that is in it goes on with the session it has.
PairEnters(d) ==
  /\ cli.at = "asking" /\ cli.on = d /\ InService(d)
  /\ mode' = [mode EXCEPT ![d] = "pairing"]
  /\ asked' = asked \cup {d}
  /\ Through("entered", d)
  /\ UNCHANGED <<processVars, call>>

\* The command defers the restoring of the mode when it has the answer ...
PairAnswered ==
  /\ cli.at = "entered"
  /\ cli' = [cli EXCEPT !.at = "info", !.deferred = ~cli.web]
  /\ UNCHANGED <<processVars, call, modeVars>>

\* ... and returns without it when the daemon refuses or is gone, or when it is
\* interrupted: the daemon may be in pairing mode, or get there (StartPairing).
PairUnanswered ==
  /\ cli.at \in {"asking", "entered"}
  /\ Through("done", cli.on)
  /\ UNCHANGED <<processVars, call, modeVars>>

\* Where the client goes when it is through: the command restores the mode.
\* Mutant: only when it was not cancelled.
LeaveCancelled(cancelled) == IF cli.web \/ cancelled THEN "done" ELSE "restore"

Leave(cancelled) == IF cli.web THEN "done" ELSE "restore"

\* The pairing information is read.  The command is through when it is asked
\* for JSON, cannot make the QR code, or the mode has been left already.
PairInfo(d) ==
  /\ cli.at = "info" /\ Reaches(d)
  /\ \/ mode[d] = "pairing" /\ Through("poll", d)
     \/ Through(Leave(FALSE), d)
  /\ UNCHANGED <<processVars, call, modeVars>>

\* Each half second until the mode is another; whatever ended pairing, a
\* daemon in normal mode is taken for a pairing that is complete.
Poll(d) ==
  /\ cli.at = "poll" /\ ~cli.web /\ Reaches(d) /\ mode[d] # "pairing"
  /\ Through(Leave(FALSE), d)
  /\ UNCHANGED <<processVars, call, modeVars>>

\* The same for the web, which leaves the daemon in the mode it finds.
AwaitPairing(d) ==
  /\ cli.at = "poll" /\ cli.web /\ Reaches(d) /\ mode[d] # "pairing"
  /\ Through(Leave(FALSE), d)
  /\ UNCHANGED <<processVars, call, modeVars>>

\* The daemon does not answer, or the client is interrupted.
PairFails ==
  /\ cli.at \in {"info", "poll"}
  /\ Through(Leave(TRUE), cli.on)
  /\ UNCHANGED <<processVars, call, modeVars>>

\* bestEffortRestoreRunning: with a context of its own.
Restore(d) ==
  /\ cli.at = "restore" /\ Reaches(d)
  /\ Through(IF mode[d] = "pairing" THEN "reset" ELSE "done", d)
  /\ UNCHANGED <<processVars, call, modeVars>>

Reset(d) ==
  /\ cli.at = "reset" /\ Reaches(d)
  /\ IF mode[d] = "running" THEN UNCHANGED modeVars ELSE Normal(d)
  /\ Through("done", d)
  /\ UNCHANGED <<processVars, call>>

RestoreFails ==
  /\ cli.at \in {"restore", "reset"}
  /\ cli' = [cli EXCEPT !.at = "done", !.on = None, !.lost = TRUE]
  /\ UNCHANGED <<processVars, call, modeVars>>

PairAgain ==
  /\ cli.at = "done"
  /\ cli' = NoClient /\ asked' = {}
  /\ UNCHANGED <<processVars, call, mode>>

-----------------------------------------------------------------------------
Proceed(d) ==
  \/ Probe(d) \/ RemoveStale(d) \/ Listen(d) \/ ListenFails(d) \/ Serve(d)
  \/ Drained(d) \/ CloseManager(d) \/ Cleanup(d)

Next ==
  \/ \E d \in Instance :
       \/ LoadFails(d) \/ StartFails(d)
       \/ Proceed(d)
       \/ Signalled(d) \/ RestartRequested(d) \/ ServeError(d) \/ Crash(d)
       \/ PairingEnds(d) \/ StartPairing(d) \/ StopPairing(d)
       \/ \E web \in BOOLEAN : PairAsks(d, web)
       \/ PairEnters(d) \/ PairInfo(d) \/ Poll(d) \/ AwaitPairing(d) \/ Restore(d) \/ Reset(d)
  \/ \E c \in Caller :
       \/ \E kind \in {"unary", "wait", "stream", "restart"} : Issue(c, kind)
       \/ CallReturns(c) \/ WaitReturns(c) \/ StreamReturns(c) \/ RestartReturns(c)
  \/ PairAnswered \/ PairUnanswered \/ PairFails \/ RestoreFails \/ PairAgain

\* The steps of the command are not blocked, and a call that is bounded
\* returns.  Nothing is asked of the clients that wait.
Fairness ==
  /\ \A d \in Instance : WF_vars(Proceed(d)) /\ WF_vars(RestartRequested(d))
  /\ \A c \in Caller : WF_vars(CallReturns(c)) /\ WF_vars(RestartReturns(c))
  /\ WF_vars(PairAnswered \/ PairUnanswered)

Spec == Init /\ [][Next]_vars /\ Fairness

-----------------------------------------------------------------------------
\* A daemon that serves is reached at the path, unless another instance was on
\* its way past its own probe when this one bound the path: whoever comes later
\* finds it there and leaves, and a socket left by a crash is replaced.
Reachable ==
  \A d \in Instance : proc[d] = "serving" /\ met[d] = {} => path = d

\* daemon_command.go:126, "Refuse to steal a socket that another daemon is
\* serving": nobody but its daemon takes the path of a daemon that serves.
SocketIsKept ==
  [][\A d \in Instance :
       proc[d] = "serving" /\ path = d /\ path' # d => proc'[d] # "serving"]_vars

\* The manager is closed under no call, unless serving itself has failed.
ClosedAlone ==
  \A d \in Instance :
    proc[d] \in {"closing", "closed"} /\ why[d] # "error"
      => OnCall(d) = {} /\ ~Asking(d)

\* A restart that has been answered for is carried out, and a stop comes to
\* its end, as soon as no client waits for a kart or for video.
Waiting(d) == \E c \in OnCall(d) : call[c].kind \in {"wait", "stream"}

StopEnds ==
  \A d \in Instance :
    (proc[d] = "stopping" \/ (proc[d] = "serving" /\ \E c \in OnCall(d) : call[c].kind = "restart"))
      ~> (proc[d] = "gone" \/ Waiting(d))

\* Once it has the answer to its request, the pair command does not leave a
\* daemon in the pairing mode it asked for, however it ends and whatever becomes
\* of that daemon, if its last two calls are answered.
LeftBehind ==
  \E d \in asked : proc[d] = "serving"

PairRestores == cli.at = "done" /\ cli.deferred /\ ~cli.lost => ~LeftBehind

\* pair_command.go:27, "Returns to normal mode when pairing completes, is
\* canceled, or times out": also when it is cancelled before the answer.
AlwaysRestores == cli.at = "done" /\ ~cli.web /\ ~cli.lost => ~LeftBehind

\* daemon.go:239, "Wake any WaitForDevice callers so in-flight RPCs return
\* instead of blocking GracefulStop forever": no such caller holds a stop up.
Streaming(d) == \E c \in OnCall(d) : call[c].kind = "stream"

ShutdownEnds ==
  \A d \in Instance : proc[d] = "stopping" /\ ~Streaming(d) ~> proc[d] = "gone"

=============================================================================
