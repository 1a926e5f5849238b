----------------------------- MODULE AccessPoint -----------------------------
(***************************************************************************)
(* The network the daemon hosts (internal/wireless/ap.go, apctrl.go): one  *)
(* hostapd process and one DHCP server, replaced at each Start.            *)
(*                                                                         *)
(* Start and Stop hold AccessPoint.mu from end to end, so at most one is   *)
(* in progress; hostapd, the goroutine that reads its output, the one that *)
(* waits for it and a signal query run beside it.  Each Start uses an      *)
(* identity of its own for its directory, process and server.              *)
(***************************************************************************)
EXTENDS DhcpServer

CONSTANT Run   \* bound: identities of Starts that may leave something behind

ASSUME AccessPointAssumption == None \notin Run

VARIABLES
  at,         \* where the Start or Stop in progress is; idle when there is none
  then,       \* what it does after stopping: start, fail or done
  outcome,    \* of the last Start: none, ok or error
  tempDir, ctrlSocket, hostapd, dhcp, cancelLogs,   \* the fields, None when unset
  waitDone,   \* the wait for hostapd has returned
  enabled,    \* what the reader of its output has sent: empty, nil or error
  announced,  \* hostapd has written AP-ENABLED
  alive,      \* processes that run
  dirs,       \* directories that exist
  sockets,    \* DHCP servers whose socket is open
  occupied,   \* directories with the client socket of a query in them
  query,      \* the directory a signal query works in
  unreaped,   \* processes that stopLocked gave up waiting for
  strays      \* directories that it could not remove

fields == <<tempDir, ctrlSocket, hostapd, dhcp, cancelLogs>>
start  == <<at, then, outcome>>
output == <<waitDone, enabled, announced>>
world  == <<alive, dirs, sockets, occupied, query, unreaped, strays>>
apVars == <<fields, start, output, world>>
netVars == <<vars, apVars>>

ApTypeOK ==
  /\ at \in {"idle", "stopped", "interrupt", "kill", "remove", "rmdir", "address",
             "config", "spawn", "await", "settle", "serve"}
  /\ then \in {"start", "fail", "done"}
  /\ outcome \in {"none", "ok", "error"}
  /\ tempDir \in Run \cup {None} /\ ctrlSocket \in Run \cup {None}
  /\ hostapd \in Run \cup {None} /\ dhcp \in Run \cup {None}
  /\ cancelLogs \in Run \cup {None} /\ query \in Run \cup {None}
  /\ enabled \in {"empty", "nil", "error"}
  /\ waitDone \in BOOLEAN /\ announced \in BOOLEAN
  /\ alive \subseteq Run /\ dirs \subseteq Run /\ sockets \subseteq Run
  /\ occupied \subseteq Run /\ unreaped \subseteq Run /\ strays \subseteq Run

NetTypeOK == TypeOK /\ ApTypeOK

NetInit ==
  /\ Init
  /\ at = "idle" /\ then = "done" /\ outcome = "none"
  /\ tempDir = None /\ ctrlSocket = None /\ hostapd = None /\ dhcp = None /\ cancelLogs = None
  /\ waitDone = FALSE /\ enabled = "empty" /\ announced = FALSE
  /\ alive = {} /\ dirs = {} /\ sockets = {} /\ occupied = {}
  /\ query = None
  /\ unreaped = {} /\ strays = {}

-----------------------------------------------------------------------------
(* stopLocked, from whatever the fields say there is.                      *)

Running == hostapd # None \/ dhcp # None \/ tempDir # None \/ cancelLogs # None

Finish(result) == at' = "idle" /\ outcome' = result /\ then' = "done"

\* Where the call goes once everything is stopped.
Stopped ==
  CASE then = "start" -> at' = "address" /\ UNCHANGED <<then, outcome>>
    [] then = "fail"  -> Finish("error")
    [] then = "done"  -> Finish("none")

\* Start or Stop begins by stopping, with w to do after that.
StopLocked(w) ==
  /\ then' = w
  /\ cancelLogs' = None
  /\ sockets' = sockets \ {dhcp} /\ dhcp' = None
  /\ Restart
  /\ at' = CASE ~Running -> "stopped"
             [] Running /\ hostapd # None -> "interrupt"
             [] Running /\ hostapd = None -> "remove"
  /\ UNCHANGED <<outcome, tempDir, ctrlSocket, hostapd, output>>
  /\ UNCHANGED <<alive, dirs, occupied, query, unreaped, strays>>

NothingToStop ==
  /\ at = "stopped"
  /\ Stopped
  /\ UNCHANGED <<vars, fields, output, world>>

\* hostapd is given 300 ms to exit, then killed and given 500 ms more.
Interrupted ==
  /\ at \in {"interrupt", "kill"} /\ waitDone
  /\ at' = "remove"
  /\ hostapd' = None
  /\ UNCHANGED <<vars, then, outcome, tempDir, ctrlSocket, dhcp, cancelLogs, output, world>>

Kill ==
  /\ at = "interrupt"
  /\ at' = "kill"
  /\ UNCHANGED <<vars, then, outcome, fields, output, world>>

GiveUpOnIt ==
  /\ at = "kill"
  /\ at' = "remove"
  /\ unreaped' = unreaped \cup {hostapd}
  /\ hostapd' = None
  /\ UNCHANGED <<vars, then, outcome, tempDir, ctrlSocket, dhcp, cancelLogs, output>>
  /\ UNCHANGED <<alive, dirs, sockets, occupied, query, strays>>

\* os.RemoveAll: the entries, then the directory itself, which fails when an
\* entry has appeared since.  The error is ignored.
RemoveEntries ==
  /\ at = "remove"
  /\ at' = "rmdir"
  /\ occupied' = occupied \ {tempDir}
  /\ UNCHANGED <<vars, then, outcome, fields, output>>
  /\ UNCHANGED <<alive, dirs, sockets, query, unreaped, strays>>

RemoveDir ==
  /\ at = "rmdir"
  /\ IF tempDir \in occupied
     THEN strays' = strays \cup {tempDir} /\ UNCHANGED dirs
     ELSE dirs' = dirs \ {tempDir} /\ UNCHANGED strays
  /\ tempDir' = None /\ ctrlSocket' = None
  /\ Stopped
  /\ UNCHANGED <<vars, hostapd, dhcp, cancelLogs, output>>
  /\ UNCHANGED <<alive, sockets, occupied, query, unreaped>>

-----------------------------------------------------------------------------
(* Stop and Start.                                                         *)

Stop == at = "idle" /\ StopLocked("done")

\* No hostapd binary, or a group that is not valid: nothing is touched.
StartRefused ==
  /\ at = "idle"
  /\ outcome' = "error"
  /\ UNCHANGED <<at, then, vars, fields, output, world>>

Start == at = "idle" /\ StopLocked("start")

\* Identities nothing refers to any more.
Unused == Run \ (alive \cup dirs \cup occupied \cup unreaped \cup {query})

\* The interface has no address, or there is no room for a directory.
NoAddress ==
  /\ at = "address"
  /\ Finish("error")
  /\ UNCHANGED <<vars, fields, output, world>>

MakeDir ==
  /\ at = "address" /\ Unused # {}
  /\ at' = "config"
  /\ tempDir' = CHOOSE g \in Unused : TRUE
  /\ dirs' = dirs \cup {tempDir'}
  /\ UNCHANGED <<vars, then, outcome, ctrlSocket, hostapd, dhcp, cancelLogs, output>>
  /\ UNCHANGED <<alive, sockets, occupied, query, unreaped, strays>>

\* The control directory or the configuration cannot be written.
ConfigFails ==
  /\ at = "config"
  /\ ctrlSocket' \in {None, tempDir}
  /\ Finish("error")
  /\ UNCHANGED <<vars, tempDir, hostapd, dhcp, cancelLogs, output, world>>

WriteConfig ==
  /\ at = "config"
  /\ ctrlSocket' = tempDir /\ cancelLogs' = tempDir
  /\ at' = "spawn"
  /\ UNCHANGED <<vars, then, outcome, tempDir, hostapd, dhcp, output, world>>

SpawnFails ==
  /\ at = "spawn"
  /\ Finish("error")
  /\ UNCHANGED <<vars, fields, output, world>>

\* Mutant: the process is recorded only once it is ready.
SpawnUnrecorded ==
  /\ at = "spawn"
  /\ at' = "await"
  /\ alive' = alive \cup {tempDir}
  /\ waitDone' = FALSE /\ enabled' = "empty" /\ announced' = FALSE
  /\ UNCHANGED <<vars, then, outcome, fields>>
  /\ UNCHANGED <<dirs, sockets, occupied, query, unreaped, strays>>

Spawn ==
  /\ at = "spawn"
  /\ at' = "await"
  /\ hostapd' = tempDir
  /\ alive' = alive \cup {tempDir}
  /\ waitDone' = FALSE /\ enabled' = "empty" /\ announced' = FALSE
  /\ UNCHANGED <<vars, then, outcome, tempDir, ctrlSocket, dhcp, cancelLogs>>
  /\ UNCHANGED <<dirs, sockets, occupied, query, unreaped, strays>>

\* The select of Start; any case that is ready may be taken.
Ready ==
  /\ at = "await" /\ enabled = "nil"
  /\ at' = "settle"
  /\ UNCHANGED <<vars, then, outcome, fields, output, world>>

NotReady ==
  /\ at = "await"
  /\ enabled = "error" \/ waitDone
  /\ StopLocked("fail")

\* Mutant: Start goes on waiting.
KeepsWaiting == at = "await" /\ ~waitDone /\ UNCHANGED netVars

\* Five seconds without a word: Start goes on when hostapd is still there.
StartupTimeout ==
  /\ at = "await" /\ ~waitDone
  /\ at' = "serve"
  /\ UNCHANGED <<vars, then, outcome, fields, output, world>>

Beacons ==
  /\ at = "settle"
  /\ at' = "serve"
  /\ UNCHANGED <<vars, then, outcome, fields, output, world>>

Cancelled == at \in {"await", "settle"} /\ StopLocked("fail")

ServeFails == at = "serve" /\ StopLocked("fail")

Serve ==
  /\ at = "serve"
  /\ dhcp' = tempDir
  /\ sockets' = sockets \cup {tempDir}
  /\ Finish("ok")
  /\ enabled' = "empty" /\ announced' = FALSE
  /\ UNCHANGED <<vars, tempDir, ctrlSocket, hostapd, cancelLogs, waitDone>>
  /\ UNCHANGED <<alive, dirs, occupied, query, unreaped, strays>>

-----------------------------------------------------------------------------
(* hostapd, and the two goroutines that watch it.                          *)

\* What it writes and what is read of it later is only logged.
Announce ==
  /\ at = "await" /\ hostapd \in alive /\ ~announced
  /\ announced' = TRUE
  /\ UNCHANGED <<vars, fields, start, waitDone, enabled, world>>

\* It may exit at any time, of itself or because it is told to.
Exit(g) ==
  /\ g \in alive
  /\ alive' = alive \ {g}
  /\ UNCHANGED <<vars, fields, start, output, dirs, sockets, occupied, query, unreaped, strays>>

\* cmd.Wait returns and closes the pipe, read to its end or not.
Wait ==
  /\ hostapd # None /\ hostapd \notin alive /\ ~waitDone
  /\ waitDone' = TRUE
  /\ UNCHANGED <<vars, fields, start, enabled, announced, world>>

\* The reader of the output sends once: at AP-ENABLED, at the end of the
\* output, or when the pipe is closed under it.
ReadOutput ==
  /\ at = "await" /\ enabled = "empty"
  /\ \/ announced /\ enabled' = "nil"
     \/ ~announced /\ hostapd \notin alive /\ enabled' = "nil"
     \/ waitDone /\ enabled' = "error"
  /\ UNCHANGED <<vars, fields, start, waitDone, announced, world>>

-----------------------------------------------------------------------------
(* StationSignalDBM reads the path of the control socket under the lock    *)
(* and uses it after.                                                      *)

Query ==
  /\ at = "idle" /\ query = None /\ ctrlSocket # None
  /\ query' = ctrlSocket
  /\ UNCHANGED <<vars, fields, start, output, alive, dirs, sockets, occupied, unreaped, strays>>

QueryFails ==
  /\ query # None /\ query \notin dirs
  /\ query' = None
  /\ UNCHANGED <<vars, fields, start, output, alive, dirs, sockets, occupied, unreaped, strays>>

\* The client socket is bound before the one of hostapd is connected to: when
\* that fails its file stays.
Bind ==
  /\ query \in dirs
  /\ occupied' = occupied \cup {query}
  /\ query' \in {query, None}
  /\ UNCHANGED <<vars, fields, start, output, alive, dirs, sockets, unreaped, strays>>

\* The reply has come, or a second has passed.
QueryEnds ==
  /\ query \in occupied
  /\ occupied' = occupied \ {query}
  /\ query' = None
  /\ UNCHANGED <<vars, fields, start, output, alive, dirs, sockets, unreaped, strays>>

-----------------------------------------------------------------------------
(* Packets of karts that hostapd has let in.                               *)

Packet ==
  /\ sockets # {} /\ alive # {}
  /\ \E c \in Client :
       \/ Discover(c) \/ RequestCurrent(c) \/ Release(c)
       \/ \E a \in Address : Request(c, a)
  /\ UNCHANGED apVars

Time == Tick /\ UNCHANGED apVars

\* The steps of the call in progress, but for its failures.
Proceed ==
  \/ NothingToStop \/ Interrupted \/ Kill \/ GiveUpOnIt \/ RemoveEntries \/ RemoveDir
  \/ NoAddress \/ MakeDir \/ ConfigFails \/ WriteConfig \/ SpawnFails \/ Spawn
  \/ Ready \/ NotReady \/ StartupTimeout \/ Beacons \/ ServeFails \/ Serve

NetNext ==
  \/ Stop \/ StartRefused \/ Start
  \/ Proceed \/ Cancelled
  \/ Announce \/ (\E g \in Run : Exit(g)) \/ Wait \/ ReadOutput
  \/ Query \/ QueryFails \/ Bind \/ QueryEnds
  \/ Packet \/ Time

\* Every wait of the call in progress is bounded by a timer.
NetSpec == NetInit /\ [][NetNext]_netVars /\ WF_netVars(Proceed)

-----------------------------------------------------------------------------
\* Between calls, whichever step of a Start failed and whatever hostapd did,
\* what exists is what the fields record and the next Stop will remove: the
\* socket of a server, processes but for those that survived a kill, and
\* directories but for those a query was using.  A Start that succeeded has
\* left all of them.
NothingOrphaned ==
  at = "idle" =>
    /\ outcome = "ok" => dhcp = tempDir /\ hostapd = tempDir /\ tempDir # None
    /\ sockets = {dhcp} \ {None}
    /\ alive \subseteq {hostapd} \cup unreaped
    /\ dirs \subseteq {tempDir} \cup strays
    /\ ctrlSocket \in {None, tempDir}

\* Start and Stop end, with a hostapd that says nothing or does not die: all
\* that use the access point wait for the lock meanwhile.
StartEnds == at # "idle" ~> at = "idle"

\* ap.go:213, "Verify it is at least still alive rather than reporting success
\* on a process that died instantly": Start takes hostapd for ready only when
\* it has announced its network or still runs.
StartedAlive ==
  [][at = "await" /\ at' = "settle" => announced \/ hostapd \in alive]_netVars

=============================================================================
