------------------------------ MODULE Manager ------------------------------
(***************************************************************************)
(* The daemon's Manager (internal/daemon): the mode machine DOWN / RUNNING *)
(* / PAIRING with its access point, listeners, pairing record and pairing  *)
(* timeout; the handshake connections of the karts and the goroutines that *)
(* announce their arrival and their departure; the device and control      *)
(* maps with one Fuji session goroutine per registered connection; the     *)
(* callers blocked in WaitForDevice; and the shutdown.                     *)
(*                                                                         *)
(* One action is one critical section of Manager.mu, or one step of a      *)
(* goroutine between two of them.  SetState holds the mutex from its first *)
(* test to its return, so it is one action whatever it blocks on.          *)
(***************************************************************************)
EXTENDS Naturals, FiniteSets

CONSTANTS
  Conn,          \* handshake connections, each used once
  Kart,          \* kart idents
  KartOf,        \* the kart at the other end of each connection
  NoConn,        \* the absence of a map entry
  Waiter,        \* callers of WaitForDevice
  WaitsFor,      \* the idents each caller accepts (all of them for "")
  HasGroupInfo,  \* the runtime configuration names a game network
  CanFail,       \* startup calls (hostapd, listen, file write) may fail
  MaxPairings    \* bound: pairing sessions started in a behaviour

ASSUME ManagerAssumption ==
  /\ KartOf \in [Conn -> Kart]
  /\ NoConn \notin Conn
  /\ WaitsFor \in [Waiter -> SUBSET Kart]
  /\ HasGroupInfo \in BOOLEAN
  /\ CanFail \in BOOLEAN
  /\ MaxPairings \in Nat

VARIABLES
  mode,       \* m.state
  phase,      \* how far Close has come; m.closed is phase # "open"
  ap,         \* the network hostapd serves
  listening,  \* the modes whose listener field is set
  accepting,  \* the modes whose accept loop runs
  pairing,    \* m.pairing: the number of the pairing record, 0 for nil
  file,       \* the record whose seed is in the pairing file, 0 for none
  sessions,   \* pairing records made so far
  timer,      \* m.pairingStop: the pairing session whose timeout is armed
  expired,    \* sessions whose timer fired and whose goroutine is yet to
              \* call SetState(RUNNING)
  devices,    \* m.devices: the connection that wrote each kart's record
  controls,   \* m.controls: the connection each control session came from
  session,    \* the control session goroutine of a connection
  cancelled,  \* sessions whose context was cancelled by a teardown
  fuji,       \* sessions whose Fuji channels are open
  serve,      \* the RCD server goroutine of a connection
  handler,    \* the DeviceConnected goroutine of a connection
  stopping,   \* karts a ShutdownKart call has sent Shutdown to
  waiter      \* WaitForDevice callers

modeVars  == <<mode, phase, ap, listening, accepting, pairing, file,
               sessions, timer>>
kartVars  == <<devices, controls, session, cancelled, fuji>>
vars      == <<modeVars, expired, kartVars, serve, handler, stopping, waiter>>

Mode    == {"DOWN", "RUNNING", "PAIRING"}
Phase   == {"open", "locked", "cancelled", "closed"}
Pairing == 1..MaxPairings
Serve   == {"new", "handshake", "established", "closing", "signalling", "gone"}
Handler == {"none", "spawned", "register", "start", "pair", "paired", "done"}
Session == {"none", "dialing", "dialed", "setup", "live", "over"}

closed     == phase # "open"
baseDone   == phase \in {"cancelled", "closed"}

TypeOK ==
  /\ mode \in Mode
  /\ phase \in Phase
  /\ ap \in {"off", "game", "pairing"}
  /\ listening \in SUBSET {"RUNNING", "PAIRING"}
  /\ accepting \in SUBSET {"RUNNING", "PAIRING"}
  /\ sessions \in 0..MaxPairings
  /\ pairing \in 0..sessions
  /\ file \in 0..sessions
  /\ timer \in 0..sessions
  /\ expired \in SUBSET (1..sessions)
  /\ devices \in [Kart -> Conn \cup {NoConn}]
  /\ controls \in [Kart -> Conn \cup {NoConn}]
  /\ session \in [Conn -> Session]
  /\ cancelled \in SUBSET Conn
  /\ fuji \in SUBSET Conn
  /\ serve \in [Conn -> Serve]
  /\ handler \in [Conn -> Handler]
  /\ stopping \in SUBSET Kart
  /\ waiter \in [Waiter -> {"idle", "blocked", "woken"}]

Init ==
  /\ mode = "DOWN" /\ phase = "open" /\ ap = "off"
  /\ listening = {} /\ accepting = {}
  /\ pairing = 0 /\ file = 0 /\ sessions = 0 /\ timer = 0 /\ expired = {}
  /\ devices = [k \in Kart |-> NoConn]
  /\ controls = [k \in Kart |-> NoConn]
  /\ session = [c \in Conn |-> "none"]
  /\ cancelled = {} /\ fuji = {}
  /\ serve = [c \in Conn |-> "new"]
  /\ handler = [c \in Conn |-> "none"]
  /\ stopping = {}
  /\ waiter = [w \in Waiter |-> "idle"]

-----------------------------------------------------------------------------
(* Helpers that run inside a critical section.                             *)

\* signalLocked closes the notify channel: every blocked caller re-checks.
Signal == waiter' = [w \in Waiter |->
                       IF waiter[w] = "blocked" THEN "woken" ELSE waiter[w]]

\* teardownControlLocked on the sessions S: cancel the goroutine's context
\* and close the Fuji channels the session has been given.
TearDown(S) ==
  /\ cancelled' = cancelled \cup S
  /\ fuji' = fuji \ {c \in S : session[c] \in {"setup", "live"}}
  /\ session' = [c \in Conn |-> IF c \in S /\ session[c] = "live"
                                  THEN "over" ELSE session[c]]

Current(K) == {controls[k] : k \in K} \ {NoConn}

\* Forget the karts K and tear down their sessions (the bodies shared by
\* clearDevicesLocked, DeviceDisconnected and ShutdownKart).
Forget(K) ==
  /\ devices'  = [k \in Kart |-> IF k \in K THEN NoConn ELSE devices[k]]
  /\ controls' = [k \in Kart |-> IF k \in K THEN NoConn ELSE controls[k]]
  /\ TearDown(Current(K))

\* device.Close: the connection's server goroutine sees a read error.
CloseDevice(c) ==
  serve' = [serve EXCEPT ![c] = IF @ = "established" THEN "closing" ELSE @]

-----------------------------------------------------------------------------
(* SetState.  After the refusals it always stops the timeout, the          *)
(* listeners and every kart, enters DOWN and rewrites the pairing file;    *)
(* then it starts the services of the target.  A startup step that fails   *)
(* returns at once, without a signal, from wherever the earlier steps got. *)

Settle(m, a, listen, accept, record, saved) ==
  /\ mode' = m /\ ap' = a
  /\ listening' = listen /\ accepting' = accept
  /\ pairing' = record /\ file' = saved

\* persistPairingLocked(nil) fails: the file keeps what it held.
ClearRecordFails(target) ==
  /\ CanFail
  /\ Settle("DOWN", IF target = "DOWN" THEN "off" ELSE ap, {}, {}, 0, file)
  /\ timer' = 0
  /\ UNCHANGED <<sessions, waiter>>

EnterDown ==
  /\ Settle("DOWN", "off", {}, {}, 0, 0)
  /\ timer' = 0
  /\ Signal
  /\ UNCHANGED sessions

\* ap.Start refuses its arguments before it touches hostapd, or stops it.
RunningFails ==
  /\ CanFail
  /\ \/ \E a \in {ap, "off"} : Settle("DOWN", a, {}, {}, 0, 0)
     \/ Settle("DOWN", "game", {}, {}, 0, 0)                  \* listen
     \/ Settle("RUNNING", "game", {"RUNNING"}, {}, 0, 0)      \* persist
  /\ timer' = 0
  /\ UNCHANGED <<sessions, waiter>>

\* Mutant: the timeout is not stopped.
EnterRunningKeepsTimeout ==
  /\ Settle("RUNNING", "game", {"RUNNING"}, {"RUNNING"}, 0, 0)
  /\ Signal
  /\ UNCHANGED <<sessions, timer>>

EnterRunning ==
  /\ Settle("RUNNING", "game", {"RUNNING"}, {"RUNNING"}, 0, 0)
  /\ timer' = 0
  /\ Signal
  /\ UNCHANGED sessions

PairingFails ==
  /\ CanFail
  /\ sessions < MaxPairings
  /\ sessions' = sessions + 1
  /\ \/ \E a \in {ap, "off"} : Settle("DOWN", a, {}, {}, 0, 0)
     \/ \E saved \in {0, sessions'} :                         \* persist, listen
           Settle("DOWN", "pairing", {}, {}, sessions', saved)
  /\ timer' = 0
  /\ UNCHANGED waiter

\* Mutant: the timeout is not started.
EnterPairingWithoutTimeout ==
  /\ sessions < MaxPairings
  /\ sessions' = sessions + 1
  /\ Settle("PAIRING", "pairing", {"PAIRING"}, {"PAIRING"}, sessions', sessions')
  /\ timer' = 0
  /\ Signal

EnterPairing ==
  /\ sessions < MaxPairings
  /\ sessions' = sessions + 1
  /\ Settle("PAIRING", "pairing", {"PAIRING"}, {"PAIRING"}, sessions', sessions')
  /\ timer' = sessions'
  /\ Signal

Transition(target) ==
  /\ Forget(Kart)
  /\ \/ ClearRecordFails(target)
     \/ target = "DOWN"    /\ EnterDown
     \/ target = "RUNNING" /\ (EnterRunning \/ RunningFails)
     \/ target = "PAIRING" /\ (EnterPairing \/ PairingFails)
  /\ UNCHANGED phase

\* The calls SetState answers without touching anything.
Refuses(target) ==
  \/ closed
  \/ target = mode
  \/ target = "PAIRING" /\ ~HasGroupInfo

SetState(target) ==
  \/ Refuses(target) /\ UNCHANGED <<modeVars, kartVars, waiter>>
  \/ ~Refuses(target) /\ Transition(target)

\* An administrator's SetState RPC, or the AutoStart call of Manager.Start.
RequestState(target) ==
  /\ ~Refuses(target)
  /\ Transition(target)
  /\ UNCHANGED <<expired, serve, handler, stopping>>

\* The timeout goroutine's select: its timer fired before its context was
\* cancelled.  From here on cancelling it has no effect.
TimeoutFires ==
  /\ timer # 0 /\ timer \notin expired
  /\ expired' = expired \cup {timer}
  /\ UNCHANGED <<modeVars, kartVars, serve, handler, stopping, waiter>>

TimeoutReturns(p) ==
  /\ p \in expired
  /\ expired' = expired \ {p}
  /\ SetState("RUNNING")
  /\ UNCHANGED <<serve, handler, stopping>>

-----------------------------------------------------------------------------
(* The server goroutine of a handshake connection: acceptLoop's Serve call *)
(* and the HandshakeService it drives.  It outlives the listener that      *)
(* accepted it; only its peer, device.Close and the base context end it.   *)

Accept(c) ==
  /\ accepting # {}
  /\ serve[c] = "new"
  /\ serve' = [serve EXCEPT ![c] = "handshake"]
  /\ UNCHANGED <<modeVars, expired, kartVars, handler, stopping, waiter>>

\* Mutant: a second finalize is accepted.
FinalizeAgain(c) ==
  /\ serve[c] \in {"handshake", "established"}
  /\ serve' = [serve EXCEPT ![c] = "established"]
  /\ handler' = [handler EXCEPT ![c] = "spawned"]
  /\ UNCHANGED <<modeVars, expired, kartVars, stopping, waiter>>

\* The last handshake command: done is set and DeviceConnected runs in a
\* goroutine of its own.
Finalize(c) ==
  /\ serve[c] = "handshake"
  /\ serve' = [serve EXCEPT ![c] = "established"]
  /\ handler' = [handler EXCEPT ![c] = "spawned"]
  /\ UNCHANGED <<modeVars, expired, kartVars, stopping, waiter>>

\* Serve returns: the peer closed or fell silent, or the base context ended.
\* Only an established handshake reports a disconnect.
ServeReturns(c) ==
  /\ \/ serve[c] = "handshake"   /\ serve' = [serve EXCEPT ![c] = "gone"]
     \/ serve[c] = "established" /\ serve' = [serve EXCEPT ![c] = "closing"]
  /\ UNCHANGED <<modeVars, expired, kartVars, handler, stopping, waiter>>

\* Mutant: nobody closes the connection when the base context ends.
ServeIgnoresCancel(c) == phase = "closed" /\ ServeReturns(c)
ServeCancelled(c) == baseDone /\ ServeReturns(c)

\* DeviceDisconnected, first critical section: by ident, whoever registered.
DeviceDisconnected(c) ==
  /\ serve[c] = "closing"
  /\ serve' = [serve EXCEPT ![c] = "signalling"]
  /\ Forget({KartOf[c]})
  /\ UNCHANGED <<modeVars, expired, handler, stopping, waiter>>

\* Its second critical section, after the observer was told.
DisconnectSignals(c) ==
  /\ serve[c] = "signalling"
  /\ serve' = [serve EXCEPT ![c] = "gone"]
  /\ Signal
  /\ UNCHANGED <<modeVars, expired, kartVars, handler, stopping>>

-----------------------------------------------------------------------------
(* The DeviceConnected goroutine.                                          *)

\* It reads the mode under the read lock and acts on it after the unlock.
DeviceConnected(c) ==
  /\ handler[c] = "spawned"
  /\ \/ /\ mode = "PAIRING"
        /\ handler' = [handler EXCEPT ![c] = "pair"]
        /\ UNCHANGED serve
     \/ /\ mode = "RUNNING"
        /\ handler' = [handler EXCEPT ![c] = "register"]
        /\ UNCHANGED serve
     \/ /\ mode = "DOWN"
        /\ handler' = [handler EXCEPT ![c] = "done"]
        /\ CloseDevice(c)
  /\ UNCHANGED <<modeVars, expired, kartVars, stopping, waiter>>

\* A device that does not call itself Fuji is closed whatever the mode.
RejectDevice(c) ==
  /\ handler[c] = "spawned"
  /\ handler' = [handler EXCEPT ![c] = "done"]
  /\ CloseDevice(c)
  /\ UNCHANGED <<modeVars, expired, kartVars, stopping, waiter>>

\* Mutant: the new record is not announced.
RegisterSilently(c) ==
  /\ handler[c] = "register"
  /\ handler' = [handler EXCEPT ![c] = "start"]
  /\ devices' = [devices EXCEPT ![KartOf[c]] = c]
  /\ UNCHANGED <<modeVars, expired, controls, session, cancelled, fuji,
                 serve, stopping, waiter>>

RegisterDevice(c) ==
  /\ handler[c] = "register"
  /\ handler' = [handler EXCEPT ![c] = "start"]
  /\ devices' = [devices EXCEPT ![KartOf[c]] = c]
  /\ Signal
  /\ UNCHANGED <<modeVars, expired, controls, session, cancelled, fuji,
                 serve, stopping>>

\* Replace the kart's control session, if it has one, by a new one.
OpenSession(c) ==
  LET old == Current({KartOf[c]}) IN
  /\ controls' = [controls EXCEPT ![KartOf[c]] = c]
  /\ cancelled' = cancelled \cup old
  /\ fuji' = fuji \ {d \in old : session[d] \in {"setup", "live"}}
  /\ session' = [d \in Conn |->
        IF d = c THEN "dialing"
        ELSE IF d \in old /\ session[d] = "live" THEN "over" ELSE session[d]]
  /\ UNCHANGED devices

\* startControlSession up to its go statement.
StartControlSession(c) ==
  /\ handler[c] = "start"
  /\ handler' = [handler EXCEPT ![c] = "done"]
  /\ IF devices[KartOf[c]] = NoConn THEN UNCHANGED kartVars ELSE OpenSession(c)
  /\ UNCHANGED <<modeVars, expired, serve, stopping, waiter>>

\* handlePairingDevice: Pair either fails, and the device is closed, or the
\* observer hears of it and the manager is asked for normal mode.
PairFails(c) ==
  /\ handler[c] = "pair"
  /\ handler' = [handler EXCEPT ![c] = "done"]
  /\ CloseDevice(c)
  /\ UNCHANGED <<modeVars, expired, kartVars, stopping, waiter>>

PairSucceeds(c) ==
  /\ handler[c] = "pair"
  /\ handler' = [handler EXCEPT ![c] = "paired"]
  /\ UNCHANGED <<modeVars, expired, kartVars, serve, stopping, waiter>>

PairReturns(c) ==
  /\ handler[c] = "paired"
  /\ handler' = [handler EXCEPT ![c] = "done"]
  /\ SetState("RUNNING")
  /\ CloseDevice(c)
  /\ UNCHANGED <<expired, stopping>>

-----------------------------------------------------------------------------
(* The control session goroutine of startControlSession.                   *)

Stale(c) == controls[KartOf[c]] # c \/ c \in cancelled \/ baseDone

DialSucceeds(c) ==
  /\ session[c] = "dialing"
  /\ session' = [session EXCEPT ![c] = "dialed"]
  /\ fuji' = fuji \cup {c}
  /\ UNCHANGED <<modeVars, expired, devices, controls, cancelled, serve,
                 handler, stopping, waiter>>

DialFails(c) ==
  /\ session[c] = "dialing"
  /\ session' = [session EXCEPT ![c] = "over"]
  /\ controls' = [controls EXCEPT ![KartOf[c]] = IF @ = c THEN NoConn ELSE @]
  /\ cancelled' = cancelled \cup {c}
  /\ UNCHANGED <<modeVars, expired, devices, fuji, serve, handler, stopping,
                 waiter>>

\* The first re-check: hand the channels to the session or close them.
AttachSession(c) ==
  /\ session[c] = "dialed"
  /\ IF Stale(c)
     THEN session' = [session EXCEPT ![c] = "over"] /\ fuji' = fuji \ {c}
     ELSE session' = [session EXCEPT ![c] = "setup"] /\ UNCHANGED fuji
  /\ UNCHANGED <<modeVars, expired, devices, controls, cancelled, serve,
                 handler, stopping, waiter>>

\* Mutant: the session is published without the second re-check.
EstablishUnchecked(c) ==
  /\ session[c] = "setup"
  /\ session' = [session EXCEPT ![c] = "live"]
  /\ Signal
  /\ UNCHANGED <<modeVars, expired, devices, controls, cancelled, fuji, serve,
                 handler, stopping>>

\* The second re-check, after media, connection_info and the drive sender.
EstablishSession(c) ==
  /\ session[c] = "setup"
  /\ IF Stale(c)
     THEN /\ session' = [session EXCEPT ![c] = "over"]
          /\ fuji' = fuji \ {c}
          /\ UNCHANGED waiter
     ELSE /\ session' = [session EXCEPT ![c] = "live"]
          /\ Signal
          /\ UNCHANGED fuji
  /\ UNCHANGED <<modeVars, expired, devices, controls, cancelled, serve,
                 handler, stopping>>

-----------------------------------------------------------------------------
(* ShutdownKart: send Shutdown over the session found under the read lock, *)
(* then forget the kart by ident.                                          *)

SendShutdown(k) ==
  /\ devices[k] # NoConn /\ controls[k] # NoConn
  /\ session[controls[k]] \in {"setup", "live"}
  /\ k \notin stopping
  /\ stopping' = stopping \cup {k}
  /\ UNCHANGED <<modeVars, expired, kartVars, serve, handler, waiter>>

ShutdownFails(k) ==
  /\ k \in stopping
  /\ stopping' = stopping \ {k}
  /\ UNCHANGED <<modeVars, expired, kartVars, serve, handler, waiter>>

ShutdownReturns(k) ==
  /\ k \in stopping
  /\ stopping' = stopping \ {k}
  /\ Forget({k})
  /\ Signal
  /\ UNCHANGED <<modeVars, expired, serve, handler>>

-----------------------------------------------------------------------------
(* WaitForDevice: one pass of its loop, and the caller giving up.          *)

Matches(w) == \E k \in WaitsFor[w] : devices[k] # NoConn

\* The snapshot of the map, of the channel and of closed is one read section.
CheckDevices(w) ==
  /\ waiter[w] \in {"idle", "woken"}
  /\ waiter' = [waiter EXCEPT
                 ![w] = IF Matches(w) \/ closed THEN "idle" ELSE "blocked"]
  /\ UNCHANGED <<modeVars, expired, kartVars, serve, handler, stopping>>

GiveUp(w) ==
  /\ waiter[w] \in {"blocked", "woken"}
  /\ waiter' = [waiter EXCEPT ![w] = "idle"]
  /\ UNCHANGED <<modeVars, expired, kartVars, serve, handler, stopping>>

-----------------------------------------------------------------------------
(* Close: one critical section, the base context, the wait group.          *)

\* Mutant: Close wakes nobody.
CloseSilently ==
  /\ phase = "open"
  /\ phase' = "locked"
  /\ Settle(mode, "off", {}, {}, pairing, file)
  /\ timer' = 0
  /\ Forget(Kart)
  /\ UNCHANGED <<sessions, expired, serve, handler, stopping, waiter>>

CloseLocked ==
  /\ phase = "open"
  /\ phase' = "locked"
  /\ Settle(mode, "off", {}, {}, pairing, file)
  /\ timer' = 0
  /\ Forget(Kart)
  /\ Signal
  /\ UNCHANGED <<sessions, expired, serve, handler, stopping>>

CancelBase ==
  /\ phase = "locked"
  /\ phase' = "cancelled"
  /\ UNCHANGED <<mode, ap, listening, accepting, pairing, file, sessions,
                 timer, expired, kartVars, serve, handler, stopping, waiter>>

\* backgroundWG: accept loops wait for the connections they accepted.
BackgroundDone ==
  /\ accepting = {}
  /\ \A c \in Conn : serve[c] \in {"new", "gone"}
  /\ timer = 0 /\ expired = {}
  /\ \A c \in Conn : session[c] \in {"none", "live", "over"}

CloseReturns ==
  /\ phase = "cancelled"
  /\ BackgroundDone
  /\ phase' = "closed"
  /\ UNCHANGED <<mode, ap, listening, accepting, pairing, file, sessions,
                 timer, expired, kartVars, serve, handler, stopping, waiter>>

-----------------------------------------------------------------------------
Next ==
  \/ \E t \in Mode : RequestState(t)
  \/ TimeoutFires
  \/ \E p \in Pairing : TimeoutReturns(p)
  \/ \E c \in Conn :
       \/ Accept(c) \/ Finalize(c) \/ ServeReturns(c)
       \/ DeviceDisconnected(c) \/ DisconnectSignals(c)
       \/ DeviceConnected(c) \/ RejectDevice(c)
       \/ RegisterDevice(c) \/ StartControlSession(c)
       \/ PairFails(c) \/ PairSucceeds(c) \/ PairReturns(c)
       \/ DialSucceeds(c) \/ DialFails(c)
       \/ AttachSession(c) \/ EstablishSession(c)
  \/ \E k \in Kart : SendShutdown(k) \/ ShutdownFails(k) \/ ShutdownReturns(k)
  \/ \E w \in Waiter : CheckDevices(w) \/ GiveUp(w)
  \/ CloseLocked \/ CancelBase \/ CloseReturns

Spec == Init /\ [][Next]_vars

\* What the Go runtime and the program's own deadlines guarantee: goroutines
\* run, the timer fires, Pair and Dial end within their timeouts, and Close,
\* once called, goes on.  Nothing obliges an administrator, a kart, or the
\* caller of WaitForDevice.
Fairness ==
  /\ WF_vars(TimeoutFires)
  /\ \A p \in Pairing : WF_vars(TimeoutReturns(p))
  /\ \A c \in Conn :
       /\ WF_vars(ServeCancelled(c))
       /\ WF_vars(DeviceDisconnected(c))
       /\ WF_vars(DisconnectSignals(c))
       /\ WF_vars(DeviceConnected(c) \/ RejectDevice(c))
       /\ WF_vars(RegisterDevice(c) \/ StartControlSession(c))
       /\ WF_vars(PairFails(c) \/ PairSucceeds(c))
       /\ WF_vars(PairReturns(c))
       /\ WF_vars(DialSucceeds(c) \/ DialFails(c))
       /\ WF_vars(AttachSession(c))
       /\ WF_vars(EstablishSession(c))
  /\ \A w \in Waiter : WF_vars(waiter[w] = "woken" /\ CheckDevices(w))
  /\ WF_vars(CancelBase) /\ WF_vars(CloseReturns)

FairSpec == Spec /\ Fairness

-----------------------------------------------------------------------------
(* Properties.                                                             *)

\* What is on air and who is listening follows the mode however many
\* startups failed halfway (state.go SetState, daemon.go Close): until Close,
\* a mode other than DOWN has exactly its own listener and its own network,
\* DOWN has no listener, and every accept loop has its listener.
ServiceMatchesMode ==
  /\ accepting \subseteq listening
  /\ listening = IF closed \/ mode = "DOWN" THEN {} ELSE {mode}
  /\ ~closed /\ mode = "RUNNING" => ap = "game"
  /\ ~closed /\ mode = "PAIRING" => ap = "pairing" /\ accepting = {"PAIRING"}
  /\ closed => ap = "off"

\* The pairing record in memory and the seed in the pairing file (persist.go)
\* agree with the mode: none while karts drive, the one the QR code shows
\* while pairing.  A failed startup may leave a record only in DOWN.
RecordMatchesMode ==
  /\ mode = "RUNNING" => pairing = 0 /\ file = 0
  /\ mode = "PAIRING" => pairing = sessions /\ file = sessions /\ sessions # 0

\* An open pairing window always has a timeout that will end it: its own
\* timer, still armed (startPairingTimeoutLocked, stopPairingTimeoutLocked).
\* No timer outlives its window.
PairingHasTimeout ==
  timer = IF mode = "PAIRING" /\ ~closed THEN pairing ELSE 0

\* All that a mode change sets up and takes down (SetState, Close) agrees with
\* the mode it leaves behind, whichever of its steps failed.
ModeAgrees == ServiceMatchesMode /\ RecordMatchesMode /\ PairingHasTimeout

\* A kart with a control session has a device record (devices.go): the
\* selectors of every drive, parameter and shutdown call go through the record,
\* so a session without one could never be commanded or shut down.
ControlHasDevice ==
  \A k \in Kart : controls[k] # NoConn => devices[k] # NoConn

\* Fuji channels are never orphaned across reconnects, mode changes, kart
\* shutdowns and failed dials (startControlSession, teardownControlLocked):
\* open channels belong to the kart's current session, or to a goroutine that
\* is on its way to a re-check and will find that it is stale.
NoOrphanSession ==
  \A c \in Conn :
    /\ c \in fuji => session[c] \in {"dialed", "setup", "live"}
    /\ session[c] = "live" => controls[KartOf[c]] = c /\ c \in fuji
    /\ session[c] \in {"dialing", "dialed", "setup"} /\ c \notin cancelled
         => controls[KartOf[c]] = c

\* The converse: a map entry is a session that runs, not one that ended,
\* until the base context is cancelled.
ControlIsRunning ==
  \A k \in Kart : controls[k] # NoConn /\ ~baseDone =>
    /\ KartOf[controls[k]] = k
    /\ controls[k] \notin cancelled
    /\ session[controls[k]] \in {"dialing", "dialed", "setup", "live"}

\* The device map, the control map, the session goroutines and the channels
\* they opened agree, whichever disconnect, mode change or kart shutdown
\* overtakes a session that is being set up (devices.go).
SessionsAgree == ControlHasDevice /\ NoOrphanSession /\ ControlIsRunning

\* WaitForDevice (devices.go) misses no wakeup: while a caller sleeps on the
\* notify channel it saw, no kart it asked for is connected and the manager
\* is open.
NoMissedWakeup ==
  \A w \in Waiter : waiter[w] = "blocked" => ~closed /\ ~Matches(w)

\* A device record "describes a kart whose handshake is currently held open"
\* (daemon.go DeviceSummary): its server goroutine has not reported the
\* disconnect.
RecordHasHandshake ==
  \A k \in Kart : devices[k] # NoConn =>
    serve[devices[k]] \notin {"signalling", "gone"}

\* A disconnect concerns "a tracked kart [that] drops its connection"
\* (events.go Observer): the record it removes was made by the connection
\* that dropped.
DisconnectIsOwn ==
  [][\A c \in Conn : serve[c] = "closing" /\ serve'[c] = "signalling"
       => devices[KartOf[c]] \in {c, NoConn}]_vars

\* The connections behave as the handshake server promises (ConnLife, which
\* Handshake implements): the two models agree on what they exchange.
StageOf(s) == IF s = "new" THEN "new"
              ELSE IF s = "handshake" THEN "open"
              ELSE IF s \in {"established", "closing"} THEN "up" ELSE "down"
ArrivalOf(h) == IF h = "none" THEN "none"
                ELSE IF h = "spawned" THEN "due" ELSE "told"
Life == INSTANCE ConnLife WITH
  stage <- [c \in Conn |-> StageOf(serve[c])],
  arrival <- [c \in Conn |-> ArrivalOf(handler[c])],
  departed <- {c \in Conn : /\ serve[c] \in {"signalling", "gone"}
                            /\ handler[c] # "none"}
LifeSpec == Life!Spec

\* Every pairing window ends (USAGE.md: the daemon returns to normal mode when
\* pairing times out) or the daemon is closed.
PairingEnds == mode = "PAIRING" ~> mode # "PAIRING" \/ closed

\* Close returns: every goroutine in backgroundWG ends once the base context
\* is cancelled (daemon.go Close).
CloseEnds == (phase = "locked") ~> (phase = "closed")

\* A caller of WaitForDevice that was woken returns or sleeps again; closed
\* managers let every caller go.
WaitersReleased == closed ~> \A w \in Waiter : waiter[w] = "idle"

=============================================================================
