--------------------------- MODULE ManagerProofs ---------------------------
(* Proofs that the safety invariants of Manager hold for every set of      *)
(* karts, connections and waiting callers, with and without startup        *)
(* failures, and for every number of pairing windows.                      *)
EXTENDS Manager, TLAPS

USE ManagerAssumption

-----------------------------------------------------------------------------
(* What a step can do to each group of variables.                          *)

\* The mode, its services, its record and its timeout change together, in a
\* transition of SetState or in Close.
LEMMA ModeStep ==
  ASSUME [Next]_vars
  PROVE  \/ UNCHANGED modeVars
         \/ \E t \in Mode : ~Refuses(t) /\ Transition(t)
         \/ CloseLocked
         \/ /\ phase # "open" /\ phase' \in Phase \ {"open"}
            /\ UNCHANGED <<mode, ap, listening, accepting, pairing, file,
                           sessions, timer>>
<1> USE DEF modeVars, Mode, Phase
<1>1. CASE UNCHANGED vars
  BY <1>1 DEF vars
<1>2. ASSUME NEW t \in Mode, RequestState(t)
      PROVE  \E u \in Mode : ~Refuses(u) /\ Transition(u)
  BY <1>2 DEF RequestState
<1>3. CASE TimeoutFires
  BY <1>3 DEF TimeoutFires
<1>4. ASSUME NEW p \in Pairing, TimeoutReturns(p)
      PROVE  UNCHANGED modeVars \/ \E u \in Mode : ~Refuses(u) /\ Transition(u)
  BY <1>4 DEF TimeoutReturns, SetState
<1>5. ASSUME NEW c \in Conn, PairReturns(c)
      PROVE  UNCHANGED modeVars \/ \E u \in Mode : ~Refuses(u) /\ Transition(u)
  BY <1>5 DEF PairReturns, SetState
<1>6. ASSUME NEW c \in Conn,
             \/ Accept(c) \/ Finalize(c) \/ ServeReturns(c)
             \/ DeviceDisconnected(c) \/ DisconnectSignals(c)
             \/ DeviceConnected(c) \/ RejectDevice(c)
             \/ RegisterDevice(c) \/ StartControlSession(c)
             \/ PairFails(c) \/ PairSucceeds(c)
             \/ DialSucceeds(c) \/ DialFails(c)
             \/ AttachSession(c) \/ EstablishSession(c)
      PROVE  UNCHANGED modeVars
  BY <1>6 DEF Accept, Finalize, ServeReturns, DeviceDisconnected,
       DisconnectSignals, DeviceConnected, RejectDevice, RegisterDevice,
       StartControlSession, PairFails, PairSucceeds, DialSucceeds, DialFails,
       AttachSession, EstablishSession
<1>7. ASSUME NEW k \in Kart,
             SendShutdown(k) \/ ShutdownFails(k) \/ ShutdownReturns(k)
      PROVE  UNCHANGED modeVars
  BY <1>7 DEF SendShutdown, ShutdownFails, ShutdownReturns
<1>8. ASSUME NEW w \in Waiter, CheckDevices(w) \/ GiveUp(w)
      PROVE  UNCHANGED modeVars
  BY <1>8 DEF CheckDevices, GiveUp
<1>9. CASE CancelBase \/ CloseReturns
  BY <1>9 DEF CancelBase, CloseReturns
<1> QED
  BY <1>1, <1>2, <1>3, <1>4, <1>5, <1>6, <1>7, <1>8, <1>9 DEF Next

-----------------------------------------------------------------------------
(* Type correctness.                                                       *)

\* A transition leaves the mode variables in their types: every failure
\* point of SetState stores a mode, a network and record numbers that exist.
LEMMA TransitionType ==
  ASSUME TypeOK, NEW t \in Mode, Transition(t)
  PROVE  /\ mode' \in Mode /\ ap' \in {"off", "game", "pairing"}
         /\ listening' \in SUBSET {"RUNNING", "PAIRING"}
         /\ accepting' \in SUBSET {"RUNNING", "PAIRING"}
         /\ sessions' \in 0..MaxPairings /\ sessions <= sessions'
         /\ pairing' \in 0..sessions' /\ file' \in 0..sessions'
         /\ timer' \in 0..sessions'
<1> USE DEF TypeOK, Mode, Settle
<1>1. CASE ClearRecordFails(t)
  BY <1>1 DEF ClearRecordFails
<1>2. CASE EnterDown
  BY <1>2 DEF EnterDown
<1>3. CASE EnterRunning \/ RunningFails
  BY <1>3 DEF EnterRunning, RunningFails
<1>4. CASE EnterPairing
  BY <1>4 DEF EnterPairing
<1>5. CASE PairingFails
  BY <1>5 DEF PairingFails
<1> QED
  BY <1>1, <1>2, <1>3, <1>4, <1>5 DEF Transition

\* Forgetting karts keeps the maps and the session states in their types.
LEMMA ForgetType ==
  ASSUME TypeOK, NEW K \in SUBSET Kart, Forget(K)
  PROVE  /\ devices' \in [Kart -> Conn \cup {NoConn}]
         /\ controls' \in [Kart -> Conn \cup {NoConn}]
         /\ session' \in [Conn -> Session]
         /\ cancelled' \in SUBSET Conn
         /\ fuji' \in SUBSET Conn
  BY DEF TypeOK, Forget, TearDown, Current, Session

\* Waking the blocked callers.
LEMMA SignalType ==
  ASSUME TypeOK, Signal
  PROVE  waiter' \in [Waiter -> {"idle", "blocked", "woken"}]
  BY DEF TypeOK, Signal

\* Closing a device only moves its server goroutine.
LEMMA CloseDeviceType ==
  ASSUME TypeOK, NEW c \in Conn, CloseDevice(c)
  PROVE  serve' \in [Conn -> Serve]
  BY DEF TypeOK, CloseDevice, Serve

\* Whatever its outcome, a transition forgets every kart and leaves Close alone.
LEMMA TransitionRest ==
  ASSUME NEW t \in Mode, Transition(t)
  PROVE  Forget(Kart) /\ (Signal \/ UNCHANGED waiter) /\ UNCHANGED phase
  BY DEF Transition, ClearRecordFails, EnterDown, EnterRunning, RunningFails,
         EnterPairing, PairingFails

ModeTypes ==
  /\ mode \in Mode /\ phase \in Phase
  /\ ap \in {"off", "game", "pairing"}
  /\ listening \in SUBSET {"RUNNING", "PAIRING"}
  /\ accepting \in SUBSET {"RUNNING", "PAIRING"}
  /\ sessions \in 0..MaxPairings
  /\ pairing \in 0..sessions /\ file \in 0..sessions /\ timer \in 0..sessions

KartTypes ==
  /\ devices \in [Kart -> Conn \cup {NoConn}]
  /\ controls \in [Kart -> Conn \cup {NoConn}]
  /\ session \in [Conn -> Session]
  /\ cancelled \in SUBSET Conn
  /\ fuji \in SUBSET Conn

GoroutineTypes ==
  /\ serve \in [Conn -> Serve]
  /\ handler \in [Conn -> Handler]
  /\ stopping \in SUBSET Kart
  /\ waiter \in [Waiter -> {"idle", "blocked", "woken"}]

\* Every step keeps the types of the mode's variables.
LEMMA ModeTypesStep ==
  ASSUME TypeOK, [Next]_vars
  PROVE  ModeTypes' /\ sessions <= sessions'
<1>1. CASE UNCHANGED modeVars
  BY <1>1 DEF TypeOK, ModeTypes, modeVars
<1>2. ASSUME NEW t \in Mode, Transition(t)
      PROVE  ModeTypes' /\ sessions <= sessions'
  BY <1>2, TransitionType, TransitionRest DEF ModeTypes, TypeOK
<1>3. CASE CloseLocked
  BY <1>3 DEF CloseLocked, Settle, TypeOK, ModeTypes, Phase
<1>4. CASE /\ phase' \in Phase \ {"open"}
           /\ UNCHANGED <<mode, ap, listening, accepting, pairing, file,
                          sessions, timer>>
  BY <1>4 DEF TypeOK, ModeTypes
<1> QED
  BY <1>1, <1>2, <1>3, <1>4, ModeStep

\* Every step from a well-typed state ends in one.
LEMMA TypeStep ==
  ASSUME TypeOK, [Next]_vars
  PROVE  TypeOK'
<1> SUFFICES /\ KartTypes' /\ GoroutineTypes'
             /\ expired' \in SUBSET (1..sessions')
  BY ModeTypesStep DEF ModeTypes, KartTypes, GoroutineTypes, TypeOK
<1>0. sessions \in Nat /\ sessions' \in Nat /\ sessions <= sessions'
  BY ModeTypesStep DEF ModeTypes, TypeOK
<1>e. ASSUME expired' \in SUBSET expired
      PROVE  expired' \in SUBSET (1..sessions')
  BY <1>0, <1>e DEF TypeOK
<1> USE DEF KartTypes, GoroutineTypes, modeVars, kartVars
<1>1. CASE UNCHANGED vars
  BY <1>1, <1>e DEF vars, TypeOK
<1>2. ASSUME NEW t \in Mode, RequestState(t)
      PROVE  KartTypes' /\ GoroutineTypes' /\ expired' \in SUBSET (1..sessions')
  <2>1. Forget(Kart) /\ (Signal \/ UNCHANGED waiter)
    BY <1>2, TransitionRest DEF RequestState
  <2> QED
    BY <2>1, <1>2, <1>e, ForgetType, SignalType DEF RequestState, TypeOK
<1>3. CASE TimeoutFires
  BY <1>3 DEF TimeoutFires, TypeOK
<1>4. ASSUME NEW p \in Pairing, TimeoutReturns(p)
      PROVE  KartTypes' /\ GoroutineTypes' /\ expired' \in SUBSET (1..sessions')
  <2>1. \/ Forget(Kart) /\ (Signal \/ UNCHANGED waiter)
        \/ UNCHANGED <<kartVars, waiter>>
    BY <1>4, TransitionRest DEF TimeoutReturns, SetState, Mode
  <2> QED
    BY <2>1, <1>4, <1>e, ForgetType, SignalType DEF TimeoutReturns, TypeOK
<1>5. ASSUME NEW c \in Conn, PairReturns(c)
      PROVE  KartTypes' /\ GoroutineTypes' /\ expired' \in SUBSET (1..sessions')
  <2>1. \/ Forget(Kart) /\ (Signal \/ UNCHANGED waiter)
        \/ UNCHANGED <<kartVars, waiter>>
    BY <1>5, TransitionRest DEF PairReturns, SetState, Mode
  <2> QED
    BY <2>1, <1>5, <1>e, ForgetType, SignalType, CloseDeviceType
       DEF PairReturns, TypeOK, Handler
<1>6. ASSUME NEW c \in Conn,
             \/ Accept(c) \/ Finalize(c) \/ ServeReturns(c)
             \/ DisconnectSignals(c) \/ DeviceConnected(c) \/ RejectDevice(c)
             \/ PairFails(c) \/ PairSucceeds(c)
      PROVE  KartTypes' /\ GoroutineTypes' /\ expired' \in SUBSET (1..sessions')
  BY <1>6, <1>e, SignalType, CloseDeviceType
     DEF Accept, Finalize, ServeReturns, DisconnectSignals, DeviceConnected,
         RejectDevice, PairFails, PairSucceeds, TypeOK, Serve, Handler
<1>7. ASSUME NEW c \in Conn, DeviceDisconnected(c)
      PROVE  KartTypes' /\ GoroutineTypes' /\ expired' \in SUBSET (1..sessions')
  <2>1. KartOf[c] \in Kart /\ Forget({KartOf[c]})
    BY <1>7 DEF DeviceDisconnected
  <2> QED
    BY <2>1, <1>7, <1>e, ForgetType DEF DeviceDisconnected, TypeOK, Serve
<1>8. ASSUME NEW c \in Conn, RegisterDevice(c)
      PROVE  KartTypes' /\ GoroutineTypes' /\ expired' \in SUBSET (1..sessions')
  BY <1>8, <1>e, SignalType DEF RegisterDevice, TypeOK, Handler
<1>9. ASSUME NEW c \in Conn, StartControlSession(c)
      PROVE  KartTypes' /\ GoroutineTypes' /\ expired' \in SUBSET (1..sessions')
  BY <1>9, <1>e DEF StartControlSession, OpenSession, Current, TypeOK, Handler,
                    Session
<1>10. ASSUME NEW c \in Conn,
              \/ DialSucceeds(c) \/ DialFails(c)
              \/ AttachSession(c) \/ EstablishSession(c)
       PROVE  KartTypes' /\ GoroutineTypes' /\ expired' \in SUBSET (1..sessions')
  BY <1>10, <1>e, SignalType
     DEF DialSucceeds, DialFails, AttachSession, EstablishSession, TypeOK, Session
<1>11. ASSUME NEW k \in Kart,
              SendShutdown(k) \/ ShutdownFails(k) \/ ShutdownReturns(k)
       PROVE  KartTypes' /\ GoroutineTypes' /\ expired' \in SUBSET (1..sessions')
  BY <1>11, <1>e, SignalType, ForgetType
     DEF SendShutdown, ShutdownFails, ShutdownReturns, TypeOK
<1>12. ASSUME NEW w \in Waiter, CheckDevices(w) \/ GiveUp(w)
       PROVE  KartTypes' /\ GoroutineTypes' /\ expired' \in SUBSET (1..sessions')
  BY <1>12, <1>e DEF CheckDevices, GiveUp, TypeOK
<1>13. CASE CloseLocked
  BY <1>13, <1>e, SignalType, ForgetType DEF CloseLocked, TypeOK
<1>14. CASE CancelBase \/ CloseReturns
  BY <1>14, <1>e DEF CancelBase, CloseReturns, TypeOK
<1> QED
  BY <1>1, <1>2, <1>3, <1>4, <1>5, <1>6, <1>7, <1>8, <1>9, <1>10, <1>11, <1>12,
     <1>13, <1>14 DEF Next

\* The Manager's variables keep their types: in particular both maps only
\* ever hold connections, and record numbers exist.
THEOREM TypeCorrect == Spec => []TypeOK
<1>1. Init => TypeOK
  BY DEF Init, TypeOK, Mode, Phase, Session, Serve, Handler
<1>2. TypeOK /\ [Next]_vars => TypeOK'
  BY TypeStep
<1> QED
  BY <1>1, <1>2, PTL DEF Spec

-----------------------------------------------------------------------------
(* The mode, its services, its record and its timeout.                     *)

ModeInv == ServiceMatchesMode /\ RecordMatchesMode /\ PairingHasTimeout

\* Every outcome of a transition, failures included, leaves the services, the
\* record and the timeout in agreement with the mode it stored.
LEMMA TransitionModeInv ==
  ASSUME TypeOK, NEW t \in Mode, ~Refuses(t), Transition(t)
  PROVE  ModeInv'
<1> USE DEF ModeInv, ServiceMatchesMode, RecordMatchesMode, PairingHasTimeout,
            Settle, closed
<1>0. phase = "open" /\ phase' = "open"
  BY TransitionRest DEF Refuses
<1>1. CASE ClearRecordFails(t)
  BY <1>0, <1>1 DEF ClearRecordFails
<1>2. CASE EnterDown
  BY <1>0, <1>2 DEF EnterDown
<1>3. CASE EnterRunning \/ RunningFails
  BY <1>0, <1>3 DEF EnterRunning, RunningFails
<1>4. CASE EnterPairing
  <2>1. sessions' \in Nat \ {0}
    BY <1>4 DEF EnterPairing, TypeOK
  <2> QED
    BY <2>1, <1>0, <1>4 DEF EnterPairing
<1>5. CASE PairingFails
  BY <1>0, <1>5 DEF PairingFails
<1> QED
  BY <1>1, <1>2, <1>3, <1>4, <1>5 DEF Transition

\* Every step keeps the mode and what belongs to it in agreement.
LEMMA ModeInvStep ==
  ASSUME TypeOK, ModeInv, [Next]_vars
  PROVE  ModeInv'
<1> USE DEF ModeInv, ServiceMatchesMode, RecordMatchesMode, PairingHasTimeout,
            closed
<1>1. CASE UNCHANGED modeVars
  BY <1>1 DEF modeVars
<1>2. ASSUME NEW t \in Mode, ~Refuses(t), Transition(t)
      PROVE  ModeInv'
  BY <1>2, TransitionModeInv
<1>3. CASE CloseLocked
  BY <1>3 DEF CloseLocked, Settle
<1>4. CASE /\ phase # "open" /\ phase' \in Phase \ {"open"}
           /\ UNCHANGED <<mode, ap, listening, accepting, pairing, file,
                          sessions, timer>>
  BY <1>4 DEF Phase
<1> QED
  BY <1>1, <1>2, <1>3, <1>4, ModeStep

\* Hence they agree in every reachable state.
LEMMA ModeInvariant == Spec => []ModeInv
<1>1. Init => ModeInv
  BY DEF Init, ModeInv, ServiceMatchesMode, RecordMatchesMode,
         PairingHasTimeout, closed
<1>2. TypeOK /\ ModeInv /\ [Next]_vars => ModeInv'
  BY ModeInvStep
<1> QED
  BY <1>1, <1>2, TypeCorrect, PTL DEF Spec

\* Whatever startup step fails, and however timeouts, pairings and
\* administrators interleave, the listener and the network on air are those
\* of the mode SetState stored.
THEOREM ServicesFollowMode == Spec => []ServiceMatchesMode
  BY ModeInvariant, PTL DEF ModeInv

\* No seed of an old pairing window is in memory or on disk while karts drive.
THEOREM RecordFollowsMode == Spec => []RecordMatchesMode
  BY ModeInvariant, PTL DEF ModeInv

\* No pairing window is open without its timeout, and none is armed without
\* its window.
THEOREM WindowHasTimeout == Spec => []PairingHasTimeout
  BY ModeInvariant, PTL DEF ModeInv

\* The three together: what SetState and Close set up and take down agrees
\* with the mode.
THEOREM ModeIsKept == Spec => []ModeAgrees
<1>1. ModeInv => ModeAgrees
  BY DEF ModeInv, ModeAgrees
<1> QED
  BY <1>1, ModeInvariant, PTL

-----------------------------------------------------------------------------
(* Control sessions.  The three properties are not inductive by themselves: *)
(* that a new session cannot meet itself in the map needs the session to be *)
(* unused until its connection's handler has run, and that a live session   *)
(* has channels needs the goroutine to have them before the last re-check.  *)

Running == {"dialing", "dialed", "setup", "live"}

\* A connection has no session before its handler is done.
SessionIsFresh ==
  \A c \in Conn : handler[c] # "done" =>
    /\ session[c] = "none" /\ c \notin cancelled /\ c \notin fuji
    /\ controls[KartOf[c]] # c

\* A map entry is under its own kart, started and not torn down.
EntryIsStarted ==
  \A k \in Kart : controls[k] # NoConn =>
    /\ KartOf[controls[k]] = k
    /\ controls[k] \notin cancelled
    /\ session[controls[k]] # "none"
    /\ ~baseDone => session[controls[k]] \in Running

\* Channels are there from the dial to the teardown.
SetupHasChannels ==
  \A c \in Conn :
    /\ session[c] = "dialed" => c \in fuji
    /\ session[c] = "setup" /\ c \notin cancelled => c \in fuji

SessionInv ==
  /\ SessionIsFresh /\ EntryIsStarted /\ SetupHasChannels
  /\ ControlHasDevice /\ NoOrphanSession

\* Forgetting karts, whichever: the entries that go are the torn-down ones.
LEMMA ForgetSessionInv ==
  ASSUME TypeOK, SessionInv, NEW K \in SUBSET Kart, Forget(K),
         \A c \in Conn : handler'[c] # "done" => handler[c] # "done",
         baseDone => baseDone'
  PROVE  SessionInv'
<1> USE DEF SessionInv, Forget, TearDown, Current, Running, TypeOK, Session
<1>1. SessionIsFresh'
  <2> SUFFICES ASSUME NEW d \in Conn, handler'[d] # "done"
               PROVE  /\ session'[d] = "none" /\ d \notin cancelled'
                      /\ d \notin fuji' /\ controls'[KartOf[d]] # d
    BY DEF SessionIsFresh
  <2>1. /\ session[d] = "none" /\ d \notin cancelled /\ d \notin fuji
        /\ controls[KartOf[d]] # d
    BY DEF SessionIsFresh
  <2>2. \A k \in Kart : controls[k] # d
    BY <2>1 DEF EntryIsStarted
  <2>3. d # NoConn /\ KartOf[d] \in Kart
    OBVIOUS
  <2> QED
    BY <2>1, <2>2, <2>3
<1>2. EntryIsStarted'
  BY DEF EntryIsStarted
<1>3. SetupHasChannels'
  BY DEF SetupHasChannels
<1>4. ControlHasDevice'
  BY DEF ControlHasDevice
<1>5. NoOrphanSession'
  BY DEF NoOrphanSession, EntryIsStarted
<1> QED
  BY <1>1, <1>2, <1>3, <1>4, <1>5

\* A new session: it was unused, and the one it replaces is torn down.
LEMMA OpenSessionInv ==
  ASSUME TypeOK, SessionInv, NEW c \in Conn,
         devices[KartOf[c]] # NoConn,
         handler[c] = "start", handler' = [handler EXCEPT ![c] = "done"],
         OpenSession(c), UNCHANGED phase
  PROVE  SessionInv'
<1> USE DEF SessionInv, OpenSession, Current, Running, TypeOK, Session, baseDone
<1>0. /\ session[c] = "none" /\ c \notin cancelled /\ c \notin fuji
      /\ controls[KartOf[c]] # c
  BY DEF SessionIsFresh
<1>1. SessionIsFresh'
  <2> SUFFICES ASSUME NEW d \in Conn, handler'[d] # "done"
               PROVE  /\ session'[d] = "none" /\ d \notin cancelled'
                      /\ d \notin fuji' /\ controls'[KartOf[d]] # d
    BY DEF SessionIsFresh
  <2>1. d # c /\ handler[d] # "done"
    OBVIOUS
  <2>2. /\ session[d] = "none" /\ d \notin cancelled /\ d \notin fuji
        /\ controls[KartOf[d]] # d
    BY <2>1 DEF SessionIsFresh
  <2>3. controls[KartOf[c]] # d
    BY <2>2 DEF EntryIsStarted
  <2> QED
    BY <2>1, <2>2, <2>3
<1>2. EntryIsStarted'
  BY <1>0 DEF EntryIsStarted
<1>3. SetupHasChannels'
  BY <1>0 DEF SetupHasChannels
<1>4. ControlHasDevice'
  BY <1>0 DEF ControlHasDevice
<1>5. NoOrphanSession'
  BY <1>0 DEF NoOrphanSession, EntryIsStarted
<1> QED
  BY <1>1, <1>2, <1>3, <1>4, <1>5

\* Steps that leave the maps and the sessions alone.
LEMMA IdleSessionInv ==
  ASSUME TypeOK, SessionInv, UNCHANGED kartVars,
         \A c \in Conn : handler'[c] # "done" => handler[c] # "done",
         baseDone => baseDone'
  PROVE  SessionInv'
  BY DEF SessionInv, SessionIsFresh, EntryIsStarted, SetupHasChannels,
         ControlHasDevice, NoOrphanSession, kartVars

\* The steps of the session goroutine itself.
LEMMA GoroutineSessionInv ==
  ASSUME TypeOK, SessionInv, NEW c \in Conn,
         \/ DialSucceeds(c) \/ DialFails(c)
         \/ AttachSession(c) \/ EstablishSession(c)
  PROVE  SessionInv'
<1> USE DEF SessionInv, Running, TypeOK, Session, modeVars, baseDone
<1>1. CASE DialSucceeds(c)
  BY <1>1 DEF DialSucceeds, SessionIsFresh, EntryIsStarted, SetupHasChannels,
              ControlHasDevice, NoOrphanSession
<1>2. CASE DialFails(c)
  BY <1>2 DEF DialFails, SessionIsFresh, EntryIsStarted, SetupHasChannels,
              ControlHasDevice, NoOrphanSession
<1>3. CASE AttachSession(c)
  BY <1>3 DEF AttachSession, Stale, SessionIsFresh, EntryIsStarted,
              SetupHasChannels, ControlHasDevice, NoOrphanSession
<1>4. CASE EstablishSession(c)
  BY <1>4 DEF EstablishSession, Stale, SessionIsFresh, EntryIsStarted,
              SetupHasChannels, ControlHasDevice, NoOrphanSession
<1> QED
  BY <1>1, <1>2, <1>3, <1>4

\* DeviceConnected is not called before the handshake is done.
NoHandlerYet ==
  \A c \in Conn : serve[c] \in {"new", "handshake"} => handler[c] = "none"

\* A connection that was not finalized has no handler, in every reachable state.
LEMMA NoHandlerYetInvariant == Spec => []NoHandlerYet
<1>1. Init => NoHandlerYet
  BY DEF Init, NoHandlerYet
<1>2. ASSUME TypeOK, NoHandlerYet, [Next]_vars
      PROVE  NoHandlerYet'
  <2>1. CASE UNCHANGED <<serve, handler>>
    BY <1>2, <2>1 DEF NoHandlerYet
  <2>2. ASSUME NEW c \in Conn,
               \/ Accept(c) \/ Finalize(c) \/ ServeReturns(c)
               \/ DeviceDisconnected(c) \/ DisconnectSignals(c)
        PROVE  NoHandlerYet'
    <3>1. /\ serve[c] = "new" \/ serve'[c] \notin {"new", "handshake"}
          /\ handler' = handler \/ serve'[c] = "established"
      BY <1>2, <2>2 DEF Accept, Finalize, ServeReturns, DeviceDisconnected,
         DisconnectSignals, TypeOK
    <3>2. \A d \in Conn \ {c} : serve'[d] = serve[d] /\ handler'[d] = handler[d]
      BY <1>2, <2>2 DEF Accept, Finalize, ServeReturns, DeviceDisconnected,
         DisconnectSignals, TypeOK
    <3> QED
      BY <1>2, <3>1, <3>2 DEF NoHandlerYet
  <2>3. ASSUME NEW c \in Conn,
               \/ DeviceConnected(c) \/ RejectDevice(c)
               \/ RegisterDevice(c) \/ StartControlSession(c)
               \/ PairFails(c) \/ PairSucceeds(c) \/ PairReturns(c)
        PROVE  NoHandlerYet'
    <3>1. handler[c] # "none" /\ (UNCHANGED serve \/ CloseDevice(c))
      BY <2>3 DEF DeviceConnected, RejectDevice, RegisterDevice,
         StartControlSession, PairFails, PairSucceeds, PairReturns
    <3>2. \A d \in Conn \ {c} : handler'[d] = handler[d]
      BY <1>2, <2>3 DEF DeviceConnected, RejectDevice, RegisterDevice,
         StartControlSession, PairFails, PairSucceeds, PairReturns, TypeOK
    <3>3. serve'[c] \notin {"new", "handshake"}
      BY <1>2, <3>1 DEF NoHandlerYet, CloseDevice, TypeOK
    <3>4. \A d \in Conn \ {c} : serve'[d] = serve[d]
      BY <1>2, <3>1 DEF CloseDevice, TypeOK
    <3> QED
      BY <1>2, <3>2, <3>3, <3>4 DEF NoHandlerYet
  <2>4. CASE ~UNCHANGED <<serve, handler>>
    <3>1. \E c \in Conn :
            \/ Accept(c) \/ Finalize(c) \/ ServeReturns(c)
            \/ DeviceDisconnected(c) \/ DisconnectSignals(c)
            \/ DeviceConnected(c) \/ RejectDevice(c)
            \/ RegisterDevice(c) \/ StartControlSession(c)
            \/ PairFails(c) \/ PairSucceeds(c) \/ PairReturns(c)
      BY <1>2, <2>4 DEF Next, vars, RequestState, TimeoutFires, TimeoutReturns,
           DialSucceeds, DialFails, AttachSession, EstablishSession,
           SendShutdown, ShutdownFails, ShutdownReturns, CheckDevices, GiveUp,
           CloseLocked, CancelBase, CloseReturns
    <3> QED
      BY <3>1, <2>2, <2>3
  <2> QED
    BY <2>1, <2>4
<1> QED
  BY <1>1, <1>2, TypeCorrect, PTL DEF Spec

\* Every step keeps the session invariant.
LEMMA SessionInvStep ==
  ASSUME TypeOK, NoHandlerYet, SessionInv, [Next]_vars
  PROVE  SessionInv'
<1> USE DEF modeVars, baseDone
<1>1. CASE UNCHANGED vars
  BY <1>1, IdleSessionInv DEF vars
<1>2. ASSUME NEW t \in Mode, RequestState(t)
      PROVE  SessionInv'
  BY <1>2, TransitionRest, ForgetSessionInv DEF RequestState
<1>3. CASE TimeoutFires
  BY <1>3, IdleSessionInv DEF TimeoutFires
<1>4. ASSUME NEW p \in Pairing, TimeoutReturns(p)
      PROVE  SessionInv'
  <2>1. \/ Forget(Kart) /\ UNCHANGED phase
        \/ UNCHANGED <<kartVars, phase>>
    BY <1>4, TransitionRest DEF TimeoutReturns, SetState, Mode
  <2> QED
    BY <2>1, <1>4, ForgetSessionInv, IdleSessionInv DEF TimeoutReturns
<1>5. ASSUME NEW c \in Conn, PairReturns(c)
      PROVE  SessionInv'
  <2>1. \/ Forget(Kart) /\ UNCHANGED phase
        \/ UNCHANGED <<kartVars, phase>>
    BY <1>5, TransitionRest DEF PairReturns, SetState, Mode
  <2>2. \A d \in Conn : handler'[d] # "done" => handler[d] # "done"
    BY <1>5 DEF PairReturns, TypeOK
  <2> QED
    BY <2>1, <2>2, ForgetSessionInv, IdleSessionInv
<1>6. ASSUME NEW c \in Conn,
             \/ Accept(c) \/ Finalize(c) \/ ServeReturns(c)
             \/ DisconnectSignals(c) \/ DeviceConnected(c) \/ RejectDevice(c)
             \/ PairFails(c) \/ PairSucceeds(c)
      PROVE  SessionInv'
  <2>1. UNCHANGED <<kartVars, phase>>
    BY <1>6 DEF Accept, Finalize, ServeReturns, DisconnectSignals,
         DeviceConnected, RejectDevice, PairFails, PairSucceeds
  <2>2. CASE ~Finalize(c)
    <3>1. \A d \in Conn : handler'[d] # "done" => handler[d] # "done"
      BY <1>6, <2>2 DEF Accept, ServeReturns, DisconnectSignals,
           DeviceConnected, RejectDevice, PairFails, PairSucceeds, TypeOK
    <3> QED
      BY <2>1, <3>1, IdleSessionInv
  <2>3. CASE Finalize(c)
    <3>1. \A d \in Conn : handler'[d] # "done" => handler[d] # "done"
      BY <2>3 DEF Finalize, TypeOK, NoHandlerYet
    <3> QED
      BY <2>1, <3>1, IdleSessionInv
  <2> QED
    BY <2>2, <2>3
<1>7. ASSUME NEW c \in Conn, DeviceDisconnected(c)
      PROVE  SessionInv'
  BY <1>7, ForgetSessionInv DEF DeviceDisconnected
<1>8. ASSUME NEW c \in Conn, RegisterDevice(c)
      PROVE  SessionInv'
  BY <1>8 DEF RegisterDevice, SessionInv, SessionIsFresh, EntryIsStarted,
       SetupHasChannels, ControlHasDevice, NoOrphanSession, TypeOK
<1>9. ASSUME NEW c \in Conn, StartControlSession(c)
      PROVE  SessionInv'
  <2>1. CASE devices[KartOf[c]] # NoConn
    BY <1>9, <2>1, OpenSessionInv DEF StartControlSession
  <2>2. CASE devices[KartOf[c]] = NoConn
    BY <1>9, <2>2, IdleSessionInv DEF StartControlSession, TypeOK
  <2> QED
    BY <2>1, <2>2
<1>10. ASSUME NEW c \in Conn,
              \/ DialSucceeds(c) \/ DialFails(c)
              \/ AttachSession(c) \/ EstablishSession(c)
       PROVE  SessionInv'
  BY <1>10, GoroutineSessionInv
<1>11. ASSUME NEW k \in Kart, SendShutdown(k) \/ ShutdownFails(k)
       PROVE  SessionInv'
  BY <1>11, IdleSessionInv DEF SendShutdown, ShutdownFails
<1>12. ASSUME NEW k \in Kart, ShutdownReturns(k)
       PROVE  SessionInv'
  BY <1>12, ForgetSessionInv DEF ShutdownReturns
<1>13. ASSUME NEW w \in Waiter, CheckDevices(w) \/ GiveUp(w)
       PROVE  SessionInv'
  BY <1>13, IdleSessionInv DEF CheckDevices, GiveUp
<1>14. CASE CloseLocked
  BY <1>14, ForgetSessionInv DEF CloseLocked
<1>15. CASE CancelBase \/ CloseReturns
  BY <1>15, IdleSessionInv DEF CancelBase, CloseReturns
<1> QED
  BY <1>1, <1>2, <1>3, <1>4, <1>5, <1>6, <1>7, <1>8, <1>9, <1>10, <1>11, <1>12,
     <1>13, <1>14, <1>15 DEF Next

\* Hence it holds in every reachable state.
LEMMA SessionInvariant == Spec => []SessionInv
<1>1. Init => SessionInv
  BY DEF Init, SessionInv, SessionIsFresh, EntryIsStarted, SetupHasChannels,
         ControlHasDevice, NoOrphanSession
<1>2. TypeOK /\ NoHandlerYet /\ SessionInv /\ [Next]_vars => SessionInv'
  BY SessionInvStep
<1> QED
  BY <1>1, <1>2, TypeCorrect, NoHandlerYetInvariant, PTL DEF Spec

\* No Fuji channel is ever left open without an owner that will close it.
THEOREM ChannelsHaveOwner == Spec => []NoOrphanSession
  BY SessionInvariant, PTL DEF SessionInv

\* Every control session can be reached through a device record.
THEOREM SessionsAreReachable == Spec => []ControlHasDevice
  BY SessionInvariant, PTL DEF SessionInv

\* Until shutdown, the control map names running sessions of the right kart.
THEOREM EntriesRun == Spec => []ControlIsRunning
<1>1. SessionInv => ControlIsRunning
  BY DEF SessionInv, EntryIsStarted, ControlIsRunning, Running
<1> QED
  BY <1>1, SessionInvariant, PTL

\* The three together: records, sessions and channels agree, whichever
\* disconnect or mode change overtakes a setup.
THEOREM SessionsAreKept == Spec => []SessionsAgree
<1>1. ControlHasDevice /\ NoOrphanSession /\ ControlIsRunning => SessionsAgree
  BY DEF SessionsAgree
<1> QED
  BY <1>1, ChannelsHaveOwner, SessionsAreReachable, EntriesRun, PTL

-----------------------------------------------------------------------------
(* Wakeups.                                                                *)

\* Callers stay asleep only while no record appears and the manager stays
\* open: whatever adds a record, and Close, signals in the same section.
LEMMA WakeupStep ==
  ASSUME TypeOK, NoMissedWakeup, [Next]_vars
  PROVE  NoMissedWakeup'
<1> USE DEF NoMissedWakeup, Matches, closed, TypeOK, modeVars, kartVars
<1>w. ASSUME Signal
      PROVE  \A w \in Waiter : waiter'[w] # "blocked"
  BY <1>w DEF Signal
<1>f. ASSUME NEW K \in SUBSET Kart, Forget(K), UNCHANGED phase,
             Signal \/ UNCHANGED waiter
      PROVE  NoMissedWakeup'
  BY <1>f, <1>w DEF Forget
<1>u. ASSUME UNCHANGED <<devices, phase, waiter>>
      PROVE  NoMissedWakeup'
  BY <1>u
<1>s. ASSUME Signal
      PROVE  NoMissedWakeup'
  BY <1>w, <1>s
<1>1. CASE UNCHANGED vars
  BY <1>1, <1>u DEF vars
<1>2. ASSUME NEW t \in Mode, RequestState(t)
      PROVE  NoMissedWakeup'
  BY <1>2, <1>f, TransitionRest DEF RequestState
<1>3. ASSUME NEW p \in Pairing, TimeoutReturns(p)
      PROVE  NoMissedWakeup'
  BY <1>3, <1>f, <1>u, TransitionRest DEF TimeoutReturns, SetState, Mode
<1>4. ASSUME NEW c \in Conn, PairReturns(c)
      PROVE  NoMissedWakeup'
  BY <1>4, <1>f, <1>u, TransitionRest DEF PairReturns, SetState, Mode
<1>5. ASSUME NEW c \in Conn,
             \/ Accept(c) \/ Finalize(c) \/ ServeReturns(c)
             \/ DeviceConnected(c) \/ RejectDevice(c) \/ StartControlSession(c)
             \/ PairFails(c) \/ PairSucceeds(c)
             \/ DialSucceeds(c) \/ DialFails(c) \/ AttachSession(c)
      PROVE  NoMissedWakeup'
  BY <1>5, <1>u DEF Accept, Finalize, ServeReturns, DeviceConnected,
       RejectDevice, StartControlSession, OpenSession, PairFails, PairSucceeds,
       DialSucceeds, DialFails, AttachSession
<1>6. ASSUME NEW c \in Conn, DisconnectSignals(c) \/ RegisterDevice(c)
      PROVE  NoMissedWakeup'
  BY <1>6, <1>s DEF DisconnectSignals, RegisterDevice
<1>7. ASSUME NEW c \in Conn, EstablishSession(c)
      PROVE  NoMissedWakeup'
  BY <1>7, <1>s, <1>u DEF EstablishSession
<1>8. ASSUME NEW c \in Conn, DeviceDisconnected(c)
      PROVE  NoMissedWakeup'
  BY <1>8, <1>f DEF DeviceDisconnected
<1>9. ASSUME NEW k \in Kart, SendShutdown(k) \/ ShutdownFails(k)
      PROVE  NoMissedWakeup'
  BY <1>9, <1>u DEF SendShutdown, ShutdownFails
<1>10. ASSUME NEW k \in Kart, ShutdownReturns(k)
       PROVE  NoMissedWakeup'
  BY <1>10, <1>s DEF ShutdownReturns
<1>11. ASSUME NEW w \in Waiter, CheckDevices(w) \/ GiveUp(w)
       PROVE  NoMissedWakeup'
  BY <1>11 DEF CheckDevices, GiveUp
<1>12. CASE CloseLocked
  BY <1>12, <1>s DEF CloseLocked
<1>13. CASE TimeoutFires
  BY <1>13, <1>u DEF TimeoutFires
<1>14. CASE CancelBase \/ CloseReturns
  BY <1>14 DEF CancelBase, CloseReturns
<1> QED
  BY <1>1, <1>2, <1>3, <1>4, <1>5, <1>6, <1>7, <1>8, <1>9, <1>10, <1>11, <1>12,
     <1>13, <1>14 DEF Next

\* WaitForDevice never sleeps through the kart it waits for, nor through Close.
THEOREM WakeupsAreSeen == Spec => []NoMissedWakeup
<1>1. Init => NoMissedWakeup
  BY DEF Init, NoMissedWakeup
<1>2. TypeOK /\ NoMissedWakeup /\ [Next]_vars => NoMissedWakeup'
  BY WakeupStep
<1> QED
  BY <1>1, <1>2, TypeCorrect, PTL DEF Spec

-----------------------------------------------------------------------------
(* What the Manager takes its connections to be.                            *)

stages == [c \in Conn |-> StageOf(serve[c])]
arrivals == [c \in Conn |-> ArrivalOf(handler[c])]
departures == {c \in Conn : /\ serve[c] \in {"signalling", "gone"}
                            /\ handler[c] # "none"}

\* An established connection has its handler.
HandlerStarted ==
  \A c \in Conn : serve[c] \in {"established", "closing", "signalling"}
    => handler[c] # "none"

\* The steps of one connection: of its server, or of its handler, which may
\* close the device as it goes.
ServeStep(c) == Accept(c) \/ Finalize(c) \/ ServeReturns(c)
                  \/ DeviceDisconnected(c) \/ DisconnectSignals(c)
HandlerStep(c) == DeviceConnected(c) \/ RejectDevice(c) \/ RegisterDevice(c)
                    \/ StartControlSession(c) \/ PairFails(c)
                    \/ PairSucceeds(c) \/ PairReturns(c)

\* What they do to the two goroutines.
LEMMA ServeMoves ==
  ASSUME TypeOK, NEW c \in Conn, ServeStep(c)
  PROVE  \/ /\ handler' = handler
            /\ \/ serve[c] = "new" /\ serve' = [serve EXCEPT ![c] = "handshake"]
               \/ serve[c] = "handshake" /\ serve' = [serve EXCEPT ![c] = "gone"]
               \/ /\ serve[c] = "established"
                  /\ serve' = [serve EXCEPT ![c] = "closing"]
               \/ /\ serve[c] = "closing"
                  /\ serve' = [serve EXCEPT ![c] = "signalling"]
               \/ serve[c] = "signalling" /\ serve' = [serve EXCEPT ![c] = "gone"]
         \/ /\ serve[c] = "handshake"
            /\ serve' = [serve EXCEPT ![c] = "established"]
            /\ handler' = [handler EXCEPT ![c] = "spawned"]
BY DEF ServeStep, Accept, Finalize, ServeReturns, DeviceDisconnected,
       DisconnectSignals

LEMMA HandlerMoves ==
  ASSUME TypeOK, NEW c \in Conn, HandlerStep(c)
  PROVE  /\ handler[c] # "none"
         /\ \E h \in Handler \ {"none", "spawned"} :
              handler' = [handler EXCEPT ![c] = h]
         /\ \/ serve' = serve
            \/ /\ serve[c] = "established"
               /\ serve' = [serve EXCEPT ![c] = "closing"]
<1>1. \/ serve' = serve
      \/ /\ serve[c] = "established"
         /\ serve' = [serve EXCEPT ![c] = "closing"]
  <2>1. UNCHANGED serve \/ CloseDevice(c)
    BY DEF HandlerStep, DeviceConnected, RejectDevice, RegisterDevice,
           StartControlSession, PairFails, PairSucceeds, PairReturns
  <2>2. ASSUME CloseDevice(c), serve[c] # "established"
        PROVE  serve' = serve
    BY <2>2 DEF CloseDevice, TypeOK
  <2> QED
    BY <2>1, <2>2 DEF CloseDevice
<1> QED
  BY <1>1 DEF HandlerStep, DeviceConnected, RejectDevice, RegisterDevice,
              StartControlSession, PairFails, PairSucceeds, PairReturns, Handler

\* Every other step leaves both alone.
LEMMA ConnectionStep ==
  ASSUME [Next]_vars
  PROVE  \/ UNCHANGED <<serve, handler>>
         \/ \E c \in Conn : ServeStep(c) \/ HandlerStep(c)
BY DEF Next, vars, RequestState, TimeoutFires, TimeoutReturns, DialSucceeds,
       DialFails, AttachSession, EstablishSession, SendShutdown, ShutdownFails,
       ShutdownReturns, CheckDevices, GiveUp, CloseLocked, CancelBase,
       CloseReturns, ServeStep, HandlerStep

LEMMA HandlerStartedStep ==
  ASSUME TypeOK, HandlerStarted, [Next]_vars
  PROVE  HandlerStarted'
<1>1. CASE UNCHANGED <<serve, handler>>
  BY <1>1 DEF HandlerStarted
<1>2. ASSUME NEW c \in Conn, ServeStep(c)
      PROVE  HandlerStarted'
  BY <1>2, ServeMoves DEF HandlerStarted, TypeOK
<1>3. ASSUME NEW c \in Conn, HandlerStep(c)
      PROVE  HandlerStarted'
  BY <1>3, HandlerMoves DEF HandlerStarted, TypeOK
<1> QED
  BY <1>1, <1>2, <1>3, ConnectionStep

\* Each of these moves is a step of ConnLife, or none.
LEMMA LifeStep ==
  ASSUME TypeOK, NoHandlerYet, HandlerStarted, [Next]_vars
  PROVE  [Life!Next]_(Life!vars)
<1>1. ASSUME stages' = stages, arrivals' = arrivals, departures' = departures
      PROVE  [Life!Next]_(Life!vars)
  BY <1>1 DEF Life!vars, stages, arrivals, departures
<1>2. CASE UNCHANGED <<serve, handler>>
  BY <1>1, <1>2 DEF stages, arrivals, departures
<1>3. ASSUME NEW c \in Conn, ServeStep(c)
      PROVE  [Life!Next]_(Life!vars)
  <2>1. CASE serve[c] = "new" /\ serve' = [serve EXCEPT ![c] = "handshake"]
             /\ handler' = handler
    <3>1. /\ stages[c] = "new" /\ stages' = [stages EXCEPT ![c] = "open"]
          /\ arrivals' = arrivals /\ departures' = departures
      BY <2>1 DEF stages, arrivals, departures, StageOf, TypeOK
    <3>2. Life!Open(c)
      BY <3>1 DEF Life!Open, stages, arrivals, departures
    <3> QED
      BY <3>2 DEF Life!Next
  <2>2. CASE serve[c] = "handshake" /\ serve' = [serve EXCEPT ![c] = "gone"]
             /\ handler' = handler
    <3>1. /\ stages[c] = "open" /\ stages' = [stages EXCEPT ![c] = "down"]
          /\ arrivals' = arrivals
      BY <2>2 DEF stages, arrivals, StageOf, TypeOK
    <3>2. departures' = departures
      BY <2>2 DEF departures, NoHandlerYet, TypeOK
    <3>3. Life!Fail(c)
      BY <3>1, <3>2 DEF Life!Fail, stages, arrivals, departures
    <3> QED
      BY <3>3 DEF Life!Next
  <2>3. CASE /\ handler' = handler
             /\ \/ /\ serve[c] = "established"
                   /\ serve' = [serve EXCEPT ![c] = "closing"]
                \/ /\ serve[c] = "signalling"
                   /\ serve' = [serve EXCEPT ![c] = "gone"]
    <3>1. stages' = stages /\ arrivals' = arrivals
      BY <2>3 DEF stages, arrivals, StageOf, TypeOK
    <3>2. departures' = departures
      BY <2>3 DEF departures, TypeOK
    <3> QED
      BY <1>1, <3>1, <3>2
  <2>4. CASE serve[c] = "closing" /\ serve' = [serve EXCEPT ![c] = "signalling"]
             /\ handler' = handler
    <3>1. /\ stages[c] = "up" /\ stages' = [stages EXCEPT ![c] = "down"]
          /\ arrivals' = arrivals
      BY <2>4 DEF stages, arrivals, StageOf, TypeOK
    <3>2. departures' = departures \cup {c}
      BY <2>4 DEF departures, HandlerStarted, TypeOK
    <3>3. Life!Depart(c)
      BY <3>1, <3>2 DEF Life!Depart, stages, arrivals, departures
    <3> QED
      BY <3>3 DEF Life!Next
  <2>5. CASE /\ serve[c] = "handshake"
             /\ serve' = [serve EXCEPT ![c] = "established"]
             /\ handler' = [handler EXCEPT ![c] = "spawned"]
    <3>1. /\ stages[c] = "open" /\ stages' = [stages EXCEPT ![c] = "up"]
          /\ arrivals' = [arrivals EXCEPT ![c] = "due"]
      BY <2>5 DEF stages, arrivals, StageOf, ArrivalOf, TypeOK
    <3>2. departures' = departures
      BY <2>5 DEF departures, TypeOK
    <3>3. Life!Establish(c)
      BY <3>1, <3>2 DEF Life!Establish, stages, arrivals, departures
    <3> QED
      BY <3>3 DEF Life!Next
  <2> QED
    BY <1>3, <2>1, <2>2, <2>3, <2>4, <2>5, ServeMoves
<1>4. ASSUME NEW c \in Conn, HandlerStep(c)
      PROVE  [Life!Next]_(Life!vars)
  <2>1. PICK h \in Handler \ {"none", "spawned"} :
          handler' = [handler EXCEPT ![c] = h]
    BY <1>4, HandlerMoves
  <2>2. /\ handler[c] # "none"
        /\ \/ serve' = serve
           \/ /\ serve[c] = "established"
              /\ serve' = [serve EXCEPT ![c] = "closing"]
    BY <1>4, HandlerMoves
  <2>3. stages' = stages
    BY <2>2 DEF stages, StageOf, TypeOK
  <2>4. departures' = departures
    BY <2>1, <2>2 DEF departures, TypeOK
  <2>5. arrivals' = [arrivals EXCEPT ![c] = "told"]
    BY <2>1 DEF arrivals, ArrivalOf, TypeOK
  <2>6. CASE handler[c] = "spawned"
    <3>1. arrivals[c] = "due"
      BY <2>6 DEF arrivals, ArrivalOf
    <3>2. Life!Announce(c)
      BY <2>3, <2>4, <2>5, <3>1 DEF Life!Announce, stages, arrivals, departures
    <3> QED
      BY <3>2 DEF Life!Next
  <2>7. CASE handler[c] # "spawned"
    <3>1. arrivals[c] = "told"
      BY <2>2, <2>7 DEF arrivals, ArrivalOf
    <3>2. arrivals' = arrivals
      BY <2>5, <3>1 DEF arrivals
    <3> QED
      BY <1>1, <2>3, <2>4, <3>2
  <2> QED
    BY <2>6, <2>7
<1> QED
  BY <1>2, <1>3, <1>4, ConnectionStep

\* The connections of the Manager are those of ConnLife.
THEOREM ConnectionsLive == Spec => LifeSpec
<1>1. Init => Life!Init /\ HandlerStarted
  BY DEF Init, Life!Init, HandlerStarted, StageOf, ArrivalOf
<1>2. TypeOK /\ HandlerStarted /\ [Next]_vars => HandlerStarted'
  BY HandlerStartedStep
<1>3. TypeOK /\ NoHandlerYet /\ HandlerStarted /\ [Next]_vars
      => [Life!Next]_(Life!vars)
  BY LifeStep
<1> QED
  BY <1>1, <1>2, <1>3, TypeCorrect, NoHandlerYetInvariant, PTL
     DEF Spec, LifeSpec, Life!Spec

=============================================================================
