---------------------------- MODULE DriveSession ----------------------------
(***************************************************************************)
(* One control session of internal/daemon (a deviceControl) from the       *)
(* moment its Fuji channels are attached to its teardown: the setup        *)
(* goroutine of startControlSession, the callers of SetDriveMode and       *)
(* SetDrive, the telemetry reader, the teardown, and the 30 Hz UDP sender  *)
(* of internal/fuji (DriveSender).                                         *)
(*                                                                         *)
(* Three mutexes order these processes: Manager.mu, deviceControl.mu and   *)
(* the sender's writeMu.  The first two are variables that name a holder   *)
(* when it keeps the lock across several steps; writing is the third.      *)
(* Manager.mu is taken before deviceControl.mu, never after it.            *)
(***************************************************************************)
EXTENDS Naturals

CONSTANTS
  Client,    \* concurrent SetDriveMode and SetDrive calls
  Axes,      \* steering and throttle commands
  Neutral,   \* the command that neither steers nor drives
  Nobody     \* a free lock, the absence of a packet

ASSUME DriveAssumption ==
  /\ Neutral \in Axes
  /\ Nobody \notin Client \cup Axes
  /\ {"setup", "teardown", "loop"} \cap Client = {}
  /\ Nobody \notin {"setup", "teardown", "loop"}

VARIABLES
  mmu,         \* who holds Manager.mu across steps
  dmu,         \* who holds deviceControl.mu across steps
  tracked,     \* m.controls still maps the kart to this session
  cancelled,   \* the session's context is cancelled
  down,        \* how far the teardown has come
  record,      \* the kart has a device record
  recordArmed, \* its armed field
  setup,       \* program counter of the setup goroutine
  granted,     \* its local driveMode
  conn,        \* the Fuji channels are open
  media,       \* the media ports are reserved
  controlSet,  \* dc.controlSet
  driveMode,   \* dc.driveMode
  lastAxes,    \* dc.lastAxes
  published,   \* dc.drive is not nil
  sender,      \* life of the DriveSender
  armed,       \* sender.armed
  axes,        \* sender.axes
  writing,     \* the packet being written under writeMu
  healthy,     \* a packet was written and the last write succeeded
  wire,        \* the command in the last packet sent
  sent,        \* SetDrive calls whose command, or a newer one, was sent
  kart,        \* the state the kart was last put in: 1 drive, 0 sleep
  call         \* the calls in progress

lockVars   == <<mmu, dmu>>
recordVars == <<tracked, cancelled, down, record, recordArmed>>
setupVars  == <<setup, granted, conn, media>>
driveVars  == <<controlSet, driveMode, lastAxes, published>>
sendVars   == <<sender, armed, axes>>
packetVars == <<writing, healthy, wire, sent>>
vars == <<lockVars, recordVars, setupVars, driveVars, sendVars, packetVars,
          kart, call>>

Holder == Client \cup {"setup", "teardown", Nobody}
Setup  == {"attached", "info", "state", "granted", "sender", "arming", "check",
           "publishing", "recording", "live", "closing", "over"}
Down   == {"no", "begun", "disarmed", "released", "asleep", "awake", "closed"}
Step   == {"idle", "mode", "neutral", "muted", "state", "arming", "answered",
           "publish", "drive", "axes", "report"}
Packet == [by : Client \cup {"loop", "setup"}, axes : Axes,
           carries : SUBSET Client]

Idle == [step |-> "idle", on |-> FALSE, axes |-> Neutral]
At(c, s) == call' = [call EXCEPT ![c].step = s]
Returns(c) == call' = [call EXCEPT ![c] = Idle]

Places ==
  /\ mmu \in {"setup", "teardown", Nobody} /\ dmu \in Holder
  /\ setup \in Setup /\ down \in Down
  /\ sender \in {"none", "open", "stopping", "closed"}
  /\ kart \in {0, 1}

Flags ==
  /\ tracked \in BOOLEAN /\ cancelled \in BOOLEAN
  /\ record \in BOOLEAN /\ recordArmed \in BOOLEAN
  /\ granted \in BOOLEAN /\ conn \in BOOLEAN /\ media \in BOOLEAN
  /\ controlSet \in BOOLEAN /\ driveMode \in BOOLEAN /\ published \in BOOLEAN
  /\ armed \in BOOLEAN /\ healthy \in BOOLEAN

Commands ==
  /\ lastAxes \in Axes /\ axes \in Axes
  /\ writing \in Packet \cup {Nobody}
  /\ wire \in Axes \cup {Nobody}
  /\ sent \subseteq Client
  /\ call \in [Client -> [step : Step, on : BOOLEAN, axes : Axes]]

TypeOK == Places /\ Flags /\ Commands

Init ==
  /\ mmu = Nobody /\ dmu = Nobody
  /\ tracked = TRUE /\ cancelled = FALSE /\ down = "no"
  /\ record = TRUE /\ recordArmed = FALSE
  /\ setup = "attached" /\ granted = FALSE /\ conn = TRUE /\ media = FALSE
  /\ controlSet = FALSE /\ driveMode = FALSE
  /\ lastAxes = Neutral /\ published = FALSE
  /\ sender = "none" /\ armed = FALSE /\ axes = Neutral
  /\ writing = Nobody /\ healthy = FALSE /\ wire = Nobody /\ sent = {}
  /\ kart = 0
  /\ call = [c \in Client |-> Idle]

\* A kart call with state s: only an open channel can be answered; a failed
\* call may or may not have reached the kart.
KartAccepts(s) == conn /\ kart' = s
KartFails(s)   == kart' = kart \/ (conn /\ kart' = s)

-----------------------------------------------------------------------------
(* DriveSender.writeLatest: whoever calls it waits for writeMu, reads armed *)
(* and axes under the sender's own mutex, and writes outside that one.     *)
(* SetAxes and Arm(true) call it when the sender is armed; it stays armed  *)
(* while they do, since whoever disarms it holds deviceControl.mu.         *)

Writers == Client \cup {"loop", "setup"}

WantsToWrite(p) ==
  \/ p = "loop"  /\ sender \in {"open", "stopping"}
  \/ p = "setup" /\ setup \in {"arming", "publishing"}
  \/ p \in Client /\ call[p].step \in {"neutral", "arming", "axes"}

\* The SetDrive calls whose command the sender already holds.
Stored == {c \in Client : call[c].step \in {"axes", "report"}}

StartWrite(p) ==
  /\ WantsToWrite(p)
  /\ armed
  /\ writing = Nobody
  /\ writing' = [by |-> p, axes |-> axes, carries |-> Stored]
  /\ UNCHANGED <<lockVars, recordVars, setupVars, driveVars, sendVars, healthy,
                 wire, sent, kart, call>>

\* Where the caller of writeLatest goes on.
Continue(p) ==
  \/ p = "loop" /\ UNCHANGED <<dmu, setup, call>>
  \/ /\ p = "setup" /\ setup = "arming"
     /\ setup' = "check"
     /\ UNCHANGED <<dmu, call>>
  \/ /\ p = "setup" /\ setup = "publishing"
     /\ setup' = "recording" /\ dmu' = Nobody
     /\ UNCHANGED call
  \/ /\ p \in Client /\ call[p].step = "neutral"
     /\ At(p, "muted")
     /\ UNCHANGED <<dmu, setup>>
  \/ /\ p \in Client /\ call[p].step = "arming"
     /\ At(p, "answered")
     /\ UNCHANGED <<dmu, setup>>
  \/ /\ p \in Client /\ call[p].step = "axes"
     /\ At(p, "report") /\ dmu' = Nobody
     /\ UNCHANGED setup

\* Mutant: the error of a failed write is not kept.
EndWriteForgetsError(p) ==
  /\ writing # Nobody /\ writing.by = p
  /\ \/ /\ healthy' = TRUE /\ wire' = writing.axes
        /\ sent' = sent \cup writing.carries
     \/ UNCHANGED <<healthy, wire, sent>>
  /\ writing' = Nobody
  /\ Continue(p)
  /\ UNCHANGED <<mmu, recordVars, granted, conn, media, driveVars, sendVars,
                 kart>>

EndWrite(p) ==
  /\ writing # Nobody /\ writing.by = p
  /\ \/ /\ healthy' = TRUE /\ wire' = writing.axes
        /\ sent' = sent \cup writing.carries
     \/ healthy' = FALSE /\ UNCHANGED <<wire, sent>>
  /\ writing' = Nobody
  /\ Continue(p)
  /\ UNCHANGED <<mmu, recordVars, granted, conn, media, driveVars, sendVars,
                 kart>>

-----------------------------------------------------------------------------
(* The setup goroutine of startControlSession, from dc.conn = conn on.     *)

\* Media ports: opened and handed to the session, unless that was cancelled.
OpenMedia ==
  /\ setup = "attached" /\ dmu = Nobody
  /\ \/ setup' = "sender" /\ UNCHANGED media
     \/ ~cancelled /\ setup' = "info" /\ media' = TRUE
  /\ UNCHANGED <<lockVars, recordVars, granted, conn, driveVars, sendVars,
                 packetVars, kart, call>>

\* connection_info; a failure gives the ports back, unless the teardown has
\* them by now.
ConnectionInfoSet ==
  /\ setup = "info" /\ conn /\ dmu = Nobody
  /\ setup' = "state" /\ controlSet' = TRUE
  /\ UNCHANGED <<lockVars, recordVars, granted, conn, media, driveMode,
                 lastAxes, published, sendVars, packetVars, kart, call>>

ConnectionInfoFails ==
  /\ setup = "info" /\ dmu = Nobody
  /\ setup' = "sender" /\ media' = (media /\ down = "released")
  /\ UNCHANGED <<lockVars, recordVars, granted, conn, driveVars, sendVars,
                 packetVars, kart, call>>

\* SetState(1), outside deviceControl.mu, and then driveMode under it.
RequestDrive ==
  /\ setup = "state"
  /\ \/ KartAccepts(1) /\ setup' = "granted"
     \/ KartFails(1)   /\ setup' = "sender"
  /\ UNCHANGED <<lockVars, recordVars, granted, conn, media, driveVars,
                 sendVars, packetVars, call>>

DriveGranted ==
  /\ setup = "granted" /\ dmu = Nobody
  /\ setup' = "sender" /\ granted' = TRUE /\ driveMode' = TRUE
  /\ UNCHANGED <<lockVars, recordVars, conn, media, controlSet, lastAxes,
                 published, sendVars, packetVars, kart, call>>

\* newDrive, and Arm(true) when the goroutine's own driveMode says so.
NewSender ==
  /\ setup = "sender"
  /\ \/ setup' = "check" /\ UNCHANGED <<sender, armed>>
     \/ /\ sender' = "open" /\ armed' = granted
        /\ setup' = IF granted THEN "arming" ELSE "check"
  /\ UNCHANGED <<lockVars, recordVars, granted, conn, media, driveVars, axes,
                 packetVars, kart, call>>

Stale == ~tracked \/ cancelled

\* The sender goes to the session with the axes commanded meanwhile; SetAxes
\* writes them at once when it is armed.  Both mutexes are held.
\* Mutant: the sender keeps its own axes.
PublishSenderAsIs ==
  /\ setup = "check" /\ ~Stale
  /\ mmu = Nobody /\ dmu = Nobody
  /\ mmu' = "setup"
  /\ published' = (sender = "open")
  /\ setup' = "recording"
  /\ UNCHANGED <<dmu, axes, recordVars, granted, conn, media, controlSet,
                 driveMode, lastAxes, sender, armed, packetVars, kart, call>>

PublishSender ==
  /\ setup = "check" /\ ~Stale
  /\ mmu = Nobody /\ dmu = Nobody
  /\ mmu' = "setup"
  /\ published' = (sender = "open")
  /\ axes' = IF sender = "open" THEN lastAxes ELSE axes
  /\ IF armed THEN setup' = "publishing" /\ dmu' = "setup"
              ELSE setup' = "recording"  /\ UNCHANGED dmu
  /\ UNCHANGED <<recordVars, granted, conn, media, controlSet, driveMode,
                 lastAxes, sender, armed, packetVars, kart, call>>

\* The record learns what the goroutine believes, still under Manager.mu.
RecordSession ==
  /\ setup = "recording"
  /\ setup' = "live" /\ mmu' = Nobody
  /\ recordArmed' = IF record THEN granted /\ sender = "open" /\ armed
                              ELSE recordArmed
  /\ UNCHANGED <<dmu, tracked, cancelled, down, record, granted, conn, media,
                 driveVars, sendVars, packetVars, kart, call>>

\* A stale goroutine gives back what it opened.
FindStale ==
  /\ setup = "check" /\ Stale /\ mmu = Nobody
  /\ setup' = "closing"
  /\ sender' = IF sender = "open" THEN "stopping" ELSE sender
  /\ UNCHANGED <<lockVars, recordVars, granted, conn, media, driveVars, armed,
                 axes, packetVars, kart, call>>

CloseStale ==
  /\ setup = "closing" /\ writing = Nobody /\ dmu = Nobody
  /\ setup' = "over"
  /\ sender' = IF sender = "stopping" THEN "closed" ELSE sender
  /\ armed' = FALSE
  /\ media' = FALSE /\ conn' = FALSE
  /\ UNCHANGED <<lockVars, recordVars, granted, driveVars, axes, packetVars,
                 kart, call>>

-----------------------------------------------------------------------------
(* teardownControlLocked: a disconnect, a mode change, a shutdown, Close.  *)
(* It holds Manager.mu from the cancel to the end, deviceControl.mu only   *)
(* while it takes the sender and the media away, and leaves the drive mode *)
(* as it was: whoever captured the session before goes on meanwhile.       *)

TearDown ==
  /\ mmu = Nobody /\ tracked
  /\ mmu' = "teardown" /\ down' = "begun"
  /\ cancelled' = TRUE /\ record' = FALSE /\ recordArmed' = FALSE
  /\ UNCHANGED <<dmu, tracked, setupVars, driveVars, sendVars, packetVars, kart,
                 call>>

TearDownDisarms ==
  /\ down = "begun" /\ dmu = Nobody
  /\ dmu' = "teardown" /\ down' = "disarmed"
  /\ IF published THEN armed' = FALSE /\ sender' = "stopping"
                  ELSE UNCHANGED <<armed, sender>>
  /\ UNCHANGED <<mmu, tracked, cancelled, record, recordArmed, setupVars,
                 driveVars, axes, packetVars, kart, call>>

\* drive.Close waits for the loop; the media are taken and the lock released.
\* Mutant: the loop is told to stop and not waited for.
TearDownLeavesLoop ==
  /\ down = "disarmed"
  /\ dmu' = Nobody /\ down' = "released"
  /\ published' = FALSE
  /\ sender' = IF published THEN "closed" ELSE sender
  /\ UNCHANGED <<mmu, tracked, cancelled, record, recordArmed, setupVars,
                 controlSet, driveMode, lastAxes, armed, axes, packetVars, kart,
                 call>>

TearDownReleases ==
  /\ down = "disarmed" /\ (published => writing = Nobody)
  /\ dmu' = Nobody /\ down' = "released"
  /\ published' = FALSE
  /\ sender' = IF published THEN "closed" ELSE sender
  /\ UNCHANGED <<mmu, tracked, cancelled, record, recordArmed, setupVars,
                 controlSet, driveMode, lastAxes, armed, axes, packetVars, kart,
                 call>>

\* The media are closed and the kart is put to sleep, if it answers and was not
\* shut down.
\* Mutant: the media ports stay reserved.
TearDownKeepsMedia ==
  /\ down = "released"
  /\ \/ KartAccepts(0) /\ down' = "asleep"
     \/ KartFails(0)   /\ down' = "awake"
  /\ UNCHANGED <<lockVars, tracked, cancelled, record, recordArmed, setupVars,
                 driveVars, sendVars, packetVars, call>>

TearDownSleeps ==
  /\ down = "released"
  /\ media' = FALSE
  /\ \/ KartAccepts(0) /\ down' = "asleep"
     \/ KartFails(0)   /\ down' = "awake"
  /\ UNCHANGED <<lockVars, tracked, cancelled, record, recordArmed, setup,
                 granted, conn, driveVars, sendVars, packetVars, call>>

TearDownCloses ==
  /\ down \in {"asleep", "awake"}
  /\ down' = "closed" /\ conn' = FALSE /\ tracked' = FALSE
  /\ mmu' = Nobody
  /\ UNCHANGED <<dmu, cancelled, record, recordArmed, setup, granted, media,
                 driveVars, sendVars, packetVars, kart, call>>

-----------------------------------------------------------------------------
(* SetDriveMode.                                                           *)

\* The kart is resolved, and its session captured, under Manager.mu.
Resolvable == mmu = Nobody /\ record /\ tracked

ResolveMode(c, on) ==
  /\ call[c].step = "idle" /\ Resolvable
  /\ call' = [call EXCEPT ![c] = [step |-> "mode", on |-> on, axes |-> Neutral]]
  /\ UNCHANGED <<lockVars, recordVars, setupVars, driveVars, sendVars,
                 packetVars, kart>>

\* Not ready, no sender to enable, or nothing to change.
RefusesMode(on) == ~controlSet \/ (on /\ ~published) \/ driveMode = on

\* Mutant: the axes commanded while the mode was off are kept.
EnterModeKeepsAxes(c) ==
  /\ call[c].step = "mode" /\ dmu = Nobody
  /\ IF RefusesMode(call[c].on)
     THEN Returns(c) /\ UNCHANGED dmu
     ELSE dmu' = c /\ At(c, IF published /\ armed THEN "neutral" ELSE "muted")
  /\ UNCHANGED <<mmu, recordVars, setupVars, driveVars, sendVars, packetVars,
                 kart>>

EnterMode(c) ==
  /\ call[c].step = "mode" /\ dmu = Nobody
  /\ IF RefusesMode(call[c].on)
     THEN Returns(c) /\ UNCHANGED <<dmu, lastAxes, axes>>
     ELSE /\ dmu' = c
          /\ lastAxes' = Neutral
          /\ axes' = IF published THEN Neutral ELSE axes
          /\ At(c, IF published /\ armed THEN "neutral" ELSE "muted")
  /\ UNCHANGED <<mmu, recordVars, setupVars, controlSet, driveMode, published,
                 sender, armed, packetVars, kart>>

\* Disabling disarms the sender before the kart is asked.
Mute(c) ==
  /\ call[c].step = "muted"
  /\ driveMode' = (driveMode /\ call[c].on)
  /\ armed' = IF published /\ ~call[c].on THEN FALSE ELSE armed
  /\ At(c, "state")
  /\ UNCHANGED <<lockVars, recordVars, setupVars, controlSet, lastAxes,
                 published, sender, axes, packetVars, kart>>

\* Mutant: a call on a closed channel never ends.
KartNeverFails(c) ==
  /\ call[c].step = "state"
  /\ LET on == call[c].on IN
     /\ KartAccepts(IF on THEN 1 ELSE 0)
     /\ driveMode' = on
     /\ armed' = (on \/ armed)
     /\ At(c, IF on THEN "arming" ELSE "answered")
  /\ UNCHANGED <<lockVars, recordVars, setupVars, controlSet, lastAxes,
                 published, sender, axes, packetVars>>

\* The kart's answer to SetState; an enabled sender is armed.
KartAnswers(c) ==
  /\ call[c].step = "state"
  /\ LET on == call[c].on IN
     \/ /\ KartAccepts(IF on THEN 1 ELSE 0)
        /\ driveMode' = on
        /\ armed' = (on \/ armed)
        /\ At(c, IF on THEN "arming" ELSE "answered")
     \/ /\ KartFails(IF on THEN 1 ELSE 0)
        /\ At(c, "answered")
        /\ UNCHANGED <<driveMode, armed>>
  /\ UNCHANGED <<lockVars, recordVars, setupVars, controlSet, lastAxes,
                 published, sender, axes, packetVars>>

\* Mutant: the lock is kept when the call failed.
LeaveModeKeepsLock(c) ==
  /\ call[c].step = "answered"
  /\ dmu' = IF driveMode = call[c].on THEN Nobody ELSE dmu
  /\ call' = [call EXCEPT ![c].step = "publish",
                          ![c].on = driveMode /\ published /\ armed]
  /\ UNCHANGED <<mmu, recordVars, setupVars, driveVars, sendVars, packetVars,
                 kart>>

\* Whether the sender is armed is read before deviceControl.mu is released ...
LeaveMode(c) ==
  /\ call[c].step = "answered"
  /\ dmu' = Nobody
  /\ call' = [call EXCEPT ![c].step = "publish",
                          ![c].on = driveMode /\ published /\ armed]
  /\ UNCHANGED <<mmu, recordVars, setupVars, driveVars, sendVars, packetVars,
                 kart>>

\* ... and stored in the record after Manager.mu is taken.
PublishArmed(c) ==
  /\ call[c].step = "publish" /\ mmu = Nobody
  /\ recordArmed' = IF record THEN call[c].on ELSE recordArmed
  /\ Returns(c)
  /\ UNCHANGED <<lockVars, tracked, cancelled, down, record, setupVars,
                 driveVars, sendVars, packetVars, kart>>

-----------------------------------------------------------------------------
(* SetDrive.                                                               *)

ResolveDrive(c, a) ==
  /\ call[c].step = "idle" /\ Resolvable
  /\ call' = [call EXCEPT ![c] = [step |-> "drive", on |-> FALSE, axes |-> a]]
  /\ UNCHANGED <<lockVars, recordVars, setupVars, driveVars, sendVars,
                 packetVars, kart>>

EnterDrive(c) ==
  /\ call[c].step = "drive" /\ dmu = Nobody
  /\ lastAxes' = call[c].axes
  /\ axes' = IF published THEN call[c].axes ELSE axes
  /\ call' = [call EXCEPT ![c].step = IF published /\ armed THEN "axes"
                                                            ELSE "report",
                          ![c].on = driveMode /\ published]
  /\ dmu' = IF published /\ armed THEN c ELSE dmu
  /\ sent' = sent \ {c}
  /\ UNCHANGED <<mmu, recordVars, setupVars, controlSet, driveMode, published,
                 sender, armed, writing, healthy, wire, kart>>

\* driveDeliveryState, on what was captured under the lock.
Applied(c) == call[c].on /\ armed /\ healthy

ReportDrive(c) ==
  /\ call[c].step = "report"
  /\ Returns(c)
  /\ sent' = sent \ {c}
  /\ UNCHANGED <<lockVars, recordVars, setupVars, driveVars, sendVars, writing,
                 healthy, wire, kart>>

\* The kart is gone: the call fails before it reaches the session.
ResolveFails(c) ==
  /\ call[c].step = "idle" /\ mmu = Nobody /\ ~(record /\ tracked)
  /\ UNCHANGED vars

\* applyTelemetryPacket recomputes the armed field on a status packet.  The
\* model lets one arrive at any time, for it may have been read just before
\* its socket was closed.
TelemetryArrives ==
  /\ mmu = Nobody /\ dmu = Nobody /\ record /\ tracked
  /\ recordArmed' = (driveMode /\ published /\ armed)
  /\ UNCHANGED <<lockVars, tracked, cancelled, down, record, setupVars,
                 driveVars, sendVars, packetVars, kart, call>>

-----------------------------------------------------------------------------
SetupStep ==
  \/ OpenMedia \/ ConnectionInfoSet \/ ConnectionInfoFails
  \/ RequestDrive \/ DriveGranted \/ NewSender
  \/ PublishSender \/ RecordSession \/ FindStale \/ CloseStale

CallStep(c) ==
  \/ EnterMode(c) \/ Mute(c) \/ KartAnswers(c) \/ LeaveMode(c)
  \/ PublishArmed(c) \/ EnterDrive(c) \/ ReportDrive(c)

Next ==
  \/ \E p \in Writers : StartWrite(p) \/ EndWrite(p)
  \/ SetupStep
  \/ TearDown \/ TearDownDisarms \/ TearDownReleases \/ TearDownSleeps
  \/ TearDownCloses
  \/ \E c \in Client :
       \/ \E on \in BOOLEAN : ResolveMode(c, on)
       \/ \E a \in Axes : ResolveDrive(c, a)
       \/ ResolveFails(c)
       \/ CallStep(c)
  \/ TelemetryArrives

Spec == Init /\ [][Next]_vars

\* Kart calls end within the 5 s of rcd's ExchangeTimeout and UDP writes do
\* not block, so a process that can run does.  A mutex that is free again and
\* again is obtained in the end: sync.Mutex hands a starving waiter the lock.
Fairness ==
  /\ \A p \in Writers : WF_vars(EndWrite(p))
  /\ \A p \in Writers \ {"loop"} : SF_vars(StartWrite(p))
  /\ SF_vars(SetupStep)
  /\ SF_vars(TearDownDisarms) /\ SF_vars(TearDownReleases)
  /\ WF_vars(TearDownSleeps) /\ WF_vars(TearDownCloses)
  /\ \A c \in Client : SF_vars(CallStep(c))

FairSpec == Spec /\ Fairness

-----------------------------------------------------------------------------
(* Properties.                                                             *)

\* The command GetDrive reports is the one the sender holds (SetDrive and
\* SetDriveMode change both in one critical section, setup hands the former to
\* a late sender).
AxesInSync == published /\ dmu = Nobody => axes = lastAxes

\* Once every call that changed the command has returned, the last packet that
\* reached the wire carries it: no older packet overtakes it, though the loop
\* and the callers write concurrently (DriveSender.writeMu).
LatestWins ==
  published /\ armed /\ healthy /\ dmu = Nobody /\ writing = Nobody
    => wire = axes

\* The three copies of a command agree whenever no call is under way: the one
\* the session reports, the one its sender holds, the one the kart got last.
CommandsAgree == AxesInSync /\ LatestWins

\* SetDrive answers Applied, "UDP packet sent", only if its command, or a newer
\* one, was written without an error after it was accepted.
AppliedWasSent ==
  \A c \in Client : call[c].step = "report" /\ Applied(c) => c \in sent

\* The steps of the teardown after its sleep command, answered or not.
SleepSent == down \in {"asleep", "awake", "closed"}

\* The kart and the session agree on the drive mode until the teardown puts the
\* kart to sleep.  From then on nobody steers it: the session's sender has
\* written its last packet, and a setup that was overtaken and still holds a
\* sender of its own sends neutral commands only.
KartFollowsMode ==
  /\ driveMode /\ kart = 0 => SleepSent
  /\ SleepSent /\ writing # Nobody => writing.axes = Neutral

\* "The kart is put to sleep before channels close (normal disconnect)": what
\* the teardown has put to sleep is still asleep when it closes the channels.
StaysAsleep == down = "asleep" => kart = 0

\* "Drive commands do not implicitly re-enable it" (USAGE.md): a published
\* sender is armed only by a call that puts the session in drive mode, and
\* "transitions reset all axes to neutral".
ArmedByEnabling ==
  [][published /\ ~armed /\ armed' => driveMode' /\ kart' = 1 /\ axes' = Neutral]_vars

\* What a session opened is given back, whenever the teardown overtakes the
\* setup: no sender loop, port or channel is left once both are over.
NothingLeaks ==
  ~tracked /\ setup \in {"live", "over"} =>
    sender \in {"none", "closed"} /\ ~media /\ ~conn

\* "Disabling disarms UDP output" (USAGE.md): a sender the session knows is
\* armed only in drive mode, except inside the call that changes both.
DisabledIsDisarmed == published /\ dmu = Nobody /\ armed => driveMode

\* A teardown, which keeps the whole manager waiting, ends.
TearDownEnds == (mmu = "teardown") ~> (mmu # "teardown")

\* Every drive call returns, whatever the others and the teardown do.
CallsReturn == \A c \in Client : call[c].step # "idle" ~> call[c].step = "idle"

=============================================================================
