---------------------------- MODULE DriveProofs ----------------------------
(***************************************************************************)
(* One control session, for any callers and commands.                      *)
(*                                                                         *)
(* Everything rests on the lock discipline: who is at which step while     *)
(* deviceControl.mu and Manager.mu are held (Locks), and who may have a    *)
(* packet under way (WriterWaits).  On it stand the life of the sender and *)
(* of the session (SenderLives, SessionLives), the agreement of the drive  *)
(* mode with the armed flag (ModeInv), and then, each on its own, what     *)
(* becomes of a command: it is stored, written and answered for.           *)
(***************************************************************************)
EXTENDS DriveSession, TLAPS

\* The steps of SetDriveMode and SetDrive under deviceControl.mu, and those of
\* SetDriveMode before the kart has answered.
Critical == {"neutral", "muted", "state", "arming", "answered", "axes"}
Changing == {"neutral", "muted", "state"}

\* The steps of the setup before it has the drive mode, and a sender.
Ungranted == {"attached", "info", "state", "granted"}
Unpublished == Ungranted \cup {"sender"}

-----------------------------------------------------------------------------
(* The inductive invariant.                                                *)

\* The setup keeps Manager.mu from the staleness check to the record, and
\* deviceControl.mu while it publishes an armed sender; the teardown keeps the
\* former to its end and the latter while it takes the sender away; a caller
\* keeps the latter through its section.
Locks ==
  /\ mmu = "setup" <=> setup \in {"publishing", "recording"}
  /\ dmu = "setup" <=> setup = "publishing"
  /\ mmu = "teardown" <=> down \in Down \ {"no", "closed"}
  /\ dmu = "teardown" <=> down = "disarmed"
  /\ \A c \in Client : dmu = c <=> call[c].step \in Critical

\* Whoever writes a packet is still at the step that writes it.
WriterWaits ==
  writing # Nobody =>
    /\ writing.by = "setup" => setup \in {"arming", "publishing"}
    /\ writing.by = "loop" => sender \in {"open", "stopping"}
    /\ \A c \in Client :
         writing.by = c => call[c].step \in {"neutral", "arming", "axes"}

\* The life of the sender: made by the setup, published under both locks unless
\* the session is stale, stopped by who holds it, the session or the setup.
SenderLives ==
  /\ setup \in Unpublished => sender = "none"
  /\ setup = "arming" => sender = "open"
  /\ setup = "check" => sender \in {"none", "open"}
  /\ setup \in {"arming", "publishing"} => armed
  /\ sender \in {"none", "closed"} => ~armed /\ ~published
  /\ published =>
       /\ setup \in {"publishing", "recording", "live"}
       /\ down \in {"no", "begun", "disarmed"}
       /\ sender = "open" \/ (sender = "stopping" /\ dmu = "teardown" /\ ~armed)
       /\ dmu = "teardown" => ~armed
  /\ sender = "open" =>
       setup \in {"arming", "check"} \/ published
  /\ sender = "stopping" => setup = "closing" \/ published

\* The life of the session: it is published only while it is tracked, and
\* whoever ends it closes what it has opened.
SessionLives ==
  /\ setup \in {"publishing", "recording"} => tracked /\ ~cancelled
  /\ cancelled <=> down # "no"
  /\ tracked <=> down # "closed"
  /\ ~tracked => ~conn
  /\ SleepSent => ~media
  /\ setup = "attached" => ~media
  /\ setup = "over" => ~media /\ ~conn /\ sender \in {"none", "closed"}

\* The drive mode and the armed flag: a sender is armed by the setup if it was
\* granted the mode, and by a call that enables the mode; in drive mode a
\* published sender is armed, unless the teardown has it.
ModeInv ==
  /\ setup \in Ungranted => ~driveMode /\ ~granted
  /\ driveMode /\ setup \notin {"publishing", "recording", "live"} => granted
  /\ granted /\ sender = "open" /\ ~published => armed
  /\ driveMode /\ published /\ dmu # "teardown" => armed
  /\ \A c \in Client :
       /\ call[c].step \in {"neutral", "muted"} => driveMode # call[c].on
       /\ call[c].step = "state" => ~driveMode
       /\ call[c].step \in Changing => setup \notin Ungranted
       /\ call[c].step \in Changing /\ call[c].on => published
       /\ call[c].step = "arming" => call[c].on /\ driveMode /\ published /\ armed

\* A mode change has reset the axes, and nobody sets them before the kart has
\* answered.
NeutralWhileChanging ==
  \A c \in Client : call[c].step \in Changing /\ published => axes = Neutral

\* In drive mode, or about to be, the kart was woken, until it is put to sleep.
KartInv ==
  /\ setup = "granted" /\ kart = 0 => SleepSent
  /\ driveMode /\ kart = 0 => SleepSent

\* A sender the session does not know has neutral axes, and sends them.
StandsStill ==
  /\ ~published /\ sender # "closed" => axes = Neutral
  /\ ~published /\ writing # Nobody => writing.axes = Neutral

\* A published sender holds the command the session reports.
InSync == published => axes = lastAxes

\* A step that changed the axes or armed the sender has yet to write.
Pending ==
  \/ setup \in {"arming", "publishing"}
  \/ \E c \in Client : call[c].step \in {"neutral", "arming", "axes"}

\* A packet of the setup or of a caller carries the newest axes, and so do,
\* when no write is owed, the packet under way and the last one sent.
Latest ==
  /\ writing # Nobody /\ writing.by # "loop" => writing.axes = axes
  /\ armed /\ ~Pending /\ writing # Nobody => writing.axes = axes
  /\ armed /\ ~Pending /\ healthy => wire = axes

\* A packet that was begun after a command was stored carries it: the packet of
\* its own call, and any packet while that call reports.
SentInv ==
  \A c \in Client :
    /\ call[c].step = "axes" /\ writing # Nobody /\ writing.by = c
         => c \in writing.carries
    /\ call[c].step = "report" /\ call[c].on /\ writing # Nobody
         => c \in writing.carries
    /\ call[c].step = "report" /\ call[c].on /\ healthy => c \in sent

-----------------------------------------------------------------------------
(* Types.                                                                  *)

\* Every step leaves each process at a step of its own, each lock with a holder.
LEMMA PlacesStep ==
  ASSUME TypeOK, [Next]_vars
  PROVE  Places'
<1>1. ASSUME NEW p \in Writers, EndWrite(p)
      PROVE  Places'
  BY <1>1 DEF EndWrite, Continue, TypeOK, Places, Holder, Setup, Writers,
     lockVars, setupVars, sendVars, recordVars, Down
<1>2. ASSUME OpenMedia
      PROVE  Places'
  BY <1>2 DEF OpenMedia, TypeOK, Places, Holder, Setup, Writers, lockVars,
     setupVars, sendVars, recordVars, Down
<1>3. ASSUME ConnectionInfoSet
      PROVE  Places'
  BY <1>3 DEF ConnectionInfoSet, TypeOK, Places, Holder, Setup, Writers,
     lockVars, setupVars, sendVars, recordVars, Down
<1>4. ASSUME ConnectionInfoFails
      PROVE  Places'
  BY <1>4 DEF ConnectionInfoFails, TypeOK, Places, Holder, Setup, Writers,
     lockVars, setupVars, sendVars, recordVars, Down
<1>5. ASSUME RequestDrive
      PROVE  Places'
  BY <1>5 DEF RequestDrive, KartAccepts, KartFails, TypeOK, Places, Holder,
     Setup, Writers, lockVars, setupVars, sendVars, recordVars, Down
<1>6. ASSUME DriveGranted
      PROVE  Places'
  BY <1>6 DEF DriveGranted, TypeOK, Places, Holder, Setup, Writers, lockVars,
     setupVars, sendVars, recordVars, Down
<1>7. ASSUME NewSender
      PROVE  Places'
  BY <1>7 DEF NewSender, TypeOK, Places, Holder, Setup, Writers, lockVars,
     setupVars, sendVars, recordVars, Down
<1>8. ASSUME PublishSender
      PROVE  Places'
  BY <1>8 DEF PublishSender, TypeOK, Places, Holder, Setup, Writers, lockVars,
     setupVars, sendVars, recordVars, Down
<1>9. ASSUME RecordSession
      PROVE  Places'
  BY <1>9 DEF RecordSession, TypeOK, Places, Holder, Setup, Writers, lockVars,
     setupVars, sendVars, recordVars, Down
<1>10. ASSUME FindStale
      PROVE  Places'
  BY <1>10 DEF FindStale, TypeOK, Places, Holder, Setup, Writers, lockVars,
     setupVars, sendVars, recordVars, Down
<1>11. ASSUME CloseStale
      PROVE  Places'
  BY <1>11 DEF CloseStale, TypeOK, Places, Holder, Setup, Writers, lockVars,
     setupVars, sendVars, recordVars, Down
<1>12. ASSUME TearDown
      PROVE  Places'
  BY <1>12 DEF TearDown, TypeOK, Places, Holder, Setup, Writers, lockVars,
     setupVars, sendVars, recordVars, Down
<1>13. ASSUME TearDownDisarms
      PROVE  Places'
  BY <1>13 DEF TearDownDisarms, TypeOK, Places, Holder, Setup, Writers,
     lockVars, setupVars, sendVars, recordVars, Down
<1>14. ASSUME TearDownCloses
      PROVE  Places'
  BY <1>14 DEF TearDownCloses, KartFails, TypeOK, Places, Holder, Setup,
     Writers, lockVars, setupVars, sendVars, recordVars, Down
<1>15. ASSUME NEW c \in Client, NEW on \in BOOLEAN, ResolveMode(c, on)
      PROVE  Places'
  BY <1>15 DEF ResolveMode, TypeOK, Places, Holder, Setup, Writers, lockVars,
     setupVars, sendVars, recordVars, Down
<1>16. ASSUME NEW c \in Client, NEW a \in Axes, ResolveDrive(c, a)
      PROVE  Places'
  BY <1>16 DEF ResolveDrive, TypeOK, Places, Holder, Setup, Writers, lockVars,
     setupVars, sendVars, recordVars, Down
<1>17. ASSUME NEW c \in Client, EnterMode(c)
      PROVE  Places'
  BY <1>17 DEF EnterMode, At, Returns, TypeOK, Places, Holder, Setup, Writers,
     lockVars, setupVars, sendVars, recordVars, Down
<1>18. ASSUME NEW c \in Client, Mute(c)
      PROVE  Places'
  BY <1>18 DEF Mute, At, TypeOK, Places, Holder, Setup, Writers, lockVars,
     setupVars, sendVars, recordVars, Down
<1>19. ASSUME NEW c \in Client, KartAnswers(c)
      PROVE  Places'
  BY <1>19 DEF KartAnswers, KartAccepts, KartFails, At, TypeOK, Places, Holder,
     Setup, Writers, lockVars, setupVars, sendVars, recordVars, Down
<1>20. ASSUME NEW c \in Client, LeaveMode(c)
      PROVE  Places'
  BY <1>20 DEF LeaveMode, TypeOK, Places, Holder, Setup, Writers, lockVars,
     setupVars, sendVars, recordVars, Down
<1>21. ASSUME NEW c \in Client, PublishArmed(c)
      PROVE  Places'
  BY <1>21 DEF PublishArmed, Returns, TypeOK, Places, Holder, Setup, Writers,
     lockVars, setupVars, sendVars, recordVars, Down
<1>22. ASSUME NEW c \in Client, EnterDrive(c)
      PROVE  Places'
  BY <1>22 DEF EnterDrive, TypeOK, Places, Holder, Setup, Writers, lockVars,
     setupVars, sendVars, recordVars, Down
<1>23. ASSUME NEW c \in Client, ReportDrive(c)
      PROVE  Places'
  BY <1>23 DEF ReportDrive, Returns, TypeOK, Places, Holder, Setup, Writers,
     lockVars, setupVars, sendVars, recordVars, Down
<1>24. ASSUME NEW c \in Client,
              ResolveFails(c)
      PROVE  Places'
  BY <1>24 DEF ResolveFails, vars, TypeOK, Places, Holder, Setup, Writers,
     lockVars, setupVars, sendVars, recordVars, Down
<1>25. ASSUME (\E p \in Writers : StartWrite(p)) \/ TelemetryArrives
              \/ UNCHANGED vars
      PROVE  Places'
  BY <1>25 DEF StartWrite, TelemetryArrives, vars, TypeOK, Places, Holder,
     Setup, Writers, lockVars, setupVars, sendVars, recordVars, Down
<1>26. ASSUME TearDownReleases
      PROVE  Places'
  BY <1>26 DEF TearDownReleases, TypeOK, Places, Holder, Setup, Writers,
     lockVars, setupVars, sendVars, recordVars, Down
<1>27. ASSUME TearDownSleeps
      PROVE  Places'
  BY <1>27 DEF TearDownSleeps, KartAccepts, KartFails, TypeOK, Places, Holder,
     Setup, Writers, lockVars, setupVars, sendVars, recordVars, Down
<1> QED
  BY <1>1, <1>2, <1>3, <1>4, <1>5, <1>6, <1>7, <1>8, <1>9, <1>10, <1>11, <1>12,
     <1>13, <1>14, <1>15, <1>16, <1>17, <1>18, <1>19, <1>20, <1>21, <1>22,
     <1>23, <1>24, <1>25, <1>26, <1>27 DEF Next, SetupStep, CallStep

\* Every step leaves the flags boolean.
LEMMA FlagsStep ==
  ASSUME TypeOK, [Next]_vars
  PROVE  Flags'
<1>1. ASSUME NEW p \in Writers, EndWrite(p)
      PROVE  Flags'
  BY <1>1, Zenon DEF EndWrite, Continue, TypeOK, Flags, recordVars, setupVars,
     driveVars, sendVars, packetVars
<1>2. ASSUME OpenMedia
      PROVE  Flags'
  BY <1>2, Zenon DEF OpenMedia, TypeOK, Flags, recordVars, setupVars,
     driveVars,
     sendVars, packetVars
<1>3. ASSUME ConnectionInfoSet
      PROVE  Flags'
  BY <1>3, Zenon DEF ConnectionInfoSet, TypeOK, Flags, recordVars, setupVars,
     driveVars, sendVars, packetVars
<1>4. ASSUME ConnectionInfoFails
      PROVE  Flags'
  BY <1>4, Zenon DEF ConnectionInfoFails, TypeOK, Flags, recordVars,
     setupVars,
     driveVars, sendVars, packetVars
<1>5. ASSUME DriveGranted
      PROVE  Flags'
  BY <1>5, Zenon DEF DriveGranted, TypeOK, Flags, recordVars, setupVars,
     driveVars,
     sendVars, packetVars
<1>6. ASSUME NewSender
      PROVE  Flags'
  BY <1>6, Zenon DEF NewSender, TypeOK, Flags, recordVars, setupVars,
     driveVars,
     sendVars, packetVars
<1>7. ASSUME PublishSender
      PROVE  Flags'
  BY <1>7, Zenon DEF PublishSender, TypeOK, Flags, recordVars, setupVars,
     driveVars,
     sendVars, packetVars
<1>8. ASSUME RecordSession
      PROVE  Flags'
  BY <1>8, Zenon DEF RecordSession, TypeOK, Flags, recordVars, setupVars,
     driveVars,
     sendVars, packetVars
<1>9. ASSUME CloseStale
      PROVE  Flags'
  BY <1>9, Zenon DEF CloseStale, TypeOK, Flags, recordVars, setupVars,
     driveVars,
     sendVars, packetVars
<1>10. ASSUME TearDown
      PROVE  Flags'
  BY <1>10, Zenon DEF TearDown, TypeOK, Flags, recordVars, setupVars,
     driveVars,
     sendVars, packetVars
<1>11. ASSUME TearDownDisarms
      PROVE  Flags'
  BY <1>11, Zenon DEF TearDownDisarms, TypeOK, Flags, recordVars, setupVars,
     driveVars, sendVars, packetVars
<1>12. ASSUME TearDownCloses
      PROVE  Flags'
  BY <1>12, Zenon DEF TearDownCloses, KartFails, TypeOK, Flags, recordVars,
     setupVars, driveVars, sendVars, packetVars
<1>13. ASSUME NEW c \in Client, Mute(c)
      PROVE  Flags'
  BY <1>13, Zenon DEF Mute, At, TypeOK, Flags, recordVars, setupVars,
     driveVars,
     sendVars, packetVars
<1>14. ASSUME NEW c \in Client, KartAnswers(c)
      PROVE  Flags'
  <2>1. call[c].on \in BOOLEAN
    BY DEF TypeOK, Commands
  <2>2. driveMode' \in BOOLEAN /\ armed' \in BOOLEAN
    BY <1>14, <2>1, Zenon DEF TypeOK, Flags, KartAnswers
  <2> QED
    BY <1>14, <2>2, Zenon
    DEF TypeOK, Flags, KartAnswers, recordVars, setupVars, packetVars
<1>15. ASSUME NEW c \in Client, PublishArmed(c)
      PROVE  Flags'
  <2>1. call[c].on \in BOOLEAN
    BY DEF TypeOK, Commands
  <2> QED
    BY <1>15, <2>1, Zenon
    DEF TypeOK, Flags, PublishArmed, setupVars, driveVars, sendVars,
        packetVars
<1>16. ASSUME TelemetryArrives
      PROVE  Flags'
  BY <1>16, Zenon DEF TelemetryArrives, TypeOK, Flags, recordVars, setupVars,
     driveVars, sendVars, packetVars
<1>17. ASSUME RequestDrive \/ FindStale
      PROVE  Flags'
  <2>1. UNCHANGED <<tracked, cancelled, record, recordArmed, granted, conn,
                  media, controlSet, driveMode, published, armed, healthy>>
    BY <1>17 DEF RequestDrive, KartAccepts, KartFails, FindStale, recordVars,
       setupVars, driveVars, sendVars, packetVars
  <2> QED
    BY <2>1 DEF TypeOK, Flags
<1>18. ASSUME NEW c \in Client,
              (\E on \in BOOLEAN : ResolveMode(c, on))
              \/ (\E a \in Axes : ResolveDrive(c, a)) \/ ResolveFails(c)
              \/ EnterMode(c) \/ LeaveMode(c)
      PROVE  Flags'
  <2>1. UNCHANGED <<tracked, cancelled, record, recordArmed, granted, conn,
                  media, controlSet, driveMode, published, armed, healthy>>
    BY <1>18 DEF ResolveMode, ResolveDrive, ResolveFails, vars, EnterMode,
       LeaveMode, recordVars, setupVars, driveVars, sendVars, packetVars
  <2> QED
    BY <2>1 DEF TypeOK, Flags
<1>19. ASSUME NEW c \in Client,
              EnterDrive(c) \/ ReportDrive(c)
      PROVE  Flags'
  <2>1. UNCHANGED <<tracked, cancelled, record, recordArmed, granted, conn,
                  media, controlSet, driveMode, published, armed, healthy>>
    BY <1>19 DEF EnterDrive, ReportDrive, recordVars, setupVars, driveVars,
       sendVars, packetVars
  <2> QED
    BY <2>1 DEF TypeOK, Flags
<1>20. ASSUME (\E p \in Writers : StartWrite(p)) \/ UNCHANGED vars
      PROVE  Flags'
  <2>1. UNCHANGED <<tracked, cancelled, record, recordArmed, granted, conn,
                  media, controlSet, driveMode, published, armed, healthy>>
    BY <1>20 DEF StartWrite, vars, recordVars, setupVars, driveVars, sendVars,
       packetVars
  <2> QED
    BY <2>1 DEF TypeOK, Flags
<1>21. ASSUME TearDownReleases
      PROVE  Flags'
  BY <1>21, Zenon DEF TearDownReleases, TypeOK, Flags, recordVars, setupVars,
     driveVars, sendVars, packetVars
<1>22. ASSUME TearDownSleeps
      PROVE  Flags'
  BY <1>22, Zenon DEF TearDownSleeps, TypeOK, Flags, recordVars, setupVars,
     driveVars, sendVars, packetVars
<1> QED
  BY <1>1, <1>2, <1>3, <1>4, <1>5, <1>6, <1>7, <1>8, <1>9, <1>10, <1>11, <1>12,
     <1>13, <1>14, <1>15, <1>16, <1>17, <1>18, <1>19, <1>20, <1>21, <1>22 DEF
     Next, SetupStep, CallStep

\* Every step leaves commands, packets and calls what they are.
LEMMA CommandsStep ==
  ASSUME TypeOK, [Next]_vars
  PROVE  Commands'
<1>1. ASSUME NEW p \in Writers, StartWrite(p)
      PROVE  Commands'
  BY <1>1, DriveAssumption DEF StartWrite, WantsToWrite, TypeOK, Commands,
     Packet, Step, Idle, Stored, Writers, driveVars, sendVars, packetVars
<1>2. ASSUME NEW p \in Writers, EndWrite(p)
      PROVE  Commands'
  BY <1>2, DriveAssumption DEF EndWrite, Continue, At, TypeOK, Commands,
     Packet, Step, Idle, Stored, Writers, driveVars, sendVars, packetVars
<1>3. ASSUME PublishSender
      PROVE  Commands'
  BY <1>3, DriveAssumption DEF PublishSender, Stale, TypeOK, Commands, Packet,
     Step, Idle, Stored, Writers, driveVars, sendVars, packetVars
<1>4. ASSUME NEW c \in Client, NEW on \in BOOLEAN, ResolveMode(c, on)
      PROVE  Commands'
  BY <1>4, DriveAssumption DEF ResolveMode, TypeOK, Commands, Packet, Step,
     Idle, Stored, Writers, driveVars, sendVars, packetVars
<1>5. ASSUME NEW c \in Client, NEW a \in Axes, ResolveDrive(c, a)
      PROVE  Commands'
  BY <1>5, DriveAssumption DEF ResolveDrive, TypeOK, Commands, Packet, Step,
     Idle, Stored, Writers, driveVars, sendVars, packetVars
<1>6. ASSUME NEW c \in Client, EnterMode(c)
      PROVE  Commands'
  <2>1. call' \in [Client -> [step : Step, on : BOOLEAN, axes : Axes]]
    <3>1. CASE call' = [call EXCEPT ![c] = Idle]
      <4>1. Idle \in [step : Step, on : BOOLEAN, axes : Axes]
        BY DriveAssumption DEF Idle, Step
      <4> QED
        BY <3>1, <4>1 DEF TypeOK, Commands
    <3>2. CASE \E s \in Step : call' = [call EXCEPT ![c].step = s]
      BY <3>2 DEF TypeOK, Commands
    <3>3. "neutral" \in Step /\ "muted" \in Step
      BY DEF Step
    <3> QED
      BY <1>6, <3>1, <3>2, <3>3 DEF EnterMode, At, Returns
  <2> QED
    BY <1>6, <2>1, DriveAssumption DEF TypeOK, Commands, EnterMode, packetVars
<1>7. ASSUME NEW c \in Client, Mute(c)
      PROVE  Commands'
  BY <1>7, DriveAssumption DEF Mute, At, TypeOK, Commands, Packet, Step, Idle,
     Stored, Writers, driveVars, sendVars, packetVars
<1>8. ASSUME NEW c \in Client, KartAnswers(c)
      PROVE  Commands'
  BY <1>8, DriveAssumption DEF KartAnswers, KartAccepts, KartFails, At,
     TypeOK, Commands, Packet, Step, Idle, Stored, Writers, driveVars,
     sendVars, packetVars
<1>9. ASSUME NEW c \in Client, LeaveMode(c)
      PROVE  Commands'
  <2>1. PICK b \in BOOLEAN :
          call' = [call EXCEPT ![c].step = "publish", ![c].on = b]
    BY <1>9 DEF LeaveMode
  <2>2. call' \in [Client -> [step : Step, on : BOOLEAN, axes : Axes]]
    BY <2>1 DEF TypeOK, Commands, Step
  <2> QED
    BY <1>9, <2>2 DEF TypeOK, Commands, LeaveMode, packetVars, driveVars, sendVars
<1>10. ASSUME NEW c \in Client, PublishArmed(c)
      PROVE  Commands'
  BY <1>10, DriveAssumption DEF PublishArmed, Returns, Idle, TypeOK, Commands,
     Packet, Step, Stored, Writers, driveVars, sendVars, packetVars
<1>11. ASSUME NEW c \in Client, EnterDrive(c)
      PROVE  Commands'
  <2>1. call[c] \in [step : Step, on : BOOLEAN, axes : Axes]
    BY DEF TypeOK, Commands
  <2>2. PICK s \in Step, b \in BOOLEAN :
          call' = [call EXCEPT ![c].step = s, ![c].on = b]
    BY <1>11 DEF EnterDrive, Step
  <2>3. call' \in [Client -> [step : Step, on : BOOLEAN, axes : Axes]]
    BY <2>2 DEF TypeOK, Commands
  <2> QED
    BY <1>11, <2>1, <2>3 DEF TypeOK, Commands, EnterDrive, packetVars
<1>12. ASSUME NEW c \in Client, ReportDrive(c)
      PROVE  Commands'
  BY <1>12, DriveAssumption DEF ReportDrive, Returns, Idle, TypeOK, Commands,
     Packet, Step, Stored, Writers, driveVars, sendVars, packetVars
<1>13. ASSUME OpenMedia \/ ConnectionInfoSet \/ ConnectionInfoFails
              \/ RequestDrive \/ DriveGranted
      PROVE  Commands'
  BY <1>13 DEF OpenMedia, ConnectionInfoSet, ConnectionInfoFails,
     RequestDrive, KartAccepts, KartFails, DriveGranted, TypeOK, Commands,
     driveVars, sendVars, packetVars
<1>14. ASSUME NewSender \/ RecordSession \/ FindStale \/ CloseStale
      PROVE  Commands'
  BY <1>14 DEF NewSender, RecordSession, FindStale, CloseStale, TypeOK,
     Commands, driveVars, sendVars, packetVars
<1>15. ASSUME NEW c \in Client,
              ResolveFails(c)
      PROVE  Commands'
  BY <1>15 DEF ResolveFails, vars, TypeOK, Commands, driveVars, sendVars,
     packetVars
<1>16. ASSUME TearDown \/ TearDownDisarms \/ TearDownCloses
              \/ TelemetryArrives \/ UNCHANGED vars
      PROVE  Commands'
  BY <1>16 DEF TearDown, TearDownDisarms, TearDownCloses, KartFails,
     TelemetryArrives, vars, TypeOK, Commands, driveVars, sendVars, packetVars
<1>17. ASSUME TearDownReleases \/ TearDownSleeps
      PROVE  Commands'
  BY <1>17 DEF TearDownReleases, TearDownSleeps, KartAccepts, KartFails,
     TypeOK, Commands, driveVars, sendVars, packetVars
<1> QED
  BY <1>1, <1>2, <1>3, <1>4, <1>5, <1>6, <1>7, <1>8, <1>9, <1>10, <1>11, <1>12,
     <1>13, <1>14, <1>15, <1>16, <1>17 DEF Next, SetupStep, CallStep

\* At the start every variable has its type.
LEMMA InitTypes == Init => TypeOK
<1> SUFFICES ASSUME Init
             PROVE  Places /\ Flags /\ Commands
  BY DEF TypeOK
<1>1. Places
  BY DEF Init, Places, Holder, Setup, Down
<1>2. Flags
  BY Zenon DEF Init, Flags
<1>3. Commands
  <2>1. Idle \in [step : Step, on : BOOLEAN, axes : Axes]
    BY DriveAssumption DEF Idle, Step
  <2> QED
    BY <2>1, DriveAssumption DEF Init, Commands
<1> QED
  BY <1>1, <1>2, <1>3

\* Every process, lock, flag and command of a session is of its type.
THEOREM TypeCorrect == Spec => []TypeOK
<1>1. TypeOK /\ [Next]_vars => TypeOK'
  BY PlacesStep, FlagsStep, CommandsStep DEF TypeOK
<1> QED
  BY InitTypes, <1>1, PTL DEF Spec

-----------------------------------------------------------------------------
(* The lock discipline.                                                    *)

\* Every step keeps the lock discipline: a lock is taken where it is free and
\* given back by the step that leaves the section.
LEMMA LocksStep ==
  ASSUME TypeOK, Locks, [Next]_vars
  PROVE  Locks'
<1>1. ASSUME NEW p \in Writers, EndWrite(p)
      PROVE  Locks'
  BY <1>1, DriveAssumption DEF EndWrite, Continue, At, Locks, Critical, TypeOK,
     Places, Commands, Holder, Setup, Step, lockVars, setupVars, recordVars,
     Down
<1>2. ASSUME OpenMedia
      PROVE  Locks'
  BY <1>2 DEF OpenMedia, Locks, Critical, lockVars, setupVars, recordVars, Down
<1>3. ASSUME ConnectionInfoSet
      PROVE  Locks'
  BY <1>3 DEF ConnectionInfoSet, Locks, Critical, lockVars, setupVars,
     recordVars, Down
<1>4. ASSUME ConnectionInfoFails
      PROVE  Locks'
  BY <1>4 DEF ConnectionInfoFails, Locks, Critical, lockVars, setupVars,
     recordVars, Down
<1>5. ASSUME RequestDrive
      PROVE  Locks'
  BY <1>5 DEF RequestDrive, KartAccepts, KartFails, Locks, Critical, lockVars,
     setupVars, recordVars, Down
<1>6. ASSUME DriveGranted
      PROVE  Locks'
  BY <1>6 DEF DriveGranted, Locks, Critical, lockVars, setupVars, recordVars,
     Down
<1>7. ASSUME NewSender
      PROVE  Locks'
  BY <1>7 DEF NewSender, Locks, Critical, lockVars, setupVars, recordVars, Down
<1>8. ASSUME PublishSender
      PROVE  Locks'
  BY <1>8, DriveAssumption DEF PublishSender, Stale, Locks, Critical, TypeOK,
     Places, Commands, Holder, Setup, Step, lockVars, setupVars, recordVars,
     Down
<1>9. ASSUME RecordSession
      PROVE  Locks'
  BY <1>9, DriveAssumption DEF RecordSession, Locks, Critical, TypeOK, Places,
     Commands, Holder, Setup, Step, lockVars, setupVars, recordVars, Down
<1>10. ASSUME FindStale
      PROVE  Locks'
  BY <1>10 DEF FindStale, Locks, Critical, lockVars, setupVars, recordVars,
     Down
<1>11. ASSUME CloseStale
      PROVE  Locks'
  BY <1>11 DEF CloseStale, Locks, Critical, lockVars, setupVars, recordVars,
     Down
<1>12. ASSUME TearDown
      PROVE  Locks'
  BY <1>12, DriveAssumption DEF TearDown, Locks, Critical, TypeOK, Places,
     Commands, Holder, Setup, Step, lockVars, setupVars, recordVars, Down
<1>13. ASSUME TearDownDisarms
      PROVE  Locks'
  BY <1>13, DriveAssumption DEF TearDownDisarms, Locks, Critical, TypeOK,
     Places, Commands, Holder, Setup, Step, lockVars, setupVars, recordVars,
     Down
<1>14. ASSUME TearDownCloses
      PROVE  Locks'
  BY <1>14, DriveAssumption DEF TearDownCloses, KartFails, Locks, Critical,
     TypeOK, Places, Commands, Holder, Setup, Step, lockVars, setupVars,
     recordVars, Down
<1>15. ASSUME NEW c \in Client, NEW on \in BOOLEAN, ResolveMode(c, on)
      PROVE  Locks'
  BY <1>15 DEF ResolveMode, Locks, Critical, lockVars, setupVars, recordVars,
     Down
<1>16. ASSUME NEW c \in Client, NEW a \in Axes, ResolveDrive(c, a)
      PROVE  Locks'
  BY <1>16 DEF ResolveDrive, Locks, Critical, lockVars, setupVars, recordVars,
     Down
<1>17. ASSUME NEW c \in Client, EnterMode(c)
      PROVE  Locks'
  BY <1>17, DriveAssumption DEF EnterMode, At, Returns, RefusesMode, Idle,
     Locks, Critical, TypeOK, Places, Commands, Holder, Setup, Step, lockVars,
     setupVars, recordVars, Down
<1>18. ASSUME NEW c \in Client, Mute(c)
      PROVE  Locks'
  BY <1>18 DEF Mute, At, Locks, Critical, lockVars, setupVars, recordVars, Down
<1>19. ASSUME NEW c \in Client, KartAnswers(c)
      PROVE  Locks'
  BY <1>19, DriveAssumption DEF KartAnswers, KartAccepts, KartFails, At, Locks,
     Critical, TypeOK, Places, Commands, Holder, Setup, Step, lockVars,
     setupVars, recordVars, Down
<1>20. ASSUME NEW c \in Client, LeaveMode(c)
      PROVE  Locks'
  BY <1>20, DriveAssumption DEF LeaveMode, Locks, Critical, TypeOK, Places,
     Commands, Holder, Setup, Step, lockVars, setupVars, recordVars, Down
<1>21. ASSUME NEW c \in Client, PublishArmed(c)
      PROVE  Locks'
  BY <1>21, DriveAssumption DEF PublishArmed, Returns, Idle, Locks, Critical,
     TypeOK, Places, Commands, Holder, Setup, Step, lockVars, setupVars,
     recordVars, Down
<1>22. ASSUME NEW c \in Client, EnterDrive(c)
      PROVE  Locks'
  BY <1>22, DriveAssumption DEF EnterDrive, Locks, Critical, TypeOK, Places,
     Commands, Holder, Setup, Step, lockVars, setupVars, recordVars, Down
<1>23. ASSUME NEW c \in Client, ReportDrive(c)
      PROVE  Locks'
  BY <1>23, DriveAssumption DEF ReportDrive, Returns, Idle, Locks, Critical,
     TypeOK, Places, Commands, Holder, Setup, Step, lockVars, setupVars,
     recordVars, Down
<1>24. ASSUME NEW c \in Client,
              ResolveFails(c)
      PROVE  Locks'
  BY <1>24 DEF ResolveFails, vars, Locks, Critical, lockVars, setupVars,
     recordVars, Down
<1>25. ASSUME (\E p \in Writers : StartWrite(p)) \/ TelemetryArrives
              \/ UNCHANGED vars
      PROVE  Locks'
  BY <1>25 DEF StartWrite, TelemetryArrives, vars, Locks, Critical, lockVars,
     setupVars, recordVars, Down
<1>26. ASSUME TearDownReleases
      PROVE  Locks'
  BY <1>26, DriveAssumption DEF TearDownReleases, Locks, Critical, TypeOK,
     Places, Commands, Holder, Setup, Step, lockVars, setupVars, sendVars,
     recordVars, Down
<1>27. ASSUME TearDownSleeps
      PROVE  Locks'
  BY <1>27, DriveAssumption DEF TearDownSleeps, KartAccepts, KartFails, Locks,
     Critical, TypeOK, Places, Commands, Holder, Setup, Step, lockVars,
     setupVars, sendVars, recordVars, Down
<1> QED
  BY <1>1, <1>2, <1>3, <1>4, <1>5, <1>6, <1>7, <1>8, <1>9, <1>10, <1>11, <1>12,
     <1>13, <1>14, <1>15, <1>16, <1>17, <1>18, <1>19, <1>20, <1>21, <1>22,
     <1>23, <1>24, <1>25, <1>26, <1>27 DEF Next, SetupStep, CallStep

\* Every step keeps each writer where it was while its packet is under way.
LEMMA WritersStep ==
  ASSUME TypeOK, Locks, WriterWaits, [Next]_vars
  PROVE  WriterWaits'
<1>1. ASSUME NEW p \in Writers, StartWrite(p)
      PROVE  WriterWaits'
  BY <1>1, DriveAssumption DEF StartWrite, WantsToWrite, WriterWaits, TypeOK,
     Places, Commands, Holder, Setup, Step, setupVars, sendVars, packetVars
<1>2. ASSUME NEW p \in Writers, EndWrite(p)
      PROVE  WriterWaits'
  BY <1>2 DEF EndWrite, Continue, WriterWaits, setupVars, sendVars, packetVars
<1>3. ASSUME OpenMedia
      PROVE  WriterWaits'
  BY <1>3 DEF OpenMedia, WriterWaits, setupVars, sendVars, packetVars
<1>4. ASSUME ConnectionInfoSet
      PROVE  WriterWaits'
  BY <1>4 DEF ConnectionInfoSet, WriterWaits, setupVars, sendVars, packetVars
<1>5. ASSUME ConnectionInfoFails
      PROVE  WriterWaits'
  BY <1>5 DEF ConnectionInfoFails, WriterWaits, setupVars, sendVars,
     packetVars
<1>6. ASSUME RequestDrive
      PROVE  WriterWaits'
  BY <1>6 DEF RequestDrive, KartAccepts, KartFails, WriterWaits, setupVars,
     sendVars, packetVars
<1>7. ASSUME DriveGranted
      PROVE  WriterWaits'
  BY <1>7 DEF DriveGranted, WriterWaits, setupVars, sendVars, packetVars
<1>8. ASSUME NewSender
      PROVE  WriterWaits'
  BY <1>8 DEF NewSender, WriterWaits, setupVars, sendVars, packetVars
<1>9. ASSUME PublishSender
      PROVE  WriterWaits'
  BY <1>9 DEF PublishSender, WriterWaits, setupVars, sendVars, packetVars
<1>10. ASSUME RecordSession
      PROVE  WriterWaits'
  BY <1>10 DEF RecordSession, WriterWaits, setupVars, sendVars, packetVars
<1>11. ASSUME FindStale
      PROVE  WriterWaits'
  BY <1>11 DEF FindStale, WriterWaits, setupVars, sendVars, packetVars
<1>12. ASSUME CloseStale
      PROVE  WriterWaits'
  BY <1>12 DEF CloseStale, WriterWaits, setupVars, sendVars, packetVars
<1>13. ASSUME TearDownDisarms
      PROVE  WriterWaits'
  BY <1>13 DEF TearDownDisarms, WriterWaits, setupVars, sendVars, packetVars
<1>14. ASSUME TearDownCloses
      PROVE  WriterWaits'
  BY <1>14 DEF TearDownCloses, KartFails, WriterWaits, setupVars, sendVars,
     packetVars
<1>15. ASSUME NEW c \in Client, NEW on \in BOOLEAN, ResolveMode(c, on)
      PROVE  WriterWaits'
  BY <1>15 DEF ResolveMode, WriterWaits, setupVars, sendVars, packetVars
<1>16. ASSUME NEW c \in Client, NEW a \in Axes, ResolveDrive(c, a)
      PROVE  WriterWaits'
  BY <1>16 DEF ResolveDrive, WriterWaits, setupVars, sendVars, packetVars
<1>17. ASSUME NEW c \in Client, EnterMode(c)
      PROVE  WriterWaits'
  BY <1>17, DriveAssumption DEF EnterMode, At, Returns, RefusesMode, Idle,
     WriterWaits, TypeOK, Places, Commands, Holder, Setup, Step, setupVars,
     sendVars, packetVars
<1>18. ASSUME NEW c \in Client, Mute(c)
      PROVE  WriterWaits'
  BY <1>18 DEF Mute, At, WriterWaits, setupVars, sendVars, packetVars
<1>19. ASSUME NEW c \in Client, KartAnswers(c)
      PROVE  WriterWaits'
  BY <1>19, DriveAssumption DEF KartAnswers, KartAccepts, KartFails, At,
     WriterWaits, TypeOK, Places, Commands, Holder, Setup, Step, setupVars,
     sendVars, packetVars
<1>20. ASSUME NEW c \in Client, LeaveMode(c)
      PROVE  WriterWaits'
  BY <1>20, DriveAssumption DEF LeaveMode, WriterWaits, TypeOK, Places,
     Commands, Holder, Setup, Step, setupVars, sendVars, packetVars
<1>21. ASSUME NEW c \in Client, PublishArmed(c)
      PROVE  WriterWaits'
  BY <1>21 DEF PublishArmed, Returns, WriterWaits, setupVars, sendVars,
     packetVars
<1>22. ASSUME NEW c \in Client, EnterDrive(c)
      PROVE  WriterWaits'
  BY <1>22, DriveAssumption DEF EnterDrive, WriterWaits, TypeOK, Places,
     Commands, Holder, Setup, Step, setupVars, sendVars, packetVars
<1>23. ASSUME NEW c \in Client, ReportDrive(c)
      PROVE  WriterWaits'
  BY <1>23 DEF ReportDrive, Returns, WriterWaits, setupVars, sendVars,
     packetVars
<1>24. ASSUME NEW c \in Client,
              ResolveFails(c)
      PROVE  WriterWaits'
  BY <1>24 DEF ResolveFails, vars, WriterWaits, setupVars, sendVars,
     packetVars
<1>25. ASSUME TearDown \/ TelemetryArrives \/ UNCHANGED vars
      PROVE  WriterWaits'
  BY <1>25 DEF TearDown, TelemetryArrives, vars, WriterWaits, setupVars,
     sendVars, packetVars
<1>26. ASSUME TearDownReleases
      PROVE  WriterWaits'
  BY <1>26 DEF TearDownReleases, WriterWaits, setupVars, sendVars, packetVars
<1>27. ASSUME TearDownSleeps
      PROVE  WriterWaits'
  BY <1>27 DEF TearDownSleeps, KartAccepts, KartFails, WriterWaits, setupVars,
     sendVars, packetVars
<1> QED
  BY <1>1, <1>2, <1>3, <1>4, <1>5, <1>6, <1>7, <1>8, <1>9, <1>10, <1>11, <1>12,
     <1>13, <1>14, <1>15, <1>16, <1>17, <1>18, <1>19, <1>20, <1>21, <1>22,
     <1>23, <1>24, <1>25, <1>26, <1>27 DEF Next, SetupStep, CallStep

-----------------------------------------------------------------------------
(* The sender, the session and the mode.                                   *)

\* Every step keeps the sender where the setup, the publication and the
\* teardown have brought it.
LEMMA SenderStep ==
  ASSUME TypeOK, Locks, WriterWaits, SenderLives, SessionLives, ModeInv, [Next]_vars
  PROVE  SenderLives'
<1>1. ASSUME NEW p \in Writers, EndWrite(p)
      PROVE  SenderLives'
  BY <1>1, DriveAssumption DEF EndWrite, Continue, At, SenderLives,
     Unpublished, Ungranted, TypeOK, Places, Commands, Holder, Setup, Step,
     Locks, Critical, lockVars, recordVars, setupVars, driveVars, sendVars
<1>2. ASSUME OpenMedia
      PROVE  SenderLives'
  BY <1>2 DEF OpenMedia, SenderLives, Unpublished, Ungranted, lockVars,
     recordVars, setupVars, driveVars, sendVars
<1>3. ASSUME ConnectionInfoSet
      PROVE  SenderLives'
  BY <1>3 DEF ConnectionInfoSet, SenderLives, Unpublished, Ungranted,
     lockVars, recordVars, setupVars, driveVars, sendVars
<1>4. ASSUME ConnectionInfoFails
      PROVE  SenderLives'
  BY <1>4 DEF ConnectionInfoFails, SenderLives, Unpublished, Ungranted,
     lockVars, recordVars, setupVars, driveVars, sendVars
<1>5. ASSUME RequestDrive
      PROVE  SenderLives'
  BY <1>5 DEF RequestDrive, KartAccepts, KartFails, SenderLives, Unpublished,
     Ungranted, lockVars, recordVars, setupVars, driveVars, sendVars
<1>6. ASSUME DriveGranted
      PROVE  SenderLives'
  BY <1>6 DEF DriveGranted, SenderLives, Unpublished, Ungranted, lockVars,
     recordVars, setupVars, driveVars, sendVars
<1>7. ASSUME NewSender
      PROVE  SenderLives'
  BY <1>7 DEF NewSender, SenderLives, Unpublished, Ungranted, lockVars,
     recordVars, setupVars, driveVars, sendVars
<1>8. ASSUME PublishSender
      PROVE  SenderLives'
  BY <1>8, DriveAssumption DEF PublishSender, Stale, SenderLives, SessionLives,
     Unpublished, Ungranted, TypeOK, Places, Commands, Holder, Setup, Step,
     lockVars, recordVars, setupVars, driveVars, sendVars
<1>9. ASSUME RecordSession
      PROVE  SenderLives'
  BY <1>9 DEF RecordSession, SenderLives, Unpublished, Ungranted, lockVars,
     recordVars, setupVars, driveVars, sendVars
<1>10. ASSUME FindStale
      PROVE  SenderLives'
  BY <1>10 DEF FindStale, SenderLives, Unpublished, Ungranted, lockVars,
     recordVars, setupVars, driveVars, sendVars
<1>11. ASSUME CloseStale
      PROVE  SenderLives'
  BY <1>11 DEF CloseStale, SenderLives, Unpublished, Ungranted, lockVars,
     recordVars, setupVars, driveVars, sendVars
<1>12. ASSUME TearDownDisarms
      PROVE  SenderLives'
  BY <1>12, DriveAssumption DEF TearDownDisarms, SenderLives, Unpublished,
     Ungranted, TypeOK, Places, Commands, Holder, Setup, Step, Locks,
     Critical, SessionLives, ModeInv, Changing, lockVars, recordVars,
     setupVars, driveVars, sendVars
<1>13. ASSUME TearDownCloses
      PROVE  SenderLives'
  BY <1>13, DriveAssumption DEF TearDownCloses, KartFails, SenderLives,
     Unpublished, Ungranted, TypeOK, Places, Commands, Holder, Setup, Step,
     Locks, Critical, SessionLives, ModeInv, Changing, lockVars, recordVars,
     setupVars, driveVars, sendVars
<1>14. ASSUME NEW c \in Client, EnterMode(c)
      PROVE  SenderLives'
  BY <1>14, DriveAssumption DEF EnterMode, At, Returns, RefusesMode, Idle,
     SenderLives, Unpublished, Ungranted, TypeOK, Places, Commands, Holder,
     Setup, Step, lockVars, recordVars, setupVars, driveVars, sendVars
<1>15. ASSUME NEW c \in Client, Mute(c)
      PROVE  SenderLives'
  BY <1>15, DriveAssumption DEF Mute, At, SenderLives, Unpublished, Ungranted,
     TypeOK, Places, Commands, Holder, Setup, Step, Locks, Critical, lockVars,
     recordVars, setupVars, driveVars, sendVars
<1>16. ASSUME NEW c \in Client, KartAnswers(c)
      PROVE  SenderLives'
  BY <1>16, DriveAssumption DEF KartAnswers, KartAccepts, KartFails, At,
     SenderLives, Unpublished, Ungranted, TypeOK, Places, Commands, Holder,
     Setup, Step, Flags, Locks, Critical, SessionLives, ModeInv, Changing,
     WriterWaits, Packet, Writers, lockVars, recordVars, setupVars, driveVars,
     sendVars
<1>17. ASSUME NEW c \in Client, LeaveMode(c)
      PROVE  SenderLives'
  BY <1>17, DriveAssumption DEF LeaveMode, SenderLives, Unpublished,
     Ungranted, TypeOK, Places, Commands, Holder, Setup, Step, Locks,
     Critical, lockVars, recordVars, setupVars, driveVars, sendVars
<1>18. ASSUME NEW c \in Client, EnterDrive(c)
      PROVE  SenderLives'
  BY <1>18, DriveAssumption DEF EnterDrive, SenderLives, Unpublished,
     Ungranted, TypeOK, Places, Commands, Holder, Setup, Step, lockVars,
     recordVars, setupVars, driveVars, sendVars
<1>19. ASSUME NEW c \in Client,
              (\E on \in BOOLEAN : ResolveMode(c, on))
              \/ (\E a \in Axes : ResolveDrive(c, a)) \/ ResolveFails(c)
              \/ PublishArmed(c) \/ ReportDrive(c)
      PROVE  SenderLives'
  BY <1>19 DEF ResolveMode, ResolveDrive, ResolveFails, vars, PublishArmed,
     ReportDrive, SenderLives, Unpublished, Ungranted, lockVars, recordVars,
     setupVars, driveVars, sendVars
<1>20. ASSUME (\E p \in Writers : StartWrite(p)) \/ TearDown
              \/ TelemetryArrives \/ UNCHANGED vars
      PROVE  SenderLives'
  BY <1>20 DEF StartWrite, TearDown, TelemetryArrives, vars, SenderLives,
     Unpublished, Ungranted, lockVars, recordVars, setupVars, driveVars,
     sendVars
<1>21. ASSUME TearDownReleases
      PROVE  SenderLives'
  BY <1>21, DriveAssumption DEF TearDownReleases, SenderLives, Unpublished,
     Ungranted, TypeOK, Places, Commands, Holder, Setup, Step, Locks, Critical,
     SessionLives, ModeInv, Changing, lockVars, recordVars, setupVars,
     driveVars, sendVars, Down
<1>22. ASSUME TearDownSleeps
      PROVE  SenderLives'
  BY <1>22, DriveAssumption DEF TearDownSleeps, KartAccepts, KartFails,
     SenderLives, Unpublished, Ungranted, TypeOK, Places, Commands, Holder,
     Setup, Step, Locks, Critical, SessionLives, ModeInv, Changing, lockVars,
     recordVars, setupVars, driveVars, sendVars, Down
<1> QED
  BY <1>1, <1>2, <1>3, <1>4, <1>5, <1>6, <1>7, <1>8, <1>9, <1>10, <1>11, <1>12,
     <1>13, <1>14, <1>15, <1>16, <1>17, <1>18, <1>19, <1>20, <1>21, <1>22 DEF
     Next, SetupStep, CallStep

\* Every step keeps what the session holds where the setup and the teardown
\* have brought it.
LEMMA SessionStep ==
  ASSUME TypeOK, Locks, SenderLives, SessionLives, [Next]_vars
  PROVE  SessionLives'
<1>1. ASSUME NEW p \in Writers, EndWrite(p)
      PROVE  SessionLives'
  BY <1>1 DEF EndWrite, Continue, SessionLives, lockVars, recordVars,
     setupVars, sendVars, SleepSent
<1>2. ASSUME OpenMedia
      PROVE  SessionLives'
  BY <1>2 DEF OpenMedia, SessionLives, lockVars, recordVars, setupVars,
     sendVars, SleepSent
<1>3. ASSUME ConnectionInfoSet
      PROVE  SessionLives'
  BY <1>3 DEF ConnectionInfoSet, SessionLives, lockVars, recordVars, setupVars,
     sendVars, SleepSent
<1>4. ASSUME ConnectionInfoFails
      PROVE  SessionLives'
  BY <1>4 DEF ConnectionInfoFails, SessionLives, lockVars, recordVars,
     setupVars, sendVars, SleepSent
<1>5. ASSUME RequestDrive
      PROVE  SessionLives'
  BY <1>5 DEF RequestDrive, KartAccepts, KartFails, SessionLives, lockVars,
     recordVars, setupVars, sendVars, SleepSent
<1>6. ASSUME DriveGranted
      PROVE  SessionLives'
  BY <1>6 DEF DriveGranted, SessionLives, lockVars, recordVars, setupVars,
     sendVars, SleepSent
<1>7. ASSUME NewSender
      PROVE  SessionLives'
  BY <1>7 DEF NewSender, SessionLives, lockVars, recordVars, setupVars,
     sendVars, SleepSent
<1>8. ASSUME PublishSender
      PROVE  SessionLives'
  BY <1>8, DriveAssumption DEF PublishSender, Stale, SessionLives, TypeOK,
     Places, Commands, Holder, Setup, Step, lockVars, recordVars, setupVars,
     sendVars, SleepSent
<1>9. ASSUME RecordSession
      PROVE  SessionLives'
  BY <1>9, DriveAssumption DEF RecordSession, SessionLives, TypeOK, Places,
     Commands, Holder, Setup, Step, lockVars, recordVars, setupVars, sendVars,
     SleepSent
<1>10. ASSUME FindStale
      PROVE  SessionLives'
  BY <1>10 DEF FindStale, SessionLives, lockVars, recordVars, setupVars,
     sendVars, SleepSent
<1>11. ASSUME CloseStale
      PROVE  SessionLives'
  BY <1>11, DriveAssumption DEF CloseStale, SessionLives, TypeOK, Places,
     Commands, Holder, Setup, Step, Flags, Locks, Critical, SenderLives,
     Unpublished, Ungranted, lockVars, recordVars, setupVars, sendVars,
     SleepSent
<1>12. ASSUME TearDown
      PROVE  SessionLives'
  BY <1>12, DriveAssumption DEF TearDown, SessionLives, TypeOK, Places,
     Commands, Holder, Setup, Step, Flags, Locks, Critical, SenderLives,
     Unpublished, Ungranted, lockVars, recordVars, setupVars, sendVars,
     SleepSent
<1>13. ASSUME TearDownDisarms
      PROVE  SessionLives'
  BY <1>13, DriveAssumption DEF TearDownDisarms, SessionLives, TypeOK, Places,
     Commands, Holder, Setup, Step, Flags, Locks, Critical, SenderLives,
     Unpublished, Ungranted, lockVars, recordVars, setupVars, sendVars,
     SleepSent
<1>14. ASSUME TearDownCloses
      PROVE  SessionLives'
  BY <1>14, DriveAssumption DEF TearDownCloses, KartFails, SessionLives,
     TypeOK, Places, Commands, Holder, Setup, Step, Flags, Locks, Critical,
     SenderLives, Unpublished, Ungranted, lockVars, recordVars, setupVars,
     sendVars, SleepSent
<1>15. ASSUME NEW c \in Client,
              (\E on \in BOOLEAN : ResolveMode(c, on))
              \/ (\E a \in Axes : ResolveDrive(c, a)) \/ ResolveFails(c)
              \/ EnterMode(c) \/ Mute(c)
      PROVE  SessionLives'
  <2>1. UNCHANGED <<setup, down, tracked, cancelled, mmu, conn, media, sender>>
    BY <1>15 DEF ResolveMode, ResolveDrive, ResolveFails, vars, EnterMode,
       Mute, lockVars, recordVars, setupVars, sendVars, SleepSent
  <2> QED
    BY <2>1 DEF SessionLives, SleepSent
<1>16. ASSUME NEW c \in Client,
              KartAnswers(c) \/ LeaveMode(c) \/ PublishArmed(c)
              \/ EnterDrive(c) \/ ReportDrive(c)
      PROVE  SessionLives'
  BY <1>16 DEF KartAnswers, KartAccepts, KartFails, LeaveMode, PublishArmed,
     EnterDrive, ReportDrive, SessionLives, lockVars, recordVars, setupVars,
     sendVars, SleepSent
<1>17. ASSUME (\E p \in Writers : StartWrite(p)) \/ TelemetryArrives
              \/ UNCHANGED vars
      PROVE  SessionLives'
  BY <1>17 DEF StartWrite, TelemetryArrives, vars, SessionLives, lockVars,
     recordVars, setupVars, sendVars, SleepSent
<1>18. ASSUME TearDownReleases
      PROVE  SessionLives'
  BY <1>18, DriveAssumption DEF TearDownReleases, SessionLives, SleepSent,
     TypeOK, Places, Commands, Holder, Setup, Step, Flags, Locks, Critical,
     SenderLives, Unpublished, Ungranted, lockVars, recordVars, setupVars,
     sendVars, Down
<1>19. ASSUME TearDownSleeps
      PROVE  SessionLives'
  BY <1>19, DriveAssumption DEF TearDownSleeps, KartAccepts, KartFails,
     SessionLives, SleepSent, TypeOK, Places, Commands, Holder, Setup, Step,
     Flags, Locks, Critical, SenderLives, Unpublished, Ungranted, lockVars,
     recordVars, setupVars, sendVars, Down
<1> QED
  BY <1>1, <1>2, <1>3, <1>4, <1>5, <1>6, <1>7, <1>8, <1>9, <1>10, <1>11, <1>12,
     <1>13, <1>14, <1>15, <1>16, <1>17, <1>18, <1>19 DEF Next, SetupStep,
     CallStep

\* Every step keeps the drive mode and the armed flag in agreement.
LEMMA ModeStep ==
  ASSUME TypeOK, Locks, SenderLives, SessionLives, ModeInv, [Next]_vars
  PROVE  ModeInv'
<1>1. ASSUME NEW p \in Writers, EndWrite(p)
      PROVE  ModeInv'
  BY <1>1, DriveAssumption DEF EndWrite, Continue, At, ModeInv, Changing,
     Ungranted, TypeOK, Places, Commands, Holder, Setup, Step, Locks,
     Critical, lockVars, setupVars, driveVars, sendVars
<1>2. ASSUME OpenMedia
      PROVE  ModeInv'
  BY <1>2 DEF OpenMedia, ModeInv, Changing, Ungranted, lockVars, setupVars,
     driveVars, sendVars
<1>3. ASSUME ConnectionInfoSet
      PROVE  ModeInv'
  BY <1>3 DEF ConnectionInfoSet, ModeInv, Changing, Ungranted, lockVars,
     setupVars, driveVars, sendVars
<1>4. ASSUME ConnectionInfoFails
      PROVE  ModeInv'
  BY <1>4 DEF ConnectionInfoFails, ModeInv, Changing, Ungranted, lockVars,
     setupVars, driveVars, sendVars
<1>5. ASSUME RequestDrive
      PROVE  ModeInv'
  BY <1>5 DEF RequestDrive, KartAccepts, KartFails, ModeInv, Changing,
     Ungranted, lockVars, setupVars, driveVars, sendVars
<1>6. ASSUME DriveGranted
      PROVE  ModeInv'
  BY <1>6, DriveAssumption DEF DriveGranted, ModeInv, Changing, Ungranted,
     TypeOK, Places, Commands, Holder, Setup, Step, Locks, Critical,
     SenderLives, Unpublished, lockVars, setupVars, driveVars, sendVars
<1>7. ASSUME NewSender
      PROVE  ModeInv'
  BY <1>7 DEF NewSender, ModeInv, Changing, Ungranted, lockVars, setupVars,
     driveVars, sendVars
<1>8. ASSUME PublishSender
      PROVE  ModeInv'
  BY <1>8, DriveAssumption DEF PublishSender, Stale, ModeInv, Changing,
     Ungranted, TypeOK, Places, Commands, Holder, Setup, Step, Locks,
     Critical, lockVars, setupVars, driveVars, sendVars
<1>9. ASSUME RecordSession
      PROVE  ModeInv'
  BY <1>9 DEF RecordSession, ModeInv, Changing, Ungranted, lockVars,
     setupVars, driveVars, sendVars
<1>10. ASSUME FindStale
      PROVE  ModeInv'
  BY <1>10 DEF FindStale, ModeInv, Changing, Ungranted, lockVars, setupVars,
     driveVars, sendVars
<1>11. ASSUME CloseStale
      PROVE  ModeInv'
  BY <1>11, DriveAssumption DEF CloseStale, ModeInv, Changing, Ungranted,
     TypeOK, Places, Commands, Holder, Setup, Step, Locks, Critical,
     SenderLives, Unpublished, lockVars, setupVars, driveVars, sendVars
<1>12. ASSUME TearDownDisarms
      PROVE  ModeInv'
  BY <1>12, DriveAssumption DEF TearDownDisarms, ModeInv, Changing, Ungranted,
     TypeOK, Places, Commands, Holder, Setup, Step, Locks, Critical,
     SenderLives, Unpublished, lockVars, setupVars, driveVars, sendVars
<1>13. ASSUME TearDownCloses
      PROVE  ModeInv'
  BY <1>13, DriveAssumption DEF TearDownCloses, KartFails, ModeInv, Changing,
     Ungranted, TypeOK, Places, Commands, Holder, Setup, Step, Locks,
     Critical, SenderLives, Unpublished, lockVars, setupVars, driveVars,
     sendVars
<1>14. ASSUME NEW c \in Client, NEW on \in BOOLEAN, ResolveMode(c, on)
      PROVE  ModeInv'
  BY <1>14 DEF ResolveMode, ModeInv, Changing, Ungranted, lockVars, setupVars,
     driveVars, sendVars
<1>15. ASSUME NEW c \in Client, NEW a \in Axes, ResolveDrive(c, a)
      PROVE  ModeInv'
  BY <1>15 DEF ResolveDrive, ModeInv, Changing, Ungranted, lockVars,
     setupVars, driveVars, sendVars
<1>16. ASSUME NEW c \in Client, EnterMode(c)
      PROVE  ModeInv'
  <2>1. /\ call[c].step = "mode" /\ dmu # "teardown"
        /\ UNCHANGED <<setup, driveMode, granted, sender, published, armed>>
    BY <1>16, DriveAssumption DEF EnterMode, setupVars, sendVars
  <2>2. CASE RefusesMode(call[c].on)
    <3>1. call' = [call EXCEPT ![c] = Idle] /\ UNCHANGED dmu
      BY <1>16, <2>2 DEF EnterMode, Returns
    <3> QED
      BY <2>1, <3>1 DEF ModeInv, Changing, Ungranted, Idle, TypeOK, Commands
  <2>3. CASE ~RefusesMode(call[c].on)
    <3>1. /\ driveMode # call[c].on
          /\ call[c].on => published
          /\ driveMode \in BOOLEAN /\ call[c].on \in BOOLEAN
      BY <2>3 DEF RefusesMode, TypeOK, Flags, Commands
    <3>2. setup \notin Ungranted
      BY <3>1 DEF ModeInv, SenderLives, Ungranted
    <3>3. PICK s \in {"neutral", "muted"} : call' = [call EXCEPT ![c].step = s]
      BY <1>16, <2>3 DEF EnterMode, At
    <3>4. dmu' = c /\ c # "teardown"
      BY <1>16, <2>3, DriveAssumption DEF EnterMode
    <3> QED
      BY <2>1, <3>1, <3>2, <3>3, <3>4
      DEF ModeInv, Changing, Ungranted, TypeOK, Commands
  <2> QED
    BY <2>2, <2>3
<1>17. ASSUME NEW c \in Client, Mute(c)
      PROVE  ModeInv'
  BY <1>17, DriveAssumption DEF Mute, At, ModeInv, Changing, Ungranted,
     TypeOK, Places, Commands, Holder, Setup, Step, Locks, Critical, lockVars,
     setupVars, driveVars, sendVars
<1>18. ASSUME NEW c \in Client, KartAnswers(c)
      PROVE  ModeInv'
  BY <1>18, DriveAssumption DEF KartAnswers, KartAccepts, KartFails, At,
     ModeInv, Changing, Ungranted, TypeOK, Places, Commands, Holder, Setup,
     Step, Flags, Locks, Critical, SenderLives, SessionLives, Unpublished,
     lockVars, setupVars, driveVars, sendVars
<1>19. ASSUME NEW c \in Client, LeaveMode(c)
      PROVE  ModeInv'
  BY <1>19, DriveAssumption DEF LeaveMode, ModeInv, Changing, Ungranted,
     TypeOK, Places, Commands, Holder, Setup, Step, Locks, Critical, lockVars,
     setupVars, driveVars, sendVars
<1>20. ASSUME NEW c \in Client, PublishArmed(c)
      PROVE  ModeInv'
  BY <1>20, DriveAssumption DEF PublishArmed, Returns, Idle, ModeInv,
     Changing, Ungranted, TypeOK, Places, Commands, Holder, Setup, Step,
     lockVars, setupVars, driveVars, sendVars
<1>21. ASSUME NEW c \in Client, EnterDrive(c)
      PROVE  ModeInv'
  BY <1>21, DriveAssumption DEF EnterDrive, ModeInv, Changing, Ungranted,
     TypeOK, Places, Commands, Holder, Setup, Step, lockVars, setupVars,
     driveVars, sendVars
<1>22. ASSUME NEW c \in Client, ReportDrive(c)
      PROVE  ModeInv'
  BY <1>22, DriveAssumption DEF ReportDrive, Returns, Idle, ModeInv, Changing,
     Ungranted, TypeOK, Places, Commands, Holder, Setup, Step, lockVars,
     setupVars, driveVars, sendVars
<1>23. ASSUME NEW c \in Client,
              ResolveFails(c)
      PROVE  ModeInv'
  BY <1>23 DEF ResolveFails, vars, ModeInv, Changing, Ungranted, lockVars,
     setupVars, driveVars, sendVars
<1>24. ASSUME (\E p \in Writers : StartWrite(p)) \/ TearDown
              \/ TelemetryArrives \/ UNCHANGED vars
      PROVE  ModeInv'
  BY <1>24 DEF StartWrite, TearDown, TelemetryArrives, vars, ModeInv,
     Changing, Ungranted, lockVars, setupVars, driveVars, sendVars
<1>25. ASSUME TearDownReleases
      PROVE  ModeInv'
  BY <1>25, DriveAssumption DEF TearDownReleases, ModeInv, Changing, Ungranted,
     TypeOK, Places, Commands, Holder, Setup, Step, Locks, Critical,
     SenderLives, Unpublished, lockVars, setupVars, driveVars, sendVars
<1>26. ASSUME TearDownSleeps
      PROVE  ModeInv'
  BY <1>26, DriveAssumption DEF TearDownSleeps, KartAccepts, KartFails,
     ModeInv, Changing, Ungranted, TypeOK, Places, Commands, Holder, Setup,
     Step, Locks, Critical, SenderLives, Unpublished, lockVars, setupVars,
     driveVars, sendVars
<1> QED
  BY <1>1, <1>2, <1>3, <1>4, <1>5, <1>6, <1>7, <1>8, <1>9, <1>10, <1>11, <1>12,
     <1>13, <1>14, <1>15, <1>16, <1>17, <1>18, <1>19, <1>20, <1>21, <1>22,
     <1>23, <1>24, <1>25, <1>26 DEF Next, SetupStep, CallStep

-----------------------------------------------------------------------------
(* The commands.                                                           *)

\* Every step keeps the axes neutral while a mode change is under way.
LEMMA NeutralStep ==
  ASSUME TypeOK, Locks, SenderLives, NeutralWhileChanging, [Next]_vars
  PROVE  NeutralWhileChanging'
<1>1. ASSUME NEW p \in Writers, EndWrite(p)
      PROVE  NeutralWhileChanging'
  BY <1>1, DriveAssumption DEF EndWrite, Continue, At, NeutralWhileChanging,
     Changing, TypeOK, Places, Commands, Holder, Setup, Step, driveVars,
     sendVars
<1>2. ASSUME PublishSender
      PROVE  NeutralWhileChanging'
  BY <1>2, DriveAssumption DEF PublishSender, Stale, NeutralWhileChanging,
     Changing, TypeOK, Places, Commands, Holder, Setup, Step, Locks, Critical,
     driveVars, sendVars
<1>3. ASSUME TearDownCloses
      PROVE  NeutralWhileChanging'
  BY <1>3 DEF TearDownCloses, KartFails, NeutralWhileChanging, Changing,
     driveVars, sendVars
<1>4. ASSUME NEW c \in Client, NEW on \in BOOLEAN, ResolveMode(c, on)
      PROVE  NeutralWhileChanging'
  BY <1>4 DEF ResolveMode, NeutralWhileChanging, Changing, driveVars, sendVars
<1>5. ASSUME NEW c \in Client, NEW a \in Axes, ResolveDrive(c, a)
      PROVE  NeutralWhileChanging'
  BY <1>5 DEF ResolveDrive, NeutralWhileChanging, Changing, driveVars,
     sendVars
<1>6. ASSUME NEW c \in Client, EnterMode(c)
      PROVE  NeutralWhileChanging'
  BY <1>6, DriveAssumption DEF EnterMode, At, Returns, RefusesMode, Idle,
     NeutralWhileChanging, Changing, TypeOK, Places, Commands, Holder, Setup,
     Step, driveVars, sendVars
<1>7. ASSUME NEW c \in Client, Mute(c)
      PROVE  NeutralWhileChanging'
  BY <1>7 DEF Mute, At, NeutralWhileChanging, Changing, driveVars, sendVars
<1>8. ASSUME NEW c \in Client, KartAnswers(c)
      PROVE  NeutralWhileChanging'
  BY <1>8 DEF KartAnswers, KartAccepts, KartFails, At, NeutralWhileChanging,
     Changing, driveVars, sendVars
<1>9. ASSUME NEW c \in Client, LeaveMode(c)
      PROVE  NeutralWhileChanging'
  BY <1>9, DriveAssumption DEF LeaveMode, NeutralWhileChanging, Changing,
     TypeOK, Places, Commands, Holder, Setup, Step, driveVars, sendVars
<1>10. ASSUME NEW c \in Client, PublishArmed(c)
      PROVE  NeutralWhileChanging'
  BY <1>10, DriveAssumption DEF PublishArmed, Returns, Idle,
     NeutralWhileChanging, Changing, TypeOK, Places, Commands, Holder, Setup,
     Step, driveVars, sendVars
<1>11. ASSUME NEW c \in Client, EnterDrive(c)
      PROVE  NeutralWhileChanging'
  BY <1>11, DriveAssumption DEF EnterDrive, NeutralWhileChanging, Changing,
     TypeOK, Places, Commands, Holder, Setup, Step, Locks, Critical,
     driveVars, sendVars
<1>12. ASSUME NEW c \in Client, ReportDrive(c)
      PROVE  NeutralWhileChanging'
  BY <1>12, DriveAssumption DEF ReportDrive, Returns, Idle,
     NeutralWhileChanging, Changing, TypeOK, Places, Commands, Holder, Setup,
     Step, driveVars, sendVars
<1>13. ASSUME OpenMedia \/ ConnectionInfoSet \/ ConnectionInfoFails
              \/ RequestDrive \/ DriveGranted
      PROVE  NeutralWhileChanging'
  BY <1>13 DEF OpenMedia, ConnectionInfoSet, ConnectionInfoFails,
     RequestDrive, KartAccepts, KartFails, DriveGranted, NeutralWhileChanging,
     Changing, driveVars, sendVars
<1>14. ASSUME NewSender \/ RecordSession \/ FindStale \/ CloseStale
      PROVE  NeutralWhileChanging'
  BY <1>14 DEF NewSender, RecordSession, FindStale, CloseStale,
     NeutralWhileChanging, Changing, driveVars, sendVars
<1>15. ASSUME NEW c \in Client,
              ResolveFails(c)
      PROVE  NeutralWhileChanging'
  BY <1>15 DEF ResolveFails, vars, NeutralWhileChanging, Changing, driveVars,
     sendVars
<1>16. ASSUME (\E p \in Writers : StartWrite(p)) \/ TearDown
              \/ TearDownDisarms \/ TelemetryArrives \/ UNCHANGED vars
      PROVE  NeutralWhileChanging'
  BY <1>16 DEF StartWrite, TearDown, TearDownDisarms, TelemetryArrives, vars,
     NeutralWhileChanging, Changing, driveVars, sendVars
<1>17. ASSUME TearDownReleases
      PROVE  NeutralWhileChanging'
  BY <1>17 DEF TearDownReleases, NeutralWhileChanging, Changing, driveVars,
     sendVars
<1>18. ASSUME TearDownSleeps
      PROVE  NeutralWhileChanging'
  BY <1>18 DEF TearDownSleeps, KartAccepts, KartFails, NeutralWhileChanging,
     Changing, driveVars, sendVars
<1> QED
  BY <1>1, <1>2, <1>3, <1>4, <1>5, <1>6, <1>7, <1>8, <1>9, <1>10, <1>11, <1>12,
     <1>13, <1>14, <1>15, <1>16, <1>17, <1>18 DEF Next, SetupStep, CallStep

\* Every step keeps the kart in the state the session believes.
LEMMA KartStep ==
  ASSUME TypeOK, Locks, SenderLives, SessionLives, ModeInv, KartInv, [Next]_vars
  PROVE  KartInv'
<1>1. ASSUME NEW p \in Writers, EndWrite(p)
      PROVE  KartInv'
  BY <1>1 DEF EndWrite, Continue, KartInv, setupVars, driveVars, SleepSent,
     recordVars
<1>2. ASSUME OpenMedia
      PROVE  KartInv'
  BY <1>2 DEF OpenMedia, KartInv, setupVars, driveVars, SleepSent, recordVars
<1>3. ASSUME ConnectionInfoSet
      PROVE  KartInv'
  BY <1>3 DEF ConnectionInfoSet, KartInv, setupVars, driveVars, SleepSent,
     recordVars
<1>4. ASSUME ConnectionInfoFails
      PROVE  KartInv'
  BY <1>4 DEF ConnectionInfoFails, KartInv, setupVars, driveVars, SleepSent,
     recordVars
<1>5. ASSUME RequestDrive
      PROVE  KartInv'
  BY <1>5 DEF RequestDrive, KartAccepts, KartFails, KartInv, setupVars,
     driveVars, SleepSent, recordVars
<1>6. ASSUME DriveGranted
      PROVE  KartInv'
  BY <1>6 DEF DriveGranted, KartInv, setupVars, driveVars, SleepSent,
     recordVars
<1>7. ASSUME NewSender
      PROVE  KartInv'
  BY <1>7 DEF NewSender, KartInv, setupVars, driveVars, SleepSent, recordVars
<1>8. ASSUME PublishSender
      PROVE  KartInv'
  BY <1>8 DEF PublishSender, KartInv, setupVars, driveVars, SleepSent,
     recordVars
<1>9. ASSUME RecordSession
      PROVE  KartInv'
  BY <1>9 DEF RecordSession, KartInv, setupVars, driveVars, SleepSent,
     recordVars
<1>10. ASSUME FindStale
      PROVE  KartInv'
  BY <1>10 DEF FindStale, KartInv, setupVars, driveVars, SleepSent, recordVars
<1>11. ASSUME CloseStale
      PROVE  KartInv'
  BY <1>11 DEF CloseStale, KartInv, setupVars, driveVars, SleepSent, recordVars
<1>12. ASSUME TearDownCloses
      PROVE  KartInv'
  BY <1>12 DEF TearDownCloses, KartFails, KartInv, setupVars, driveVars,
     SleepSent, recordVars
<1>13. ASSUME NEW c \in Client, Mute(c)
      PROVE  KartInv'
  BY <1>13 DEF Mute, At, KartInv, setupVars, driveVars, SleepSent, recordVars
<1>14. ASSUME NEW c \in Client, KartAnswers(c)
      PROVE  KartInv'
  <2>1. call[c].step = "state" /\ UNCHANGED <<setup, conn>>
    BY <1>14 DEF KartAnswers, setupVars, SleepSent, recordVars
  <2>2. ~driveMode /\ call[c].on \in BOOLEAN /\ setup # "granted"
    BY <2>1 DEF TypeOK, Places, Commands, ModeInv, Changing, Ungranted,
       SleepSent, recordVars
  <2>3. CASE driveMode' = call[c].on /\ kart' = IF call[c].on THEN 1 ELSE 0
    BY <2>1, <2>2, <2>3 DEF KartInv, SleepSent, recordVars
  <2>4. CASE driveMode' = driveMode
    BY <2>1, <2>2, <2>4 DEF KartInv, SleepSent, recordVars
  <2> QED
    BY <1>14, <2>3, <2>4 DEF KartAnswers, KartAccepts, SleepSent, recordVars
<1>15. ASSUME NEW c \in Client,
              (\E on \in BOOLEAN : ResolveMode(c, on))
              \/ (\E a \in Axes : ResolveDrive(c, a)) \/ ResolveFails(c)
              \/ EnterMode(c) \/ LeaveMode(c)
      PROVE  KartInv'
  BY <1>15 DEF ResolveMode, ResolveDrive, ResolveFails, vars, EnterMode,
     LeaveMode, KartInv, setupVars, driveVars, SleepSent, recordVars
<1>16. ASSUME NEW c \in Client,
              PublishArmed(c) \/ EnterDrive(c) \/ ReportDrive(c)
      PROVE  KartInv'
  BY <1>16 DEF PublishArmed, EnterDrive, ReportDrive, KartInv, setupVars,
     driveVars, SleepSent, recordVars
<1>17. ASSUME (\E p \in Writers : StartWrite(p)) \/ TearDownDisarms
              \/ TelemetryArrives \/ UNCHANGED vars
      PROVE  KartInv'
  BY <1>17 DEF StartWrite, TearDownDisarms, TelemetryArrives, vars, KartInv,
     setupVars, driveVars, SleepSent, recordVars
<1>18. ASSUME TearDownReleases
      PROVE  KartInv'
  BY <1>18 DEF TearDownReleases, KartInv, SleepSent, setupVars, driveVars
<1>19. ASSUME TearDownSleeps
      PROVE  KartInv'
  BY <1>19 DEF TearDownSleeps, KartInv, SleepSent
<1>20. ASSUME TearDown
      PROVE  KartInv'
  <2>1. ~SleepSent
    BY <1>20, DriveAssumption DEF TearDown, Locks, SessionLives, SleepSent, Down
  <2> QED
    BY <1>20, <2>1 DEF TearDown, KartInv, setupVars, driveVars
<1> QED
  BY <1>1, <1>2, <1>3, <1>4, <1>5, <1>6, <1>7, <1>8, <1>9, <1>10, <1>11, <1>12,
     <1>13, <1>14, <1>15, <1>16, <1>17, <1>18, <1>19, <1>20 DEF Next,
     SetupStep, CallStep

\* Every step leaves a sender the session does not know with neutral axes.
LEMMA StillStep ==
  ASSUME TypeOK, SenderLives, StandsStill, [Next]_vars
  PROVE  StandsStill'
<1>1. ASSUME NEW p \in Writers, StartWrite(p)
      PROVE  StandsStill'
  BY <1>1 DEF StartWrite, StandsStill, SenderLives, driveVars, sendVars
<1>2. ASSUME NEW p \in Writers, EndWrite(p)
      PROVE  StandsStill'
  BY <1>2 DEF EndWrite, StandsStill, driveVars, sendVars
<1>3. ASSUME NewSender \/ FindStale \/ CloseStale
      PROVE  StandsStill'
  BY <1>3 DEF NewSender, FindStale, CloseStale, StandsStill, SenderLives,
     Unpublished, driveVars, sendVars, packetVars
<1>4. ASSUME PublishSender
      PROVE  StandsStill'
  BY <1>4 DEF PublishSender, StandsStill, SenderLives, packetVars
<1>5. ASSUME OpenMedia \/ ConnectionInfoSet \/ ConnectionInfoFails
             \/ RequestDrive \/ DriveGranted \/ RecordSession
      PROVE  StandsStill'
  BY <1>5 DEF OpenMedia, ConnectionInfoSet, ConnectionInfoFails, RequestDrive,
     DriveGranted, RecordSession, StandsStill, driveVars, sendVars, packetVars
<1>6. ASSUME TearDownDisarms \/ TearDownReleases
      PROVE  StandsStill'
  BY <1>6 DEF TearDownDisarms, TearDownReleases, StandsStill, driveVars,
     sendVars, packetVars
<1>7. ASSUME TearDown \/ TearDownSleeps \/ TearDownCloses \/ TelemetryArrives
             \/ UNCHANGED vars
      PROVE  StandsStill'
  BY <1>7 DEF TearDown, TearDownSleeps, TearDownCloses, TelemetryArrives, vars,
     StandsStill, driveVars, sendVars, packetVars
<1>8. ASSUME NEW c \in Client, EnterMode(c) \/ EnterDrive(c)
      PROVE  StandsStill'
  BY <1>8 DEF EnterMode, EnterDrive, StandsStill, driveVars, sendVars, packetVars
<1>9. ASSUME NEW c \in Client,
             (\E on \in BOOLEAN : ResolveMode(c, on))
             \/ (\E a \in Axes : ResolveDrive(c, a)) \/ ResolveFails(c)
             \/ Mute(c) \/ KartAnswers(c) \/ LeaveMode(c) \/ PublishArmed(c)
             \/ ReportDrive(c)
      PROVE  StandsStill'
  BY <1>9 DEF ResolveMode, ResolveDrive, ResolveFails, vars, Mute, KartAnswers,
     LeaveMode, PublishArmed, ReportDrive, StandsStill, driveVars, sendVars,
     packetVars
<1> QED
  BY <1>1, <1>2, <1>3, <1>4, <1>5, <1>6, <1>7, <1>8, <1>9 DEF Next, SetupStep,
     CallStep

\* Every step that changes one copy of a command changes the other.
LEMMA SyncStep ==
  ASSUME TypeOK, SenderLives, InSync, [Next]_vars
  PROVE  InSync'
<1>1. ASSUME PublishSender
      PROVE  InSync'
  BY <1>1 DEF PublishSender, InSync, driveVars, sendVars
<1>2. ASSUME TearDownCloses
      PROVE  InSync'
  BY <1>2 DEF TearDownCloses, KartFails, InSync, driveVars, sendVars
<1>3. ASSUME NEW c \in Client, EnterMode(c)
      PROVE  InSync'
  BY <1>3 DEF EnterMode, At, Returns, InSync, driveVars, sendVars
<1>4. ASSUME NEW c \in Client, EnterDrive(c)
      PROVE  InSync'
  BY <1>4 DEF EnterDrive, InSync, driveVars, sendVars
<1>5. ASSUME OpenMedia \/ ConnectionInfoSet \/ ConnectionInfoFails
             \/ RequestDrive \/ DriveGranted
      PROVE  InSync'
  BY <1>5 DEF OpenMedia, ConnectionInfoSet, ConnectionInfoFails, RequestDrive,
     KartAccepts, KartFails, DriveGranted, InSync, driveVars, sendVars
<1>6. ASSUME NewSender \/ RecordSession \/ FindStale \/ CloseStale
      PROVE  InSync'
  BY <1>6 DEF NewSender, RecordSession, FindStale, CloseStale, InSync,
     driveVars, sendVars
<1>7. ASSUME NEW c \in Client,
             (\E on \in BOOLEAN : ResolveMode(c, on))
             \/ (\E a \in Axes : ResolveDrive(c, a)) \/ ResolveFails(c)
             \/ Mute(c) \/ KartAnswers(c)
      PROVE  InSync'
  BY <1>7 DEF ResolveMode, ResolveDrive, ResolveFails, vars, Mute,
     KartAnswers, KartAccepts, KartFails, InSync, driveVars, sendVars
<1>8. ASSUME NEW c \in Client,
             LeaveMode(c) \/ PublishArmed(c) \/ ReportDrive(c)
      PROVE  InSync'
  BY <1>8 DEF LeaveMode, PublishArmed, ReportDrive, InSync, driveVars,
     sendVars
<1>9. ASSUME (\E p \in Writers : StartWrite(p))
             \/ (\E p \in Writers : EndWrite(p)) \/ TearDown
             \/ TearDownDisarms \/ TelemetryArrives
      PROVE  InSync'
  BY <1>9 DEF StartWrite, EndWrite, TearDown, TearDownDisarms,
     TelemetryArrives, InSync, driveVars, sendVars
<1>10. ASSUME UNCHANGED vars
      PROVE  InSync'
  BY <1>10 DEF vars, InSync, driveVars, sendVars
<1>11. ASSUME TearDownReleases \/ TearDownSleeps
      PROVE  InSync'
  BY <1>11 DEF TearDownReleases, TearDownSleeps, KartAccepts, KartFails,
     InSync, driveVars, sendVars
<1> QED
  BY <1>1, <1>2, <1>3, <1>4, <1>5, <1>6, <1>7, <1>8, <1>9, <1>10, <1>11 DEF
     Next, SetupStep, CallStep

\* Every step keeps the newest command on its way to the wire.
LEMMA LatestStep ==
  ASSUME TypeOK, Locks, WriterWaits, SenderLives, ModeInv, Latest, [Next]_vars
  PROVE  Latest'
<1>1. ASSUME NEW p \in Writers, StartWrite(p)
      PROVE  Latest'
  BY <1>1 DEF StartWrite, Latest, Pending, setupVars, sendVars, packetVars
<1>2. ASSUME NEW p \in Writers, EndWrite(p)
      PROVE  Latest'
  BY <1>2, DriveAssumption DEF EndWrite, Continue, At, Latest, Pending,
     TypeOK, Places, Commands, Holder, Setup, Step, Packet, Writers,
     setupVars, sendVars, packetVars
<1>3. ASSUME OpenMedia
      PROVE  Latest'
  BY <1>3 DEF OpenMedia, Latest, Pending, setupVars, sendVars, packetVars
<1>4. ASSUME ConnectionInfoSet
      PROVE  Latest'
  BY <1>4 DEF ConnectionInfoSet, Latest, Pending, setupVars, sendVars,
     packetVars
<1>5. ASSUME ConnectionInfoFails
      PROVE  Latest'
  BY <1>5 DEF ConnectionInfoFails, Latest, Pending, setupVars, sendVars,
     packetVars
<1>6. ASSUME RequestDrive
      PROVE  Latest'
  BY <1>6 DEF RequestDrive, KartAccepts, KartFails, Latest, Pending,
     setupVars, sendVars, packetVars
<1>7. ASSUME DriveGranted
      PROVE  Latest'
  BY <1>7 DEF DriveGranted, Latest, Pending, setupVars, sendVars, packetVars
<1>8. ASSUME NewSender
      PROVE  Latest'
  BY <1>8 DEF NewSender, Latest, Pending, setupVars, sendVars, packetVars
<1>9. ASSUME PublishSender
      PROVE  Latest'
  BY <1>9, DriveAssumption DEF PublishSender, Stale, Latest, Pending, TypeOK,
     Places, Commands, Holder, Setup, Step, Packet, Writers, Locks, Critical,
     WriterWaits, SenderLives, Unpublished, Ungranted, setupVars, sendVars,
     packetVars
<1>10. ASSUME RecordSession
      PROVE  Latest'
  BY <1>10 DEF RecordSession, Latest, Pending, setupVars, sendVars, packetVars
<1>11. ASSUME FindStale
      PROVE  Latest'
  BY <1>11 DEF FindStale, Latest, Pending, setupVars, sendVars, packetVars
<1>12. ASSUME CloseStale
      PROVE  Latest'
  BY <1>12 DEF CloseStale, Latest, Pending, setupVars, sendVars, packetVars
<1>13. ASSUME TearDownDisarms
      PROVE  Latest'
  BY <1>13 DEF TearDownDisarms, Latest, Pending, setupVars, sendVars,
     packetVars
<1>14. ASSUME NEW c \in Client, NEW on \in BOOLEAN, ResolveMode(c, on)
      PROVE  Latest'
  BY <1>14 DEF ResolveMode, Latest, Pending, setupVars, sendVars, packetVars
<1>15. ASSUME NEW c \in Client, NEW a \in Axes, ResolveDrive(c, a)
      PROVE  Latest'
  BY <1>15 DEF ResolveDrive, Latest, Pending, setupVars, sendVars, packetVars
<1>16. ASSUME NEW c \in Client, EnterMode(c)
      PROVE  Latest'
  BY <1>16, DriveAssumption DEF EnterMode, At, Returns, RefusesMode, Idle,
     Latest, Pending, TypeOK, Places, Commands, Holder, Setup, Step, Packet,
     Writers, Locks, Critical, WriterWaits, SenderLives, Unpublished,
     Ungranted, setupVars, sendVars, packetVars
<1>17. ASSUME NEW c \in Client, Mute(c)
      PROVE  Latest'
  BY <1>17 DEF Mute, At, Latest, Pending, setupVars, sendVars, packetVars
<1>18. ASSUME NEW c \in Client, KartAnswers(c)
      PROVE  Latest'
  BY <1>18, DriveAssumption DEF KartAnswers, KartAccepts, KartFails, At,
     Latest, Pending, TypeOK, Places, Commands, Holder, Setup, Step, Packet,
     Writers, setupVars, sendVars, packetVars
<1>19. ASSUME NEW c \in Client, LeaveMode(c)
      PROVE  Latest'
  BY <1>19, DriveAssumption DEF LeaveMode, Latest, Pending, TypeOK, Places,
     Commands, Holder, Setup, Step, Packet, Writers, setupVars, sendVars,
     packetVars
<1>20. ASSUME NEW c \in Client, PublishArmed(c)
      PROVE  Latest'
  BY <1>20 DEF PublishArmed, Returns, Latest, Pending, setupVars, sendVars,
     packetVars
<1>21. ASSUME NEW c \in Client, EnterDrive(c)
      PROVE  Latest'
  BY <1>21, DriveAssumption DEF EnterDrive, Latest, Pending, TypeOK, Places,
     Commands, Holder, Setup, Step, Packet, Writers, Locks, Critical,
     WriterWaits, SenderLives, Unpublished, Ungranted, setupVars, sendVars,
     packetVars
<1>22. ASSUME NEW c \in Client, ReportDrive(c)
      PROVE  Latest'
  BY <1>22 DEF ReportDrive, Returns, Latest, Pending, setupVars, sendVars,
     packetVars
<1>23. ASSUME NEW c \in Client,
              ResolveFails(c)
      PROVE  Latest'
  BY <1>23 DEF ResolveFails, vars, Latest, Pending, setupVars, sendVars,
     packetVars
<1>24. ASSUME TearDown \/ TearDownCloses \/ TelemetryArrives
              \/ UNCHANGED vars
      PROVE  Latest'
  BY <1>24 DEF TearDown, TearDownCloses, KartFails, TelemetryArrives, vars,
     Latest, Pending, setupVars, sendVars, packetVars
<1>25. ASSUME TearDownReleases \/ TearDownSleeps
      PROVE  Latest'
  BY <1>25 DEF TearDownReleases, TearDownSleeps, KartAccepts, KartFails,
     Latest, Pending, setupVars, sendVars, packetVars
<1> QED
  BY <1>1, <1>2, <1>3, <1>4, <1>5, <1>6, <1>7, <1>8, <1>9, <1>10, <1>11, <1>12,
     <1>13, <1>14, <1>15, <1>16, <1>17, <1>18, <1>19, <1>20, <1>21, <1>22,
     <1>23, <1>24, <1>25 DEF Next, SetupStep, CallStep

\* Every step keeps account of the commands that were sent.
LEMMA SentStep ==
  ASSUME TypeOK, Locks, WriterWaits, SenderLives, ModeInv, SentInv, [Next]_vars
  PROVE  SentInv'
<1>1. ASSUME NEW p \in Writers, StartWrite(p)
      PROVE  SentInv'
  BY <1>1, DriveAssumption DEF StartWrite, WantsToWrite, SentInv, TypeOK,
     Places, Commands, Holder, Setup, Step, Packet, Stored, packetVars
<1>2. ASSUME NEW p \in Writers, EndWrite(p)
      PROVE  SentInv'
  BY <1>2, DriveAssumption DEF EndWrite, Continue, At, SentInv, TypeOK,
     Places, Commands, Holder, Setup, Step, Packet, Stored, packetVars
<1>3. ASSUME NEW c \in Client, NEW on \in BOOLEAN, ResolveMode(c, on)
      PROVE  SentInv'
  BY <1>3 DEF ResolveMode, SentInv, packetVars
<1>4. ASSUME NEW c \in Client, NEW a \in Axes, ResolveDrive(c, a)
      PROVE  SentInv'
  BY <1>4 DEF ResolveDrive, SentInv, packetVars
<1>5. ASSUME NEW c \in Client, EnterMode(c)
      PROVE  SentInv'
  BY <1>5, DriveAssumption DEF EnterMode, At, Returns, RefusesMode, Idle,
     SentInv, TypeOK, Places, Commands, Holder, Setup, Step, Packet, Stored,
     packetVars
<1>6. ASSUME NEW c \in Client, Mute(c)
      PROVE  SentInv'
  BY <1>6 DEF Mute, At, SentInv, packetVars
<1>7. ASSUME NEW c \in Client, KartAnswers(c)
      PROVE  SentInv'
  BY <1>7, DriveAssumption DEF KartAnswers, KartAccepts, KartFails, At,
     SentInv, TypeOK, Places, Commands, Holder, Setup, Step, Packet, Stored,
     packetVars
<1>8. ASSUME NEW c \in Client, LeaveMode(c)
      PROVE  SentInv'
  BY <1>8, DriveAssumption DEF LeaveMode, SentInv, TypeOK, Places, Commands,
     Holder, Setup, Step, Packet, Stored, packetVars
<1>9. ASSUME NEW c \in Client, PublishArmed(c)
      PROVE  SentInv'
  BY <1>9, DriveAssumption DEF PublishArmed, Returns, Idle, SentInv, TypeOK,
     Places, Commands, Holder, Setup, Step, Packet, Stored, packetVars
<1>10. ASSUME NEW c \in Client, EnterDrive(c)
      PROVE  SentInv'
  BY <1>10, DriveAssumption DEF EnterDrive, SentInv, TypeOK, Places, Commands,
     Holder, Setup, Step, Packet, Writers, Stored, Locks, Critical,
     WriterWaits, SenderLives, Unpublished, Ungranted, ModeInv, Changing,
     packetVars
<1>11. ASSUME NEW c \in Client, ReportDrive(c)
      PROVE  SentInv'
  BY <1>11, DriveAssumption DEF ReportDrive, Returns, Idle, SentInv, TypeOK,
     Places, Commands, Holder, Setup, Step, Packet, Stored, packetVars
<1>12. ASSUME OpenMedia \/ ConnectionInfoSet \/ ConnectionInfoFails
              \/ RequestDrive \/ DriveGranted
      PROVE  SentInv'
  BY <1>12 DEF OpenMedia, ConnectionInfoSet, ConnectionInfoFails,
     RequestDrive, KartAccepts, KartFails, DriveGranted, SentInv, packetVars
<1>13. ASSUME NewSender \/ PublishSender \/ RecordSession \/ FindStale
              \/ CloseStale
      PROVE  SentInv'
  BY <1>13 DEF NewSender, PublishSender, RecordSession, FindStale, CloseStale,
     SentInv, packetVars
<1>14. ASSUME NEW c \in Client,
              ResolveFails(c)
      PROVE  SentInv'
  BY <1>14 DEF ResolveFails, vars, SentInv, packetVars
<1>15. ASSUME TearDown \/ TearDownDisarms \/ TearDownCloses
              \/ TelemetryArrives \/ UNCHANGED vars
      PROVE  SentInv'
  BY <1>15 DEF TearDown, TearDownDisarms, TearDownCloses, KartFails,
     TelemetryArrives, vars, SentInv, packetVars
<1>16. ASSUME TearDownReleases \/ TearDownSleeps
      PROVE  SentInv'
  BY <1>16 DEF TearDownReleases, TearDownSleeps, KartAccepts, KartFails,
     SentInv, packetVars
<1> QED
  BY <1>1, <1>2, <1>3, <1>4, <1>5, <1>6, <1>7, <1>8, <1>9, <1>10, <1>11, <1>12,
     <1>13, <1>14, <1>15, <1>16 DEF Next, SetupStep, CallStep

-----------------------------------------------------------------------------
(* The theorems.                                                           *)

\* The invariants of control: locks, writers, sender, session and mode.
Control == Locks /\ WriterWaits /\ SenderLives /\ SessionLives /\ ModeInv

\* A session begins with both locks free, nothing sent and the mode off.
LEMMA InitControl == Init => Control
BY DriveAssumption
DEF Init, Control, Locks, Critical, WriterWaits, SenderLives, Unpublished,
    Ungranted, SessionLives, ModeInv, Changing, Idle, Down, SleepSent

\* The locks exclude and are nested as described, the sender and the session
\* end with whoever holds them, and the mode agrees with the armed flag, in
\* every reachable state.
THEOREM ControlIsKept == Spec => []Control
<1>1. TypeOK /\ Control /\ [Next]_vars => Control'
  BY LocksStep, WritersStep, SenderStep, SessionStep, ModeStep DEF Control
<1> QED
  BY TypeCorrect, InitControl, <1>1, PTL DEF Spec

\* Two callers are never at once in the sections of SetDriveMode and SetDrive
\* that hold deviceControl.mu, nor is one there while the setup publishes the
\* sender or the teardown has disarmed it.
THEOREM SectionsExclude ==
  Spec => [](\A c \in Client : call[c].step \in Critical =>
               /\ dmu = c /\ setup # "publishing"
               /\ \A b \in Client : call[b].step \in Critical => b = c)
<1>1. Control => \A c \in Client : call[c].step \in Critical =>
                   /\ dmu = c /\ setup # "publishing"
                   /\ \A b \in Client : call[b].step \in Critical => b = c
  BY DriveAssumption DEF Control, Locks
<1> QED
  BY ControlIsKept, <1>1, PTL

\* What a session opened is given back, whichever of setup and teardown
\* overtakes the other.
THEOREM NothingIsLeaked == Spec => []NothingLeaks
<1>1. TypeOK /\ Control => NothingLeaks
  BY DEF TypeOK, Places, Down, Control, SenderLives, SessionLives, SleepSent,
     NothingLeaks
<1> QED
  BY TypeCorrect, ControlIsKept, <1>1, PTL

\* The kart is awake in drive mode until the teardown puts it to sleep, and from
\* then on it is sent neutral commands only.
THEOREM KartIsAwake == Spec => []KartFollowsMode
<1>1. Init => KartInv /\ StandsStill
  BY DEF Init, KartInv, StandsStill
<1>2. TypeOK /\ Control /\ KartInv /\ [Next]_vars => KartInv'
  BY KartStep DEF Control
<1>3. TypeOK /\ Control /\ StandsStill /\ [Next]_vars => StandsStill'
  BY StillStep DEF Control
<1>4. Control /\ KartInv /\ StandsStill => KartFollowsMode
  BY DEF Control, SenderLives, SleepSent, KartInv, StandsStill, KartFollowsMode
<1> QED
  BY TypeCorrect, ControlIsKept, <1>1, <1>2, <1>3, <1>4, PTL DEF Spec

\* The command that is reported, the one the sender holds and the last one on
\* the wire agree when no call is under way, and no older packet overtakes a
\* newer command.
THEOREM CommandsStayInAgreement == Spec => []CommandsAgree
<1>1. Init => InSync /\ Latest
  BY DEF Init, InSync, Latest
<1>2. TypeOK /\ Control /\ InSync /\ Latest /\ [Next]_vars => (InSync /\ Latest)'
  BY SyncStep, LatestStep DEF Control
<1>3. TypeOK /\ Control /\ InSync /\ Latest => CommandsAgree
  <2> SUFFICES ASSUME TypeOK, Control, InSync, Latest
               PROVE  AxesInSync /\ LatestWins
    BY DEF CommandsAgree
  <2>1. AxesInSync
    BY DEF InSync, AxesInSync
  <2>2. ASSUME published, dmu = Nobody
        PROVE  ~Pending
    <3>1. setup \notin {"arming", "publishing"}
      BY <2>2, DriveAssumption DEF Control, Locks, SenderLives
    <3>2. ASSUME NEW c \in Client
          PROVE  call[c].step \notin {"neutral", "arming", "axes"}
      BY <2>2, DriveAssumption DEF Control, Locks, Critical
    <3> QED
      BY <3>1, <3>2 DEF Pending
  <2>3. LatestWins
    BY <2>2 DEF Latest, LatestWins
  <2> QED
    BY <2>1, <2>3
<1> QED
  BY TypeCorrect, ControlIsKept, <1>1, <1>2, <1>3, PTL DEF Spec

\* SetDrive answers Applied only if its command, or a newer one, was written
\* without an error after it was accepted.
THEOREM AppliedMeansSent == Spec => []AppliedWasSent
<1>1. Init => SentInv
  BY DEF Init, SentInv, Idle
<1>2. TypeOK /\ Control /\ SentInv /\ [Next]_vars => SentInv'
  BY SentStep DEF Control
<1>3. SentInv => AppliedWasSent
  BY DEF SentInv, AppliedWasSent, Applied
<1> QED
  BY TypeCorrect, ControlIsKept, <1>1, <1>2, <1>3, PTL DEF Spec

\* A published sender is armed only by a call that enables the drive mode,
\* after the kart has accepted it and with the axes at neutral.
THEOREM ArmingIsEnabling == Spec => ArmedByEnabling
<1>1. Init => NeutralWhileChanging
  BY DEF Init, NeutralWhileChanging, Changing, Idle
<1>2. TypeOK /\ Control /\ NeutralWhileChanging /\ [Next]_vars => NeutralWhileChanging'
  BY NeutralStep DEF Control
<1>3. TypeOK /\ Control /\ NeutralWhileChanging /\ [Next]_vars =>
        [published /\ ~armed /\ armed' => driveMode' /\ kart' = 1 /\ axes' = Neutral]_vars
  <2> SUFFICES ASSUME TypeOK, Control, NeutralWhileChanging, [Next]_vars,
                      published, ~armed, armed'
               PROVE  driveMode' /\ kart' = 1 /\ axes' = Neutral
    OBVIOUS
  <2>1. PICK c \in Client : KartAnswers(c)
    <3>1. ~UNCHANGED armed
      OBVIOUS
    <3>2. setup # "sender"
      BY DEF Control, SenderLives, Unpublished
    <3>3. ASSUME NEW p \in Writers, StartWrite(p) \/ EndWrite(p)
          PROVE  UNCHANGED armed
      BY <3>3 DEF StartWrite, EndWrite, sendVars
    <3>4. ASSUME SetupStep
          PROVE  FALSE
      BY <3>1, <3>2, <3>4
      DEF SetupStep, OpenMedia, ConnectionInfoSet, ConnectionInfoFails,
          RequestDrive, DriveGranted, NewSender, PublishSender, RecordSession,
          FindStale, CloseStale, sendVars
    <3>5. ASSUME TearDown \/ TearDownDisarms \/ TearDownReleases
                 \/ TearDownSleeps \/ TearDownCloses \/ TelemetryArrives
                 \/ UNCHANGED vars
          PROVE  FALSE
      BY <3>1, <3>5
      DEF TearDown, TearDownDisarms, TearDownReleases, TearDownSleeps,
          TearDownCloses, TelemetryArrives, vars, sendVars
    <3>6. ASSUME NEW c \in Client,
                 (\E on \in BOOLEAN : ResolveMode(c, on))
                 \/ (\E a \in Axes : ResolveDrive(c, a)) \/ ResolveFails(c)
          PROVE  UNCHANGED armed
      BY <3>6 DEF ResolveMode, ResolveDrive, ResolveFails, vars, sendVars
    <3>7. ASSUME NEW c \in Client, CallStep(c), ~KartAnswers(c)
          PROVE  FALSE
      BY <3>1, <3>7
      DEF CallStep, EnterMode, Mute, LeaveMode, PublishArmed, EnterDrive,
          ReportDrive, sendVars
    <3> QED
      BY <3>1, <3>3, <3>4, <3>5, <3>6, <3>7 DEF Next
  <2>2. call[c].step = "state" /\ axes' = axes /\ call[c].on \in BOOLEAN
    BY <2>1 DEF KartAnswers, TypeOK, Commands
  <2>3. axes = Neutral
    BY <2>2 DEF NeutralWhileChanging, Changing
  <2>4. /\ driveMode' = call[c].on /\ (armed' = (call[c].on \/ armed))
        /\ kart' = IF call[c].on THEN 1 ELSE 0
    BY <2>1 DEF KartAnswers, KartAccepts
  <2> QED
    BY <2>2, <2>3, <2>4
<1> QED
  BY TypeCorrect, ControlIsKept, <1>1, <1>2, <1>3, PTL DEF Spec,
     ArmedByEnabling

=============================================================================
