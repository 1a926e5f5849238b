# Komitake in TLA+

Komitake is a daemon, written in Go, that takes the place of the console for
Mario Kart Live karts: it hosts their wireless network, speaks the RCD handshake
and the Fuji control protocol with them, streams their video, and offers all of
that over a local gRPC socket to a command line, an SDK and a web interface.
This directory models the parts of it whose correctness depends on the order in
which goroutines, packets, timers and failures meet. TLC checks the models on
small instances; TLAPS proves theorems about all of them for every instance.

## The system

| Part | Where | State | Operations |
|---|---|---|---|
| Manager | `internal/daemon/{daemon,state,devices,persist}.go` | mode, listeners, pairing record and file, pairing timeout, device map, control map, notify channel | SetState, Start, Close, the accept loops, DeviceConnected/Disconnected, WaitForDevice, ShutdownKart |
| Drive session | `internal/daemon/{control,telemetry}.go`, `internal/fuji/drive.go` | per kart: channels, media ports, drive mode, last axes, a UDP sender with its own goroutine | setup, SetDriveMode, SetDrive, status telemetry, teardown |
| Video hub | `internal/daemon/video_hub.go`, `video_transcoder.go` | per kart: backlog since the last IDR, subscribers with bounded queues; an FFmpeg process | publish, publishDiscontinuity, remove, subscribe, unsubscribe |
| Media ports, LSP video | `internal/daemon/{device_media,lsp_video}.go` | a port range per kart, the frame being reassembled, the sequence and generation last seen | reserve, serve, close; consume |
| DHCP server | `internal/wireless/{dhcp,dhcp_proto}.go` | two lease maps, expiries | handlePacket for each message type |
| Access point | `internal/wireless/{ap,apctrl}.go` | the hostapd process, its directory and control socket, the goroutines that watch it, the DHCP server | Start, Stop, signal query |
| Handshake server | `internal/rcd/rcd.go` (Server, HandshakeService) | per connection: next command, transcript, device | Serve, the four handshake commands, finalize |
| RCD client | `internal/rcd/rcd.go` (Client) | one exchange at a time, a watcher per call | Invoke |
| Fuji channels | `internal/fuji` | control and event connections | Connect, SetState, Shutdown, Pair, Close |
| Configuration | `internal/config`, `internal/web/plugin_settings.go` | `config.json`, the secret file, `state.json` | Load with its migrations, ApplySettingsChanges, Reload |
| Daemon life | `cmd/komitake/daemon_command.go`, `internal/ipc/server.go` | the process, its socket, the calls in flight | start, serve, restart, stop |
| SDK, commands | `pkg/komitake/client.go`, `cmd/komitake` | none beyond a call; the pair command has a mode to restore | StartPairing, AwaitPairing, pair, set, and one call each |
| Web backend | `internal/web` | event hub, poller, sockets, WebRTC sessions | publish, poll, serve |
| Device selection | `internal/deviceselect` | none | resolution of a selector |
| Web frontend, logging, generated code, LP2P credentials | `internal/web/frontend`, `internal/logging`, `proto`, `internal/wireless/lp2p` | | |

How they interact:

- A mode change (SetState) holds `Manager.mu` for its whole length. It stops and
  starts the access point, whose Start makes a new DHCP server, and the listener
  of the handshake server, and it tears every control session down.
- The handshake server runs one goroutine per connection. When a handshake ends
  it starts a goroutine of its own for `DeviceConnected`; when the connection
  ends, the server goroutine itself calls `DeviceDisconnected`. Nothing orders
  the two. `DeviceConnected` registers the kart and starts the session goroutine,
  which dials the kart, opens the media ports and the transcoder, and arms a UDP
  sender, taking `Manager.mu` and `deviceControl.mu` again and again and asking
  each time whether it has become stale.
- Calls from the gRPC side (SetDriveMode, SetDrive, ShutdownKart, StreamVideo)
  resolve a kart under one lock and act under another, with network exchanges
  between.
- `komitake set`, the settings page and the daemon read and rewrite the same
  files without a lock between them; each renames a whole new file into place.
- The daemon command owns the socket by its path. A signal or a RequestRestart
  makes it stop gracefully, which waits for the calls in flight, and close the
  manager afterwards. The pair command puts the daemon in pairing mode, polls it,
  and puts it back, over calls that other clients make as well.
- The transcoder's reader publishes frames to the hub; the kart's video receiver
  reports its death; the teardown removes the stream; each subscriber has a
  goroutine that forwards.

What is hard, and which property stands against it, is the list `hazards` of
`PROJECT.json`: stale results after an unlock, disconnects and timeouts that come
late, a startup that fails halfway, two copies of one value, lock order across
three mutexes, bounded queues that overflow, lease maps kept in step by hand,
answers matched by their command alone, a process and a directory that outlive the
call that made them, two files that are one setting, a path shared by processes.

What makes each part correct, in short:

- *Manager*: services, record and timeout agree with the mode whatever failed;
  a kart's record, its session and its open channels agree whatever overtakes
  what; pairing windows end; no caller of WaitForDevice misses its kart; Close
  returns.
- *Drive session*: the kart is awake in drive mode until the teardown's sleep command,
  and steered by nobody after it; the last command
  accepted is the last on the wire; arming takes an explicit enabling; every port,
  goroutine and channel is given back; no deadlock.
- *Video hub*: what a viewer receives can be decoded, and it is told of what is
  missing; nobody waits on a channel that nobody will write to or close.
- *DHCP*: one client per address, none of the reserved ones, no live lease given
  to another.
- *Access point*: whichever step of a Start fails, nothing runs or exists that the
  next Stop does not know of; Start and Stop end.
- *Kart link*: both channels or none; a call takes its own answer unless an earlier
  call gave up; every call ends.
- *LSP video*: only whole frames of the kart reach the transcoder, and every frame
  whose datagrams came in an unbroken row of numbers does.
- *Configuration*: whatever stops a writer, the files load; the daemon never runs on
  two networks of its own; what a write does to a setting it was not given is known
  exactly, though it is not always nothing (see "Known disagreements").
- *Daemon life*: a daemon that serves is reached at its path, unless another was
  starting or stopping when it bound it; the manager is closed under no call; a restart
  that was answered happens; a pair command that had its answer does not leave pairing
  mode behind.
- *Handshake*: a connection is established along one of two courses, by a peer
  that has read what the daemon sent; answers come in the order of the requests;
  slots are given back; silent peers go, established ones may stay silent, and
  the accept loop ends.

## The modules

| Module | What it is |
|---|---|
| `Manager` | the mode machine, the karts, their sessions' life, WaitForDevice, Close |
| `Handshake` | one accept loop, its connections and their peers |
| `ConnLife` | the abstract specification of a connection's life, between Handshake and Manager |
| `DriveSession` | one control session in detail: setup, callers, sender, teardown, three mutexes |
| `DhcpServer` | the address pool, its clients and time |
| `AccessPoint` | Start, Stop and hostapd, composed with `DhcpServer` |
| `KartLink` | the session with a kart: its two channels and the calls on one of them |
| `LspVideo` | a kart's datagrams and how its frames are put together from them |
| `VideoHub` | one kart's stream from its encoder to its viewers |
| `VideoFeed` | the abstract specification: what the daemon promises a viewer |
| `Settings` | the files of the configuration and everybody who reads or writes them |
| `Lifecycle` | daemon processes, their socket, the calls in flight, the pair command |
| `ManagerProofs`, `HandshakeProofs`, `DriveProofs`, `AccessPointProofs`, `KartLinkProofs`, `VideoProofs`, `SettingsProofs`, `LifecycleProofs` | theorems and proofs; `AccessPointProofs` has those of `DhcpServer` as well, `VideoProofs` those of `LspVideo` |
| `MCManager`, `MCHandshake`, `MCDriveSession`, `MCAccessPoint`, `MCKartLink`, `MCLspVideo`, `MCVideoHub`, `MCSettings`, `MCLifecycle` | the instances TLC checks |

Three of them compose: `AccessPoint` EXTENDS `DhcpServer`, whose server it replaces at
each Start; `ConnLife` stands between `Handshake` and `Manager`, which both
implement it; `VideoHub` implements `VideoFeed`.

An operator whose name ends like that of an action with an error in it
(`TimeoutFiresUnarmed`, `PublishUndrained`, ...) is a mutant: the action as a
plausible mistake would have made it. No specification uses it. Putting it in
the place of the action makes TLC refute the property `PROJECT.json` names with
it, which shows that the property can fail.

### Manager

One action is one critical section of `Manager.mu`, or one step of a goroutine
between two of them. SetState never releases the mutex, so every outcome of it is
one action; `Transition` is the disjunction of its outcomes (`EnterDown`,
`EnterRunning`, `EnterPairing`, and the early returns `ClearRecordFails`,
`RunningFails`, `PairingFails`, each with the state that the code leaves behind).
A handshake connection is a value of `Conn`, used once; two values with one kart
are a reconnect. Its three goroutines are the variables `serve`, `handler` and
`session`. `fuji` is the set of connections whose Fuji channels are open, whoever
holds them: a local variable of the goroutine (`"dialed"`), the session
(`"setup"`, `"live"`). `expired` holds the pairing windows whose timer has fired
and whose goroutine still waits for the mutex.

Left out: the observer's log events, a configuration without a pairing network.
Reload is in Settings, RequestRestart in Lifecycle, the limit of an accept loop in
Handshake. Pairing a kart (Pair, SetGroupInfo) is one outcome here.

### Handshake and ConnLife

One accept loop, from its start until it has returned. `serve` is where the
goroutine of each connection is: at the top of Serve's loop, reading, writing,
returning (its deferred calls are due) or releasing its slot. Handling a message
changes the HandshakeService, which belongs to that goroutine alone, so `Handle`
is one action with the outcomes of the four commands and `Refuse` for every error;
an error is answered and changes nothing else. A peer pipelines up to `MaxAsked`
requests out of `Says[c]`, reads its answers when it likes, or ends.

The transcript is a sequence of exchanges and a length in bytes. `Secrets` says
which answers that nobody can predict (the nonce, the key) have bytes in the
blocks that were hashed so far; a digest in a request carries what its sender had
read (`knew`), and is right if that includes those answers. This is what the hash
is for, with collisions and guesses left out.

`ConnLife` is the life of a connection as the Manager depends on it. Handshake
implements it, and the connections in Manager are shown to behave like it: the two
models agree on what passes between them.

Left out: entropy that fails to be read, retries of a failing Accept, the contents
of names, identifiers and keys, redaction of logs.

### DriveSession

What Manager sees as the steps `AttachSession` and `EstablishSession` is here in
full. `mmu` and `dmu` name the holder of `Manager.mu` and `deviceControl.mu` when
it keeps the lock over several steps: the teardown holds the first while it waits
for the second and for the sender's loop; SetDriveMode holds the second over a
network exchange. `writing` is the sender's `writeMu` with the packet being
written, so an old packet may leave after a new command was stored. A kart call
succeeds, or fails with or without having reached the kart (`KartAccepts`,
`KartFails`). `wire` and `kart` are what the kart has seen.

`down` says how far the teardown is. It holds `Manager.mu` from its begin to its end,
but `deviceControl.mu` only while it disarms and closes the sender and takes the media
(`TearDownDisarms`, `TearDownReleases`); it then closes the media and sends SetState(0)
(`TearDownSleeps`: `"asleep"` when the kart answered, `"awake"` when it did not, or the
kart was shut down and is not asked), and closes the channels (`TearDownCloses`). It
never clears `driveMode`. So every normal disconnect passes through a drive mode that is
set, channels that are open and a kart that sleeps, and in that window the setup and
callers that resolved the session earlier go on: they may take `deviceControl.mu`, ask
the kart for a mode and arm a sender of their own. `KartFollowsMode` says what holds
there: no packet but a neutral one is under way once the sleep command was sent. That the
kart may be woken again before the close is in "Known disagreements". A kart call that
fails is settled when it returns; answers that come later are KartLink's.

Left out: the read-only calls, the packing of the packet, the IMU packet.

### DhcpServer

One goroutine answers one packet at a time, so one action is one `handlePacket`.
Addresses are numbers in the order in which the server tries them. Time is ticks
left on each lease; a lapsed lease stays in the maps until the next DISCOVER or
REQUEST, as in `expireLocked`. `bound` and `promise` are the clients' side: the
address they were ACKed, and what is left of the lease time that ACK carried.
Left out: the encoding of the options, and packets that are not DHCP.

### AccessPoint

Start and Stop hold `AccessPoint.mu` from end to end, so one is in progress at a
time and `at` says where it is; each step of `startLocked` and `stopLocked` that
may fail is an action. Beside it run hostapd (`Announce`, `Exit`), the goroutine
that reads its output (`ReadOutput`), the one that waits for it (`Wait`), a signal
query with a socket of its own in the same directory, and the DHCP server. Each
Start takes an identity from `Run` for its directory, process and server, and
gives it back when nothing of it is left; what the code can lose track of is kept
apart in `unreaped` (a process that survived a kill) and `strays` (a directory in
which a query had its socket), so that `NothingOrphaned` can say that this is all.

A new server starts with empty tables, and the karts are assumed to drop their
addresses with the network (`Restarts`); a packet that is under way when its server
closes is not answered. Left out: the text of hostapd's configuration, the netlink
calls, the parsing of the station list. Nothing in the code watches hostapd once
Start has returned; a query of a server that is gone may leave its file.

### KartLink

Connect dials both ports at once, each up to `DialAttempts` times, and joins the two
results. Then
any number of callers share the control channel: `holder` is `Client.mu`. A request
is a number; an answer is two parts, header and payload, in the `stream`, since a
call may give up between them and the next then reads a payload as a header
(`ReadJunk`). `taken` and `gaveUp` remember which request each answer was for.
The goroutine that watches a call's context may pick the end of that context after
the call has returned (`LateWatcher`).

The model shows how far one timed-out call reaches: its answer stays on the stream,
and from then on every call of the same command reads the answer before its own.
Left out: payloads and their encodings; what a call means to the kart.

### LspVideo

`Sent` is the stream as the kart sends it; the network loses, repeats and reorders.
An entry is its number in the stream, and a byte count is a number of entries: a
header announces how many its frame has. `previous`, `under` and `sourceIndex` are
serveLSPVideo's sequence check, the generation under way with its packets, and the
packet it is consuming; `synchronized`, `active`, `cursor` and `frames` are
videoAssembler's and those of the call of consume. A datagram is one action
(`PlaceDatagram`, or `RefuseDatagram` when it disagrees about the size of its
generation); a complete generation is consumed packet by packet and entry by entry
(`OpenPacket`, `TakeFirst`, `TakeBody`, `TakeLast`), an error drops the rest of it
(`Abandon`), and the frames of a packet are written at its end, or the write fails and
ends the goroutine. Sequence numbers wrap at 2^23 as in the code. Source and parity
datagrams share the sequence (`docs/fuji-video.md:54`): `Sent` has the source datagrams,
each with its place among all of them, and a place between two of them is a parity
datagram's. serveLSPVideo drops parity before it keeps anything of it, so its arrival
changes nothing, and what remains of it is the number it took, which the code takes for
a hole. A stream has the L2 header in every source payload, as `docs/fuji-video.md:67`
says, or only in payloads that do not continue a frame; a synchronized assembler reads
none but the first. `streak`, the datagrams received in an unbroken row of numbers (with
no parity between), is for the properties and read by no action.

Two things it shows that no document promises otherwise: a generation that is
delivered whole twice may be emitted twice, and after a malformed datagram the
assembler needs a new stream header. Left out: the field layout of a datagram; a second
stream header whose checksum byte reads as the beginning of an entry (it ends the packet
or is an error otherwise, `PassPacket`, `RefusePacket`); datagrams read while close has ended the
transcoder and not yet the socket; a session that starts again on the same port.

### Settings

A file is a function from settings to values; `Unset` is absent or empty, `Bad` is
refused by the check of its own setting. Values that are checked together in the
code are checked together. A writer (the set command, a browser's request) reads,
patches, checks, renames `config.json` and then writes the secret, and any of these
steps may be its last. Load with its migrations (`Normalize`) and the minting of the
network (`BuildGroupInfo`) is one step of reading and one of saving.

It shows what the code accepts: two writers at a time lose one update (`raced`
exempts it). `Remains` says what a write leaves of a setting it was not given, for every
installation and request: a service key that a browser's body leaves out is cleared
(`plugin_settings.go:43`), a listener keeps what its own key says while an older key of
it is dropped (`set.go:275`), and everything else keeps its meaning, an address under an
older key too. Left out: formats, defaults and messages; two daemons that load at the same time.

### Lifecycle

Several processes, each run once, and the path of the socket, which is the process
whose socket is there: the code acts on it by name. GracefulStop, Manager.Close and
cleanup are three steps, in the order of the defers. A call is unary (bounded), a
wait, a stream or a restart. The manager is its mode and pairing session, changed in
one step; what happens inside is `Manager`'s.

Nothing keeps two processes from being on their way at once, and nothing does here: the
probe, the removal and the bind of one interleave with those of another and with the
cleanup of a third. `met`, which no action reads, keeps for each process the others that
were past their own probe when it bound the path. `Reachable` is of those that met
nobody; with somebody met, the path can be lost, see "Known disagreements".

The pair command asks for the mode (`PairAsks`); the daemon enters it (`PairEnters`) and
its answer arrives (`PairAnswered`), or the command returns first, refused or interrupted,
without having deferred the restore (`PairUnanswered`). `asked` has the daemons whose
pairing session it has asked for, `deferred` that it had the answer. The command and
AwaitPairing call a pairing complete when the mode is left, also by its timeout or by
another client; the restore looks at the mode and then sets it, so it may end a pairing
that another operator began in between; with `--json` the restore ends its own at once;
and one whose answer is lost is not tried again (`lost`). A connection leads to the
process it was made to while that one serves and is made again at the path afterwards
(`Reaches`).

### VideoHub and VideoFeed

A frame is its number, and bytes of backlog are counted as frames. Each method of
the hub is one action, since it holds the hub's mutex. `encoder` and `failing`
stand for the transcoder and for a receiver that is about to report its death;
it runs on its own and may be late, so that it hits a stream that is gone or that
of the next session. A viewer that asks for a fresh key frame reads the hub's
channel; every other one has a goroutine with the backlog, then one live frame at
a time, in `rest`.

`VideoFeed` says what a viewer is promised: each frame is an IDR or follows the
frame it was coded against, and wherever frames are missing there was a marker,
unless the hub gave up its whole backlog in between. `VideoHub` implements it with
the identity as the mapping: `last`, `keys`, `lost` and `got` are variables of
both. `reset`, which nothing calls, is left out.

## What the runs check

Every run is of one MC module with the configuration of the same name.

| Run | Instance | Shows |
|---|---|---|
| `manager` | 2 connections of one kart, 1 waiting caller, failing startups, 2 pairing windows; 912,364 states | `ModeAgrees`, `SessionsAgree`, `NoMissedWakeup`; its connections are those of ConnLife |
| `manager_liveness` | 1 connection, failing startups, 2 windows; 23,938 states | pairing windows end, Close returns, waiting callers are let go |
| `handshake` | a peer that says everything and a silent one, 1 slot, 2 requests ahead, either mode; 737,526 states | `EstablishedProperly`, `AnswersMatch`, `SlotsAreHeld`, that established connections may idle, ConnLife, that silent peers go and the loop ends |
| `drive` | 2 callers, 2 commands; 689,210 states | `CommandsAgree`, `AppliedWasSent`, `KartFollowsMode`, `NothingLeaks`, `ArmedByEnabling` |
| `drive_liveness` | 1 caller; 26,721 states | teardowns and calls end |
| `network` | 2 karts, 6 addresses of which 2 are leased out, leases of 2 ticks, 2 identities for Starts; 275,538 states | `PoolIsSound`, `NotStolen` under starts and stops, `NothingOrphaned`, Start and Stop end |
| `video` | 2 viewers, queues of 2, backlog of 2, 5 frame numbers; 3,315,234 states | consistency and freshness of the hub, and that it implements VideoFeed |
| `lsp_video` | 8 datagrams in 5 generations, parity among them, 2 repeated, 1 malformed, a second L2 header, an entry that is refused; 202,113 states | `WholeFrames`, `CleanRunDelivered` |
| `link` | 2 callers, 2 commands, 2 dials, 3 requests; 228,393 states | `OwnUnlessAbandoned`, `BothOrNone`, every call ends |
| `settings` | a set command, a browser's request, a start and 2 reloads on 4 kinds of installation, a body without `webrtc` among the requests; 1,673,438 states | `AlwaysLoadable`, `OneGameNetwork`, `OnlyAskedChanges` |
| `lifecycle` | 2 processes, 1 caller, 1 pairing client; 531,933 states | `Reachable`, `ClosedAlone`, `PairRestores`, `StopEnds` |
| `lifecycle_shutdown` | 1 process, 1 caller | a violation: see the next section |

Several properties that belong together are conjoined under one name
(`ModeAgrees`, `SessionsAgree`, `AnswersMatch`, `CommandsAgree`, `PoolIsSound`); the
conjuncts keep their names and comments in the modules.

Why the bounds are enough. *Manager*: the hazards of reconnecting need an old and
a new connection of one kart and nothing more; two pairing windows let the
timeout of the first meet the second. Karts do not interact except through mode
changes, which treat them alike. The proofs remove the bounds for safety.
*Handshake*: connections share the slots and nothing else, so one that does
everything and one that competes for the only slot suffice; two requests ahead put
a wrong one before a right one, and an answer unread behind one being written; the
version lists have 1 and 15 entries, which leave 50 and 32 bytes unhashed, and the
proof covers all lengths.
*DriveSession*: all calls take the same two locks, so two callers give every pair
of calls; one command beside neutral tells old from new; the proof covers any
number of both. *AccessPoint*: a Start and
the one before it are all that can be confused, so two identities suffice; two
karts for two addresses contend as soon as one asks for the other's; the six
addresses hold one of each kind (outside the subnet, network, gateway, free,
broadcast); a lease of two ticks can be live, partly used and lapsed. The proofs
remove these bounds. *KartLink*: three requests of two commands are one given up,
one that takes its answer and one that is pushed back in turn; the proof removes
the bound. *LspVideo*: the frames span generations and the
generations frames, one frame is shorter than announced, the sequence wraps in the
third generation, a parity datagram follows it inside a frame, the fourth disagrees about
its size, and the last has a second L2 header and an entry that is refused; every subset of the datagrams in every order is a behaviour. The
proofs remove the bounds, but for the length of the stream (see VideoProofs). *Settings*: one writer
of each kind and two reloads give every pair of concurrent accesses; the four
installations are those that Load and the migration treat differently, one of them with
every older key, and the bodies those the settings page sends and one that leaves out
`webrtc`; the proofs cover any writers,
requests, installations and values. *Lifecycle*: a daemon and another that starts, stops or crashes at any moment of
its life; calls to a daemon are in flight independently of each other, so one of each
kind in turn shows what ends it; the proofs cover any number of
both. *VideoHub*: five numbers suffice for a
backlog, an overflow of it or of a queue of two, an IDR after it, and a second
encoder, which uses up a number of its own. Symmetry is used where the members of
the set are interchangeable and no liveness is checked.

In the constants, `MaxPairings`, `MaxAsked`, `MaxFrames`, `MaxCalls`, `MaxRepeats`,
`MaxMalformed` and `Run` are bounds of the models; the others are
parameters of the code or its surroundings.

Ticks, timeouts and failures are always possible where the code has them; no
safety run assumes fairness.

## Known disagreements

`findings` in `PROJECT.json` holds the one that a run of its own shows.
`ShutdownEnds`: `daemon.go:239` says that Close wakes the callers of WaitForDevice
"so in-flight RPCs return instead of blocking GracefulStop forever", but
`daemon_command.go:82` calls GracefulStop first and Close only when that has
returned, so a client that waits for a kart keeps the daemon from stopping.

The modules define further properties that quote a document or a comment and that
the code does not have. To see one fail, put it alone into the configuration named
here, without its SYMMETRY.

| Property | In | What the text says, and what happens |
|---|---|---|
| `RecordHasHandshake` | `manager.cfg`, INVARIANT | `daemon.go:56`: a record "describes a kart whose handshake is currently held open". DeviceConnected runs on a goroutine of its own (`devices.go:145`) and may register the kart after its disconnect was reported; nothing then removes it. |
| `DisconnectIsOwn` | `manager.cfg`, PROPERTY | `events.go:17`: a disconnect is of "a tracked kart" that "drops its connection". `devices.go:113` looks the kart up by its address, so the late disconnect of an old connection takes down the new one. |
| `DisabledIsDisarmed` | `drive.cfg`, INVARIANT | `USAGE.md:230`: "Disabling disarms UDP output". The setup keeps its own copy of the mode (`devices.go:264`); a disable between its halves leaves the sender armed. |
| `WebRtcStartsLive` | `video.cfg` with `WebRtc = {v1}`, INVARIANT | `docs/fuji-video.md:137`: "WebRTC skips the cached GOP". `webrtc.go:212` subscribes with the cache. |
| `StaysAsleep` | `drive.cfg`, INVARIANT | `devices.go:309`: "the kart is put to sleep before channels close (normal disconnect)". The sleep command is sent at line 336 without `deviceControl.mu` and the channels are closed at 338; a setup or a SetDriveMode that resolved the session before may wake the kart in between. |
| `AllElseIsPreserved` | `settings.cfg`, PROPERTY | `set.go:13`: "everything else in config.json is preserved", and `settings.go:149`: legacy keys "are migrated". Before any write, `set.go:275` deletes `listen`, `web_addr` and `socket_perms` and carries nothing over, so `komitake set` of another setting moves the daemon back to its default listeners. |
| `PartialPutKeeps` | `settings.cfg`, PROPERTY | `settings.go:199`: "a partial PUT never clobbers existing values it did not send", which is said of the general and wireless settings. A body without `webrtc` clears the STUN servers (`plugin_settings.go:43`). |
| `CompleteIsKept` | `lsp_video.cfg`, PROPERTY | `docs/fuji-video.md:54` has one 23-bit sequence for source and parity, and `:59` "Komitake currently drops incomplete generations". Parity does not advance `previousSequence` (`device_media.go:153`), so the source datagram behind it is a hole, and a frame that goes on behind a complete generation is dropped. |
| `HeaderIsRead` | `lsp_video.cfg`, INVARIANT | `docs/fuji-video.md:67`: "Each recovered source payload (after EC-C1) begins with a 14-byte header". Once synchronized, the assembler reads the entries from byte 3 on (`lsp_video.go:156`), so it passes over or refuses a payload with a header. |
| `SocketIsKept` | `lifecycle.cfg`, PROPERTY | `daemon_command.go:126`: "Refuse to steal a socket that another daemon is serving". Probe, removal and bind are three steps by name: two daemons that start together both find nobody, and the second removes what the first serves; a daemon that stops removes by name the socket of one that was started meanwhile (line 154). |
| `AlwaysRestores` | `lifecycle.cfg`, INVARIANT | `pair_command.go:27`: "Returns to normal mode when pairing completes, is canceled, or times out". The restore is deferred after the answer (line 53): a command that is interrupted or whose request fails before it may leave the daemon in pairing mode. |
| `HeldOpen` | `link.cfg`, INVARIANT | `session.go:18`: a Session "must stay open for the lifetime of the connection". A call whose context ends closes the control channel (`rcd.go:288`), also when the context ends just after the call. |
| `StartedAlive` | `network.cfg`, PROPERTY | `ap.go:213` wants hostapd "still alive rather than reporting success on a process that died instantly". Its exit also ends its output, which counts as ready (`ap.go:178`). |
| `PromiseKept` | `network.cfg`, INVARIANT | `dhcp_proto.go` has expiries that track "when each client's lease lapses". A renewal without option 50 is acknowledged with a whole lease time, and the expiry does not move (`dhcp_proto.go:120`). |

## Fairness

`FairSpec` of Manager asks weak fairness of what the Go runtime and the program's
own deadlines guarantee: a goroutine that can run does, the pairing timer fires,
Pair, Dial and the session setup end within their timeouts, a server goroutine
whose base context is cancelled returns (its connection is closed by the
context's AfterFunc), and Close goes on once it was called. Nothing is asked of
the administrator, the karts, or the caller of WaitForDevice.

`FairSpec` of Handshake asks weak fairness of the accept loop and of each
connection's goroutine: a read ends with a request, an error or, when it has one,
its deadline; a write ends within its deadline; a cancelled base context closes
the connection (the watcher of Serve). Nothing is asked of the peers.

`FairSpec` of DriveSession asks strong fairness of steps that take a mutex:
`sync.Mutex` passes to a starving waiter, so a lock that is free again and again
is obtained in the end. A kart call ends within the five seconds of rcd's
exchange timeout; a UDP write does not block.

`NetSpec` asks weak fairness of the steps of a Start or Stop in progress
(`Proceed`), each of which ends or times out. Nothing is asked of hostapd.

`Spec` of KartLink asks weak fairness of a dial, which ends, of the join of two
results that are there, and of the five seconds of an exchange, and strong fairness
of the mutex. Nothing is asked of the kart.

`Spec` of Lifecycle asks weak fairness of the steps of the command from its start
to its exit, of a restart that was requested, and of calls that are bounded by
themselves. Nothing is asked of callers that wait or watch video, which is why
`StopEnds` says "or somebody waits".

## What is proved

TLAPS proves the following for every value of the constants, from the named
assumptions about the constants alone (`ManagerAssumption`, `HandshakeAssumption`,
`DriveAssumption`, `DhcpAssumption`, `AccessPointAssumption`, `KartLinkAssumption`,
`HubAssumption`, `LspAssumption`, `SettingsAssumption`, `DiskAssumption`,
`LifecycleAssumption`):
that connections belong to karts, that "nothing" is not a value, that limits are
positive, and so on. `LspAssumption` describes the stream of a kart: datagrams carry
its entries in order and have consecutive places in their generations, with any number of
parity datagrams between them; a frame is completed before the next begins; and the L2
header is in every datagram or in none that continues a frame. `DiskAssumption` says that an installation starts with files
that load. Two theorems need more and have it as a hypothesis in their statements: those
of LspVideo, that the sequence numbers do not come round (`OneRound`).

**ManagerProofs.** All invariants of the run `manager`, conjunct by conjunct and
as they are checked, and that its
connections are those of ConnLife. The types come
first. `ModeInv` (services, record and timeout agree with the mode) is inductive
once the types hold, because every outcome of `Transition` sets all of them.
The sessions need more: that open channels have an owner is not inductive by
itself, since a step could start a session for a connection that already had one
or that the map no longer names. `SessionInv` adds that a connection whose
handler has not finished has no session (`SessionIsFresh`; a handler only starts
after the handshake, `NoHandlerYet`),
that an entry of the control map was started and not cancelled
(`EntryIsStarted`), and that a session past its dial has its channels
(`SetupHasChannels`). The wake-up theorem needs only the types: each step that
makes a caller's condition true signals in the same step. For ConnLife it takes `NoHandlerYet` and
`HandlerStarted`: a departure is of a connection whose handler was started, and
nothing else has one.

**HandshakeProofs.** The types, all invariants of the run `handshake`,
`EstablishedStays` and the refinement of ConnLife, for any number of connections
and slots and any requests. Three invariants stand behind them. `Slots`: the slots
taken are as many as the connections served (by the cardinality of that set).
`InOrder`: the commands a peer waits for are those on their way to it, then the one
being written, then those not yet read (`Fits`, position by position, so that
Append and Tail at each end can be followed; `FitsConcat` turns it into the
concatenation of the property). ReadAnswer is well typed only because of it.
`Sanity`: per connection, the transcript is a prefix of one of the two courses
with its exact length (`Course`), no digest claims more than its sender has read,
and a read with a deadline is one before the handshake is done. `DigestHasSecrets`
is the arithmetic: at most 63 bytes wait in the buffer, while the key is the last
64 and the nonce ends at byte 160 of at least 242.

**DriveProofs.** The types, all invariants of the run `drive` and `ArmedByEnabling`,
for any callers and commands. The types are proved in three parts (`Places`, `Flags`,
`Commands`), each inductive by itself. Then the lock discipline: `Locks` says at which
steps the setup, the teardown and a caller hold `Manager.mu` and `deviceControl.mu`,
`WriterWaits` that whoever writes a packet is still at the step that writes it.
`SectionsExclude` reads the exclusion off it. The rest is a ladder in which each step
needs the ones below:

- `SenderLives` and `SessionLives`: where a sender and a session may be while the
  setup, the publication or one of the five steps of the teardown is in progress. A sender that is open is the
  setup's or is published, and a session nobody tracks has no channel left. This is
  `NothingLeaks` for the states between as well.
- `ModeInv`: the mode and the armed flag; a caller that changes the mode has the
  published sender muted until the kart has answered.
- `NeutralWhileChanging`, for `ArmedByEnabling`.
- `KartInv` and `StandsStill`, for `KartFollowsMode`: a kart that sleeps in drive mode was
  put to sleep by the teardown; and a sender that is not the session's, which is the only
  kind there is by then, has neutral axes. The theorem is of the whole window between the
  sleep command and the close, with deviceControl.mu free and setup and callers going on.
- `InSync` (the command reported is the sender's), `Latest` (a packet of the setup or
  of a caller has the newest axes; with no write owed, so have the packet under way
  and the last one sent) and `SentInv` (a packet begun after a command was stored
  carries it). `CommandsAgree` and `AppliedWasSent` follow. `Latest` has to say which
  steps still owe a write, since between the store and the write the wire is behind.

**AccessPointProofs.** Of the DHCP server: the types, `MapsAgree`, `OnlyAssignable`,
both as `PoolIsSound`, and `NotStolen`. The maps after an expiry pass are shown to
agree if those before it did; a grant then keeps them so. The two invariants are
inductive together (`LeaseInv`), and the action property follows from them.
Of the access point: `NetSpec => Spec`, that is, the server under starts, stops and failures
is a DhcpServer, which carries its theorems over. `NothingOrphaned` is not inductive:
it speaks of the moments between calls, and a step of a call must know what the
earlier ones have made. `Progress` says which fields are set at each point of Start
and Stop, `Recorded` that at every moment, also within a call, what exists is what
the fields name or what was given up; the fields say so at the end of a call too.

**KartLinkProofs.** The types (with `Underway`: half an answer is of a request the
kart has), `BothOrNone` and `OwnUnlessAbandoned`. The last rests on counting. Parts
of answers are numbered in the order the kart sends them, and `InStep` says that
the kart's inbox and the stream are the next numbers, so that `NextRead` is the
number of the part a caller reads next; requests and answers leave it where it is,
reads move it. Then one caller at most is in an exchange and its request is the last
(`Exclusive`), and a request whose answer is still to come is that caller's, or one
no later was given up (`Abandoned`). An answer that is not the caller's own is
therefore of a request that follows one given up.

**VideoProofs.** The types, `HubIsConsistent`, `FreshStartsLive` and the
refinement `Spec => FeedSpec`. The invariant behind the refinement: what a viewer
has received, what its goroutine holds and what waits in its queue form one chain
in which every item may follow the one before (`Linked`); the chain of a ready
subscriber ends with the newest frame, that of one that waits ends with nothing, a
marker, or a frame older than a lost backlog (`Caught`); the backlog is a chain
from an IDR to the newest frame (`StreamInv`); and nothing has been prepared for a
viewer that has not come (`NewInv`). That an overflow drains the queue before it puts the marker there, and makes its
subscriber wait, is what keeps `Caught` true.
An item that moves from the queue to the goroutine or from there to the viewer
leaves the chain as a whole unchanged. The lemmas about chains are stated for any
relation, so that they hold for the relation before and after a step, which only
grows (`FitsGrows`).

For LspVideo, the properties `WholeFrames` and `CleanRunDelivered`. The induction is on
steps only, because the state of the receiver can be said in closed form from the
datagram that came last:

- `RowInv`: the packets of the generation under way are the last datagrams of the
  unbroken row, each in its place (`Arrived`), and a generation is consumed only when
  it has all of them. It rests on arithmetic modulo 2^23: the datagram in sequence is
  the next of the stream (`InSequenceIsNext`).
- `ActiveInv`: the frame under way is a run of the stream from a header of the kart to
  the entry that comes next (`Ahead`), without a completing entry in it. When the
  assembler waits for a datagram, the next entry is the first of those placed, since no
  generation is consumed in parts; so a hole that drops the generation must drop the
  frame as well. If every payload has the header, a frame left open does not go on behind
  the payload that synchronized (`Continues`), and without a stream header nothing is read
  (`SyncInv`).
- `WrittenInv`: what was completed and what was written are frames of the kart. It
  follows from `ActiveInv` when a frame is completed, and implies `WholeFrames`.
- `AlignedInv`: in a row of whole generations (`Clean`) none of the latest is missing.
- `ReachedInv`: of the frames that begin in such a row, the one the next entry is part
  of is under way, and those of the latest generation that end before it are
  completed or written. It implies `CleanRunDelivered`.

Both theorems suppose that the stream has fewer datagrams, parity counted, than there are
sequence numbers: with 1400 bytes in each, under 11.7 GB in a session, since serveLSPVideo begins
anew with each. In the model a datagram may be delayed without limit, and one that is delayed
for a whole turn of the numbers would be taken for the next. They need no bound on
repetitions, and none on the number of generations, whose numbers may recur.

**SettingsProofs.** The types and all properties of the run `settings`. The lemmas say
what each step of reading and writing does to a key: `NormalizeKeeps`,
`MigrateRawKeeps`, `PatchedKeeps`, `ChangesArePatch`, `InstalledReads`.

- `OneGameNetwork`: a load that has minted a network has found that none was used, and
  no Reload has one to save while the start still has (`NetworkInv`). Without the second
  part a Reload could replace the network between the start's save and its use.
- `AlwaysLoadable` is not inductive, since a writer installs what it read some steps
  ago, over a file and beside a secret that others may have replaced. `FilesInv`
  says that what each writer is about to rename was checked as a whole, and that it
  has the identity (`rcd.ident`, `rcd.master_key`, `secret`) of the file it
  replaces. No request can patch these keys, which is why the check of one writer still
  holds after the rename of another. A writer removes the secret only if the identity
  does not need it.
- `OnlyAskedChanges`: a writer nobody has overtaken has seen the file as it is
  (`SeenInv`), and migrating and patching changes the meaning of no other key
  (`PatchPreserves`), except that of a listener set by an older key, which `MigrateRaw`
  drops and which keeps what its own key says (`InstalledReads`).
  `OnlyThePatchChanges` says the first of every installation and request;
  `OnlyAskedIsChanged` is the property itself, without hypotheses: what a body leaves
  out is in the patch as cleared, and `Remains` says so.

**LifecycleProofs.** The types and all safety properties of the run `lifecycle`, for any
number of instances that start, stop and crash whenever they like. `PathInv` stands behind
`Reachable`: whoever is past its probe while the path leads to a daemon that listens was
so already when that daemon bound the path, since one that comes later finds it there and
leaves; and a daemon that met nobody has the path. `TakenByOnesMet` reads off it who can
take a socket: the daemon itself, or one of those it met, and nobody else, in particular
not the cleanup of a process that was gone. This is the exact extent of the race that
`SocketIsKept` shows. For `PairRestores`, `AskedInv`: a daemon whose session the pair
command asked for is in pairing mode, and the command speaks to that daemon for as long as
it serves, so its restore cannot reach another one instead; and it has a restore to do only
when it had its answer.

Only model-checked: liveness (fairness and ENABLED are beyond the prover). Every safety
property of the runs is a theorem.

## What is not modelled

`PROJECT.json` lists every part with a reason. Not planned: the frontend, the
generated code, logging, option and payload encodings, the LP2P derivation, the
resolution of a selector, flags and output of the commands, FFmpeg's arguments.
Most gRPC adapters keep no state of their own: each of their calls is the Manager's.

Not modelled so far, with what reading them showed:

- *The socket of the drive page* (`web/ws.go`). Its loop sends on a bounded outbound
  queue that a second goroutine writes out; when that one has ended, the loop may
  wait on a full queue for good. The error of a video goroutine is sent on an
  unbuffered channel nobody reads after a normal disconnect.
- *The event hub and the poller* (`web/hub.go`, `web/poller.go`). The poller tells
  differences between two looks, so a kart that comes and goes between them is not
  told of, and an event for a client whose queue is full is dropped (`hub.go:44`).
- *The transcoder's close* (`video_transcoder.go`) waits for the write in progress
  before it cancels the process, so it waits as long as FFmpeg does not read. In
  VideoHub an encoder dies or is closed in one step.

## Plan

Done, in this order: Manager, DriveSession, DhcpServer, VideoHub with VideoFeed,
Handshake with ConnLife, AccessPoint composed with DhcpServer, KartLink, LspVideo,
Settings, Lifecycle; the proofs of all of them. What is left:

1. LspVideo for streams of any length, which needs a bound on how far the network may
   delay a datagram.
2. The drive page's socket with its two goroutines and queues.
3. The late answers of KartLink inside DriveSession, where a SetState that timed out is
   taken as settled.
