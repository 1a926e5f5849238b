------------------------------ MODULE Settings ------------------------------
(***************************************************************************)
(* The daemon's settings on disk (internal/config): config.json, the       *)
(* sibling secret file and state.json.  `komitake set' and the web backend *)
(* read, patch and rewrite the first two without a lock; the daemon reads  *)
(* all three when it starts and on Reload, and writes state.json when it   *)
(* mints its own wireless network.  Any of these processes may stop        *)
(* between two steps.                                                      *)
(*                                                                         *)
(* A file is a function from setting names to values; Unset is a key that  *)
(* is absent or empty, Bad a value its own check refuses.  Values that     *)
(* matter together (a certificate and its key, ssid and psk, custom video  *)
(* arguments, the secret and what is derived from it) are checked together *)
(* as the code does.                                                       *)
(***************************************************************************)
EXTENDS Naturals, FiniteSets

CONSTANTS
  Operator,  \* runs of `komitake set'
  Browser,   \* PUT /settings requests being served
  Reloader,  \* Reload calls being served by the daemon
  Request,   \* what each writer may be asked: [given |-> [keys -> values],
             \*   secret |-> a secret, Unset to remove it, or Keep]
  Disk,      \* initial contents: [config, secret, state]
  Value,     \* what a key of config.json, or the secret file, may hold
  Network,   \* networks the daemon may mint
  LongNames, \* those older builds minted, with a 23-byte SSID
  Unset, Bad, Keep, Torn, Fixed,
  Starting   \* the load at the start of the process

Writer == Operator \cup Browser
Loader == Reloader \cup {Starting}

ServiceKeys ==
  {"web.bind", "web.tls.enabled", "web.tls.cert_file", "web.tls.key_file",
   "socket.bind", "socket.chmod", "video.hwaccel", "video.ffmpeg_path",
   "video.ffmpeg_profile", "video.ffmpeg_args.input",
   "video.ffmpeg_args.output", "webrtc.stun_servers"}
GeneralKeys == {"autostart", "rcd.name", "pairing_file"}
WirelessKeys == {"wireless.interface", "wireless.address", "wireless.channel",
                 "wireless.hostapd_path"}

\* SettingsChanges: what `komitake set' can patch, the secret apart.
PatchKeys == ServiceKeys \cup GeneralKeys \cup WirelessKeys
               \cup {"web.allow_config", "wireless.ssid", "wireless.psk"}
LegacyKeys == {"address", "listen", "web_addr", "socket_perms", "socket.perm",
               "wireless.subnet"}
Key == PatchKeys \cup LegacyKeys \cup {"secret", "rcd.ident", "rcd.master_key"}

VARIABLES
  config,  \* config.json; Torn when it cannot be decoded
  secret,  \* the secret file
  state,   \* state.json's game_network
  pc,      \* where each writer is
  req,     \* what it was asked
  seen,    \* the config.json it read, migrated
  raced,   \* another writer renamed config.json since it read it
  lpc,     \* where the daemon's load and each Reload are
  loaded,  \* the network each of them settled on, to be saved
  group,   \* the network the daemon runs on: Unset when it is down, Fixed
           \* when ssid and psk are configured
  used     \* the minted networks it has ever run on

files == <<config, secret>>
writerVars == <<pc, req, seen, raced>>
daemonVars == <<state, lpc, loaded, group, used>>
vars == <<files, writerVars, daemonVars>>

Config == [Key -> Value]

\* A request patches what it may, and gives a value for each key it names.
SettingsRequest(r) ==
  /\ DOMAIN r.given \subseteq PatchKeys
  /\ \A k \in DOMAIN r.given : r.given[k] \in Value
  /\ r.secret \in Value \cup {Keep}

ASSUME SettingsAssumption ==
  /\ {Unset, "auto"} \subseteq Value /\ Torn \notin Config /\ Keep \notin Value
  /\ Starting \notin Reloader
  /\ Unset \notin Network /\ Fixed \notin Network \cup {Unset}
  /\ \A d \in Disk : /\ d.config \in Config /\ d.secret \in Value
                     /\ d.state \in Network \cup {Unset}
  /\ \A w \in Writer : \A r \in Request[w] : SettingsRequest(r)

TypeOK ==
  /\ config \in Config \cup {Torn} /\ secret \in Value
  /\ state \in Network \cup {Unset}
  /\ pc \in [Writer -> {"idle", "read", "check", "write", "secret"}]
  /\ DOMAIN req = Writer
  /\ \A w \in Writer : pc[w] # "idle" => req[w] \in Request[w]
  /\ seen \in [Writer -> Config \cup {Torn}]
  /\ \A w \in Writer : pc[w] \in {"check", "write"} => seen[w] \in Config
  /\ \A w \in Writer : pc[w] = "secret" => req[w].secret \in Value
  /\ raced \in [Writer -> BOOLEAN]
  /\ lpc \in [Loader -> {"idle", "save"}]
  /\ loaded \in [Loader -> Network \cup {Unset}]
  /\ \A l \in Loader : lpc[l] = "save" => loaded[l] \in Network
  /\ group \in Network \cup {Unset, Fixed}
  /\ used \subseteq Network

Or(a, b) == IF a # Unset THEN a ELSE b

-----------------------------------------------------------------------------
(* Reading.                                                                *)

\* wireless.address out of the keys it replaces: the address, or the first
\* host of the subnet.  The prefix length is left out.
MigrateAddress(f) ==
  IF f["address"] # Unset \/ f["wireless.subnet"] = Bad
  THEN f["address"] ELSE f["wireless.subnet"]

Normalize(f) ==
  [k \in Key |->
     CASE k \in LegacyKeys       -> Unset
       [] k = "socket.bind"      -> Or(f[k], f["listen"])
       [] k = "web.bind"         -> Or(f[k], f["web_addr"])
       [] k = "socket.chmod"     -> Or(f[k], Or(f["socket.perm"], f["socket_perms"]))
       [] k = "wireless.address" -> Or(f[k], MigrateAddress(f))
       [] OTHER                  -> f[k]]

\* The secret file wins over the key in config.json.
ResolveSecret(f, s) == Or(s, f["secret"])

ValidWebTLS(f) ==
  (f["web.tls.cert_file"] # Unset) <=> (f["web.tls.key_file"] # Unset)

\* Custom arguments must read pipe:0 and write pipe:1; Bad stands for a list
\* that does not.
ValidateVideo(f) ==
  /\ f["video.hwaccel"] # Bad /\ f["video.ffmpeg_profile"] # Bad
  /\ f["video.ffmpeg_path"] # Bad
  /\ f["video.hwaccel"] = "custom" =>
       /\ f["video.ffmpeg_args.input"] \notin {Unset, Bad}
       /\ f["video.ffmpeg_args.output"] \notin {Unset, Bad}

ValidateWebRTC(f) == f["webrtc.stun_servers"] # Bad

\* The address is only looked at when there is an interface to put it on.
BuildNetwork(f) == f["wireless.interface"] # Unset => f["wireless.address"] # Bad

BuildServerInfo(f, s) ==
  \A k \in {"rcd.ident", "rcd.master_key"} : f[k] # Bad /\ (f[k] = Unset => s # Unset)

\* The network to run on, what state.json holds afterwards, and whether it
\* must be written (buildGroupInfo); n is the network a mint would give.
ValidGroup(f) ==
  /\ (f["wireless.ssid"] # Unset) <=> (f["wireless.psk"] # Unset)
  /\ f["wireless.ssid"] # Bad /\ f["wireless.psk"] # Bad
  /\ f["wireless.channel"] # Bad

BuildGroupInfo(f, st, n) ==
  IF f["wireless.ssid"] # Unset THEN [group |-> Fixed, next |-> st, dirty |-> FALSE]
  ELSE IF st # Unset /\ st \notin LongNames
       THEN [group |-> st, next |-> st, dirty |-> FALSE]
       ELSE [group |-> n, next |-> n, dirty |-> TRUE]

\* Whether buildRuntime accepts the file with the secret s.
BuildRuntime(f, s) ==
  /\ f["socket.bind"] # Bad
  /\ BuildNetwork(f)
  /\ ValidGroup(f)
  /\ BuildServerInfo(f, s)
  /\ f["socket.chmod"] # Bad
  /\ ValidateVideo(f)
  /\ ValidateWebRTC(f)

\* Load succeeds on these files; so does the web backend's own reading of them.
Loads(f, s) ==
  /\ f # Torn
  /\ BuildRuntime(Normalize(f), ResolveSecret(f, s))
  /\ ValidWebTLS(f)

\* What is installed loads: an installation starts with files that do.
ASSUME DiskAssumption == \A d \in Disk : Loads(d.config, d.secret)

-----------------------------------------------------------------------------
(* Writing.                                                                *)

\* The patch of a request: `komitake set' passes what was given, the web
\* backend every service key, and the other parts when the body has them; what
\* the body does not name it reads as empty.
ServiceChanges(given) ==
  [k \in ServiceKeys \cup DOMAIN given |->
     LET v == IF k \in DOMAIN given THEN given[k] ELSE Unset
     IN  IF k = "video.hwaccel" THEN Or(v, "auto") ELSE v]

Changes(w) == IF w \in Browser THEN ServiceChanges(req[w].given) ELSE req[w].given

\* migrateRawConfig: the address is carried over, the other legacy keys go.
\* Mutant: the address goes too.
MigrateRawDrops(f) == [k \in Key |-> IF k \in LegacyKeys THEN Unset ELSE f[k]]

MigrateRaw(f) ==
  [k \in Key |->
     CASE k \in LegacyKeys       -> Unset
       [] k = "wireless.address" -> Or(f[k], MigrateAddress(f))
       [] OTHER                  -> f[k]]

\* applySettingsChanges: an empty value removes its key.
Patched(f, patch) == [k \in Key |-> IF k \in DOMAIN patch THEN patch[k] ELSE f[k]]

TLSKeys == {"web.tls.enabled", "web.tls.cert_file", "web.tls.key_file"}

\* The keys whose value is checked on its own.
CheckedKeys ==
  {"web.bind", "socket.bind", "socket.chmod", "wireless.address",
   "wireless.channel", "wireless.psk", "video.hwaccel", "video.ffmpeg_path",
   "video.ffmpeg_profile", "webrtc.stun_servers"}

\* Each value given must pass its own check, and with what the file already
\* holds where several make one setting.
ValidateChanges(f, patch) ==
  /\ \A k \in DOMAIN patch \cap CheckedKeys : patch[k] # Bad
  /\ "video.hwaccel" \in DOMAIN patch => patch["video.hwaccel"] # Unset
  /\ TLSKeys \cap DOMAIN patch # {} => ValidWebTLS(Patched(f, patch))
  /\ {"video.hwaccel", "video.ffmpeg_path", "video.ffmpeg_profile",
      "video.ffmpeg_args.input", "video.ffmpeg_args.output"} \cap DOMAIN patch # {} =>
       ValidateVideo(Patched(f, patch))
  /\ ("wireless.ssid" \in DOMAIN patch) <=> ("wireless.psk" \in DOMAIN patch)

\* The secret the result is checked with: the pending one, not the file's.
PendingSecret(w) ==
  IF req[w].secret = Keep THEN ResolveSecret(seen[w], secret) ELSE req[w].secret

Done(w) ==
  /\ pc' = [pc EXCEPT ![w] = "idle"]
  /\ req' = [req EXCEPT ![w] = Unset]
  /\ seen' = [seen EXCEPT ![w] = Torn]
  /\ raced' = [raced EXCEPT ![w] = FALSE]

Init ==
  /\ \E d \in Disk : config = d.config /\ secret = d.secret /\ state = d.state
  /\ pc = [w \in Writer |-> "idle"]
  /\ req = [w \in Writer |-> Unset]
  /\ seen = [w \in Writer |-> Torn]
  /\ raced = [w \in Writer |-> FALSE]
  /\ lpc = [l \in Loader |-> "idle"]
  /\ loaded = [l \in Loader |-> Unset]
  /\ group = Unset
  /\ used = {}

\* The web backend asks for the lock (web.allow_config) before it starts, and
\* not again: ApplySettingsChanges reads the file anew.
Begin(w, r) ==
  /\ pc[w] = "idle"
  /\ w \in Browser => config # Torn /\ config["web.allow_config"] # "false"
  /\ pc' = [pc EXCEPT ![w] = "read"]
  /\ req' = [req EXCEPT ![w] = r]
  /\ UNCHANGED <<files, seen, raced, daemonVars>>

Read(w) ==
  /\ pc[w] = "read"
  /\ IF config # Torn /\ ValidateChanges(Normalize(MigrateRaw(config)), Changes(w))
     THEN /\ pc' = [pc EXCEPT ![w] = "check"]
          /\ seen' = [seen EXCEPT ![w] = MigrateRaw(config)]
          /\ raced' = [raced EXCEPT ![w] = FALSE]
          /\ UNCHANGED req
     ELSE Done(w)
  /\ UNCHANGED <<files, daemonVars>>

\* The whole result is checked before anything is written.
Check(w) ==
  /\ pc[w] = "check"
  /\ IF BuildRuntime(Normalize(Patched(seen[w], Changes(w))), PendingSecret(w))
     THEN /\ pc' = [pc EXCEPT ![w] = "write"]
          /\ UNCHANGED <<req, seen, raced>>
     ELSE Done(w)
  /\ UNCHANGED <<files, daemonVars>>

\* The rename of config.json: what was read, with the patch.  The secret file
\* comes after it.
\* Mutant: the file is written in place, so there is a moment when it is not
\* whole.
WriteConfigInPlace(w) ==
  /\ pc[w] = "write"
  /\ IF config # Torn
     THEN config' = Torn /\ UNCHANGED <<pc, req, seen, raced>>
     ELSE config' = Patched(seen[w], Changes(w)) /\ Done(w)
  /\ UNCHANGED <<secret, daemonVars>>

WriteConfig(w) ==
  /\ pc[w] = "write"
  /\ config' = Patched(seen[w], Changes(w))
  /\ raced' = [v \in Writer |-> v # w /\ pc[v] \in {"check", "write"}]
  /\ IF req[w].secret = Keep
     THEN /\ pc' = [pc EXCEPT ![w] = "idle"]
          /\ req' = [req EXCEPT ![w] = Unset]
     ELSE /\ pc' = [pc EXCEPT ![w] = "secret"]
          /\ UNCHANGED req
  /\ seen' = [seen EXCEPT ![w] = Torn]
  /\ UNCHANGED <<secret, daemonVars>>

WriteSecret(w) ==
  /\ pc[w] = "secret"
  /\ secret' = req[w].secret
  /\ Done(w)
  /\ UNCHANGED <<config, daemonVars>>

\* A read or a write fails, or the process ends: what was renamed stays, a
\* temporary file does not count.
Stop(w) ==
  /\ pc[w] # "idle"
  /\ Done(w)
  /\ UNCHANGED <<files, daemonVars>>

-----------------------------------------------------------------------------
(* The daemon.                                                             *)

Finish(l, g) ==
  /\ lpc' = [lpc EXCEPT ![l] = "idle"]
  /\ loaded' = [loaded EXCEPT ![l] = Unset]
  /\ IF l = Starting
     THEN group' = g /\ used' = used \cup ({g} \cap Network)
     ELSE UNCHANGED <<group, used>>

\* NewGameGroup: a random name, never one that was seen before.
Minted == Network \ (LongNames \cup used \cup {state})

\* Load, at the start of the process and on Reload, which takes only the video
\* settings from it.  What it reads is read in one step; a load that fails
\* leaves the daemon as it was.
Load(l) ==
  /\ lpc[l] = "idle" /\ Loads(config, secret)
  /\ (l = Starting) <=> (group = Unset)
  /\ \E n \in Minted :
       LET b == BuildGroupInfo(Normalize(config), state, n)
       IN  IF b.dirty
           THEN /\ lpc' = [lpc EXCEPT ![l] = "save"]
                /\ loaded' = [loaded EXCEPT ![l] = n]
                /\ UNCHANGED <<group, used>>
           ELSE Finish(l, b.group)
  /\ UNCHANGED <<files, writerVars, state>>

\* writePersistentState comes before the network is used; when it fails, so
\* does the load.
\* Mutant: its failure is ignored.
SaveStateOrNot(l) ==
  /\ lpc[l] = "save"
  /\ state' = loaded[l] \/ UNCHANGED state
  /\ Finish(l, loaded[l])
  /\ UNCHANGED <<files, writerVars>>

SaveState(l) ==
  /\ lpc[l] = "save"
  /\ \/ state' = loaded[l] /\ Finish(l, loaded[l])
     \/ UNCHANGED state /\ Finish(l, Unset)
  /\ UNCHANGED <<files, writerVars>>

\* The process ends or is killed, its Reload calls with it.
DaemonStops ==
  /\ group # Unset \/ lpc[Starting] # "idle"
  /\ lpc' = [l \in Loader |-> "idle"]
  /\ loaded' = [l \in Loader |-> Unset]
  /\ group' = Unset
  /\ UNCHANGED <<files, writerVars, state, used>>

Next ==
  \/ \E w \in Writer :
       \/ \E r \in Request[w] : Begin(w, r)
       \/ Read(w) \/ Check(w) \/ WriteConfig(w) \/ WriteSecret(w) \/ Stop(w)
  \/ \E l \in Loader : Load(l) \/ SaveState(l)
  \/ DaemonStops

Spec == Init /\ [][Next]_vars

-----------------------------------------------------------------------------
(* Properties.                                                             *)

\* Whatever the writers were doing when they, or the disk, stopped, the daemon
\* and the web backend can start on the files they left: each rename installs a
\* file that was checked as a whole, and the secret written after it is the one
\* it was checked with (ApplySettingsChanges, writeFileAtomic).
AlwaysLoadable == Loads(config, secret)

\* Karts are taught the minted network when they pair: through crashes, failed
\* saves, edits of ssid and psk and concurrent reloads, the daemon never runs on
\* two of them (buildGroupInfo, Load).
OneGameNetwork == Cardinality(used) <= 1

\* What a write leaves of a key it was not given: a browser's body stands for
\* every service key, also for those it leaves out; a listener keeps what its
\* own key says, and an older key is dropped with what it said; anything else
\* keeps its meaning, the address under an older key too.
Listeners == {"socket.bind", "web.bind", "socket.chmod"}

Remains(w, k) ==
  IF w \in Browser /\ k \in ServiceKeys
  THEN IF k = "video.hwaccel" THEN "auto" ELSE Unset
  ELSE IF k \in Listeners THEN config[k] ELSE Normalize(config)[k]

Installs(w) == pc[w] = "write" /\ config' # config /\ pc'[w] # "write" /\ ~raced[w]

\* A write leaves of the other settings exactly that, unless another writer
\* renamed the file between its reading and its writing (ApplySettingsChanges,
\* migrateRawConfig, the settings plugin).
OnlyAskedChanges ==
  [][\A w \in Writer : Installs(w) =>
       \A k \in Key \ DOMAIN req[w].given : Normalize(config')[k] = Remains(w, k)]_vars

\* set.go:13, "Only non-nil fields are patched; everything else in config.json
\* is preserved", and settings.go:149, "Legacy keys are migrated": `komitake
\* set' changes the meaning of no key it was not given.
AllElseIsPreserved ==
  [][\A w \in Operator : Installs(w) =>
       \A k \in Key \ DOMAIN req[w].given :
         Normalize(config')[k] = Normalize(config)[k]]_vars

\* settings.go:199, "a partial PUT never clobbers existing values it did not
\* send": neither does the body of a browser.
PartialPutKeeps ==
  [][\A w \in Browser : Installs(w) =>
       \A k \in Key \ (DOMAIN req[w].given \cup Listeners \cup {"video.hwaccel"}) :
         Normalize(config')[k] = Normalize(config)[k]]_vars

=============================================================================
