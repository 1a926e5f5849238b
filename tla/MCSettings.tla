----------------------------- MODULE MCSettings -----------------------------
(* One `komitake set' and one browser write, while the daemon starts,      *)
(* reloads twice at once and stops, from four kinds of installation.       *)
EXTENDS Settings, TLC

CONSTANTS cli, web, r1, r2, old, n1, n2

Empty == [k \in Key |-> Unset]

\* As installed; from an older build, with its listeners and network under older
\* keys and its secret in config.json; with its own certificate and keys instead
\* of a secret; with a fixed network and a list of STUN servers.
Fresh  == [config |-> Empty, secret |-> "s1", state |-> Unset]
Legacy == [config |-> ("secret" :> "s0" @@ "address" :> "host"
                         @@ "wireless.subnet" :> "net"
                         @@ "wireless.interface" :> "wlan0" @@ "listen" :> "tcp"
                         @@ "web_addr" :> "all" @@ "socket_perms" :> "0660") @@ Empty,
           secret |-> Unset, state |-> old]
Own    == [config |-> ("web.tls.cert_file" :> "cert" @@ "web.tls.key_file" :> "key"
                         @@ "rcd.ident" :> "id" @@ "rcd.master_key" :> "mk") @@ Empty,
           secret |-> Unset, state |-> Unset]
Chosen == [config |-> ("wireless.ssid" :> "ssid" @@ "wireless.psk" :> "psk"
                         @@ "webrtc.stun_servers" :> "stun") @@ Empty,
           secret |-> "s1", state |-> Unset]
Disks  == {Fresh, Legacy, Own, Chosen}

Set(given) == [given |-> given, secret |-> Keep]

Commands ==
  {Set("wireless.ssid" :> "mine" @@ "wireless.psk" :> "psk"),
   Set("wireless.ssid" :> Unset @@ "wireless.psk" :> Unset),
   Set("wireless.ssid" :> "mine" @@ "wireless.psk" :> Unset),
   Set("web.tls.cert_file" :> Unset),
   Set("wireless.address" :> Bad),
   Set("video.ffmpeg_args.input" :> Unset),
   [given |-> "web.allow_config" :> "false", secret |-> "s2"],
   [given |-> << >>, secret |-> Unset]}

\* The settings page sends every service key; another client of the API leaves
\* out the list of servers.
Service(more) == more @@ "video.hwaccel" :> "auto" @@ [k \in ServiceKeys |-> Unset]

Without(given, left) == [k \in DOMAIN given \ {left} |-> given[k]]

Bodies ==
  {Set(Service("autostart" :> "no" @@ "rcd.name" :> Unset @@ "pairing_file" :> Unset
                 @@ "video.ffmpeg_args.output" :> Bad)),
   Set(Without(Service("video.hwaccel" :> "custom" @@ "video.ffmpeg_args.input" :> "in"
                         @@ "video.ffmpeg_args.output" :> "out"), "webrtc.stun_servers"))}

Values == {Unset, Bad, "auto", "s0", "s1", "s2", "host", "net", "wlan0", "cert",
           "key", "id", "mk", "ssid", "psk", "mine", "custom", "in", "out", "no",
           "false", "tcp", "all", "0660", "stun"}

Symmetry == Permutations({n1, n2}) \cup Permutations({r1, r2})

Requests == (cli :> Commands) @@ (web :> Bodies)

=============================================================================
