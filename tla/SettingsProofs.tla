-------------------------- MODULE SettingsProofs --------------------------
(***************************************************************************)
(* The configuration, for any writers, requests, installations and values. *)
(***************************************************************************)
EXTENDS Settings, FiniteSetTheorems, TLAPS

-----------------------------------------------------------------------------
(* What reading and writing do to a file.                                  *)

\* The keys that Normalize takes from older ones as well.
Migrated == {"socket.bind", "web.bind", "socket.chmod", "wireless.address"}

\* The keys that say who the daemon is, which no request can patch.
Identity == {"rcd.ident", "rcd.master_key", "secret"}

\* The keys of the identity, and of the certificate, are neither older keys
\* nor taken from older ones, and the former are not patched.
LEMMA KeySets ==
  /\ Identity \subseteq Key \ (LegacyKeys \cup Migrated)
  /\ Identity \cap PatchKeys = {}
  /\ TLSKeys \subseteq PatchKeys
  /\ TLSKeys \cap (LegacyKeys \cup Migrated) = {}
  /\ LegacyKeys \cap PatchKeys = {}
  /\ Migrated \subseteq PatchKeys /\ PatchKeys \subseteq Key /\ LegacyKeys \subseteq Key
<1>1. Identity \subseteq Key \ (LegacyKeys \cup Migrated)
  BY DEF Identity, Key, LegacyKeys, Migrated
<1>2. Identity \cap PatchKeys = {}
  BY DEF Identity, PatchKeys, ServiceKeys, GeneralKeys, WirelessKeys
<1>3. TLSKeys \subseteq PatchKeys
  BY DEF TLSKeys, PatchKeys, ServiceKeys
<1>4. TLSKeys \cap (LegacyKeys \cup Migrated) = {}
  BY DEF TLSKeys, LegacyKeys, Migrated
<1>5. LegacyKeys \cap PatchKeys = {}
  BY DEF LegacyKeys, PatchKeys, ServiceKeys, GeneralKeys, WirelessKeys
<1>6. Migrated \subseteq PatchKeys /\ PatchKeys \subseteq Key /\ LegacyKeys \subseteq Key
  BY DEF Migrated, PatchKeys, ServiceKeys, WirelessKeys, Key
<1> QED
  BY <1>1, <1>2, <1>3, <1>4, <1>5, <1>6

\* Normalize leaves a key as it is unless it is an older key, or is taken from
\* one as well.
LEMMA NormalizeKeeps ==
  ASSUME NEW f, NEW k \in Key \ (LegacyKeys \cup Migrated)
  PROVE  Normalize(f)[k] = f[k]
BY DEF Normalize, Migrated

\* migrateRawConfig leaves every key but the older ones and the address, and
\* its result holds values.
LEMMA MigrateRawKeeps ==
  ASSUME NEW f \in Config
  PROVE  /\ MigrateRaw(f) \in Config
         /\ \A k \in Key \ (LegacyKeys \cup {"wireless.address"}) :
              MigrateRaw(f)[k] = f[k]
<1>1. ASSUME NEW k \in Key
      PROVE  MigrateRaw(f)[k] \in Value
  <2>1. CASE k \in LegacyKeys
    <3>1. k # "wireless.address"
      BY <2>1 DEF LegacyKeys
    <3> QED
      BY <2>1, <3>1, SettingsAssumption DEF MigrateRaw
  <2>2. CASE k \notin LegacyKeys /\ k = "wireless.address"
    <3>1. {k, "address", "wireless.subnet"} \subseteq Key
      BY KeySets DEF LegacyKeys
    <3>2. Or(f[k], MigrateAddress(f)) \in Value
      BY <3>1 DEF Or, MigrateAddress, Config
    <3>3. MigrateRaw(f)[k] = Or(f[k], MigrateAddress(f))
      BY <2>2 DEF MigrateRaw
    <3> QED
      BY <3>2, <3>3
  <2>3. CASE k \notin LegacyKeys /\ k # "wireless.address"
    BY <2>3 DEF MigrateRaw, Config
  <2> QED
    BY <2>1, <2>2, <2>3
<1>2. MigrateRaw(f) \in Config
  <2>1. MigrateRaw(f) = [k \in Key |-> MigrateRaw(f)[k]]
    BY DEF MigrateRaw
  <2> QED
    BY <1>1, <2>1 DEF Config
<1>3. ASSUME NEW k \in Key \ (LegacyKeys \cup {"wireless.address"})
      PROVE  MigrateRaw(f)[k] = f[k]
  BY DEF MigrateRaw
<1> QED
  BY <1>2, <1>3

\* A patch changes the keys it names, to the values it gives.
LEMMA PatchedKeeps ==
  ASSUME NEW f \in Config, NEW patch, DOMAIN patch \subseteq PatchKeys,
         \A k \in DOMAIN patch : patch[k] \in Value
  PROVE  /\ Patched(f, patch) \in Config
         /\ \A k \in Key \ DOMAIN patch : Patched(f, patch)[k] = f[k]
         /\ \A k \in Identity : Patched(f, patch)[k] = f[k]
<1>1. Patched(f, patch) \in Config
  BY DEF Patched, Config
<1>2. \A k \in Key \ DOMAIN patch : Patched(f, patch)[k] = f[k]
  BY DEF Patched
<1> QED
  BY <1>1, <1>2, KeySets

\* The patch a request comes to names keys that may be patched.
LEMMA ChangesArePatch ==
  ASSUME NEW w \in Writer, req[w] \in Request[w]
  PROVE  /\ DOMAIN Changes(w) \subseteq PatchKeys
         /\ \A k \in DOMAIN Changes(w) : Changes(w)[k] \in Value
         /\ DOMAIN req[w].given \subseteq DOMAIN Changes(w)
<1>1. SettingsRequest(req[w])
  BY SettingsAssumption
<1>2. CASE w \in Browser
  <2> DEFINE given == req[w].given
  <2>1. Changes(w) = ServiceChanges(given)
    BY <1>2 DEF Changes
  <2>2. DOMAIN ServiceChanges(given) = ServiceKeys \cup DOMAIN given
    BY DEF ServiceChanges
  <2>3. ServiceKeys \subseteq PatchKeys
    BY DEF PatchKeys
  <2>4. ASSUME NEW k \in ServiceKeys \cup DOMAIN given
        PROVE  ServiceChanges(given)[k] \in Value
    <3> DEFINE v == IF k \in DOMAIN given THEN given[k] ELSE Unset
    <3>1. v \in Value /\ Or(v, "auto") \in Value
      BY <1>1, SettingsAssumption DEF SettingsRequest, Or
    <3> QED
      BY <3>1 DEF ServiceChanges
  <2> QED
    BY <1>1, <2>1, <2>2, <2>3, <2>4 DEF SettingsRequest
<1>3. CASE w \notin Browser
  BY <1>1, <1>3 DEF Changes, SettingsRequest
<1> QED
  BY <1>2, <1>3

-----------------------------------------------------------------------------
(* Types.                                                                  *)

\* A writer that is through, or stopped, leaves the types of writers.
LEMMA DoneTypes ==
  ASSUME TypeOK, NEW w \in Writer, Done(w), UNCHANGED <<files, daemonVars>>
  PROVE  TypeOK'
BY DEF TypeOK, Done, files, daemonVars

\* Every step keeps the types.
LEMMA TypesStep ==
  ASSUME TypeOK, [Next]_vars
  PROVE  TypeOK'
<1>1. ASSUME NEW w \in Writer, NEW r \in Request[w], Begin(w, r)
      PROVE  TypeOK'
  BY <1>1 DEF TypeOK, Begin, files, daemonVars
<1>2. ASSUME NEW w \in Writer, Read(w)
      PROVE  TypeOK'
  <2>1. CASE Done(w)
    BY <1>2, <2>1, DoneTypes DEF Read
  <2>2. CASE ~Done(w)
    <3>1. MigrateRaw(config) \in Config
      BY <1>2, <2>2, MigrateRawKeeps DEF Read, TypeOK
    <3>2. /\ pc' = [pc EXCEPT ![w] = "check"]
          /\ seen' = [seen EXCEPT ![w] = MigrateRaw(config)]
          /\ raced' = [raced EXCEPT ![w] = FALSE]
          /\ UNCHANGED <<req, files, daemonVars>> /\ pc[w] = "read"
      BY <1>2, <2>2 DEF Read
    <3> QED
      BY <3>1, <3>2 DEF TypeOK, files, daemonVars
  <2> QED
    BY <2>1, <2>2
<1>3. ASSUME NEW w \in Writer, Check(w)
      PROVE  TypeOK'
  <2>1. CASE Done(w)
    BY <1>3, <2>1, DoneTypes DEF Check
  <2>2. CASE ~Done(w)
    BY <1>3, <2>2 DEF Check, TypeOK, files, daemonVars
  <2> QED
    BY <2>1, <2>2
<1>4. ASSUME NEW w \in Writer, WriteConfig(w)
      PROVE  TypeOK'
  <2>1. config' \in Config
    BY <1>4, ChangesArePatch, PatchedKeeps DEF WriteConfig, TypeOK
  <2>2. raced' \in [Writer -> BOOLEAN]
    BY <1>4, Zenon DEF WriteConfig
  <2>3. req[w] \in Request[w] /\ req[w].secret \in Value \cup {Keep}
    BY <1>4, SettingsAssumption DEF WriteConfig, TypeOK, SettingsRequest
  <2> QED
    BY <1>4, <2>1, <2>2, <2>3 DEF WriteConfig, TypeOK, daemonVars
<1>5. ASSUME NEW w \in Writer, WriteSecret(w)
      PROVE  TypeOK'
  BY <1>5 DEF WriteSecret, Done, TypeOK, daemonVars
<1>6. ASSUME NEW w \in Writer, Stop(w)
      PROVE  TypeOK'
  BY <1>6, DoneTypes DEF Stop
<1>7. ASSUME NEW l \in Loader, Load(l)
      PROVE  TypeOK'
  BY <1>7, SettingsAssumption
  DEF Load, TypeOK, Finish, BuildGroupInfo, Minted, files, writerVars
<1>8. ASSUME NEW l \in Loader, SaveState(l)
      PROVE  TypeOK'
  BY <1>8 DEF SaveState, TypeOK, Finish, files, writerVars
<1>9. ASSUME DaemonStops
      PROVE  TypeOK'
  BY <1>9 DEF DaemonStops, TypeOK, files, writerVars
<1>10. CASE UNCHANGED vars
  BY <1>10 DEF vars, TypeOK, files, writerVars, daemonVars
<1> QED
  BY <1>1, <1>2, <1>3, <1>4, <1>5, <1>6, <1>7, <1>8, <1>9, <1>10 DEF Next

\* Every file, request and network is one of its kind.
THEOREM TypeCorrect == Spec => []TypeOK
<1>1. Init => TypeOK
  BY SettingsAssumption DEF Init, TypeOK
<1>2. TypeOK /\ [Next]_vars => TypeOK'
  BY TypesStep
<1> QED
  BY <1>1, <1>2, PTL DEF Spec

-----------------------------------------------------------------------------
(* The network.                                                            *)

\* A network that was used is the one state.json holds, and is never replaced;
\* a load that has minted one found that none had been used; and while the
\* start still has to save, no Reload does.
NetworkInv ==
  /\ used # {} => used = {state} /\ state \notin LongNames
  /\ \A l \in Loader : lpc[l] = "save" => used = {} /\ loaded[l] \notin LongNames
  /\ lpc[Starting] = "save" => group = Unset
  /\ \A l \in Reloader : lpc[l] = "save" => group # Unset

\* What buildGroupInfo settles on: a fixed network, the saved one, or, if that
\* is missing or of an older build, the minted one.
LEMMA GroupIsSettled ==
  ASSUME NEW f, NEW st, NEW n
  PROVE  LET b == BuildGroupInfo(f, st, n)
         IN  /\ b.dirty => st = Unset \/ st \in LongNames
             /\ ~b.dirty => b.group = Fixed
                              \/ (b.group = st /\ st # Unset /\ st \notin LongNames)
BY DEF BuildGroupInfo

\* Every load and every save keeps the network that was used.
LEMMA NetworkStep ==
  ASSUME TypeOK, NetworkInv, [Next]_vars
  PROVE  NetworkInv'
<1>1. ASSUME NEW l \in Loader, Load(l)
      PROVE  NetworkInv'
  <2>1. PICK n \in Minted :
          LET b == BuildGroupInfo(Normalize(config), state, n)
          IN  IF b.dirty
              THEN /\ lpc' = [lpc EXCEPT ![l] = "save"]
                   /\ loaded' = [loaded EXCEPT ![l] = n]
                   /\ UNCHANGED <<group, used>>
              ELSE Finish(l, b.group)
    BY <1>1 DEF Load
  <2> DEFINE b == BuildGroupInfo(Normalize(config), state, n)
  <2>2. /\ lpc[l] = "idle" /\ (l = Starting <=> group = Unset)
        /\ UNCHANGED state
    BY <1>1 DEF Load
  <2>3. /\ b.dirty => state = Unset \/ state \in LongNames
        /\ ~b.dirty => b.group = Fixed
                         \/ (b.group = state /\ state # Unset /\ state \notin LongNames)
    BY GroupIsSettled DEF TypeOK
  <2>4. CASE b.dirty
    <3>1. used = {}
      BY <2>3, <2>4, SettingsAssumption DEF NetworkInv, TypeOK
    <3>2. /\ lpc' = [lpc EXCEPT ![l] = "save"]
          /\ loaded' = [loaded EXCEPT ![l] = n]
          /\ UNCHANGED <<group, used>> /\ n \notin LongNames
      BY <2>1, <2>4 DEF Minted
    <3> QED
      BY <2>2, <3>1, <3>2, SettingsAssumption DEF NetworkInv, TypeOK, Loader
  <2>5. CASE ~b.dirty
    <3>1. Finish(l, b.group)
      BY <2>1, <2>5
    <3>2. CASE l = Starting
      <4>1. /\ used' = used \cup ({b.group} \cap Network) /\ group' = b.group
            /\ lpc' = [lpc EXCEPT ![l] = "idle"]
            /\ loaded' = [loaded EXCEPT ![l] = Unset]
        BY <3>1, <3>2 DEF Finish
      <4>2. \A r \in Loader : lpc[r] # "save"
        BY <2>2, <3>2 DEF NetworkInv, Loader
      <4>3. \A r \in Loader : lpc'[r] # "save"
        BY <4>1, <4>2 DEF TypeOK
      <4>4. used' = used \/ (used' = used \cup {state} /\ state \notin LongNames)
        BY <2>3, <2>5, <4>1, SettingsAssumption
      <4> QED
        BY <2>2, <4>3, <4>4 DEF NetworkInv, Loader
    <3>3. CASE l # Starting
      <4>1. /\ UNCHANGED <<group, used>> /\ lpc' = [lpc EXCEPT ![l] = "idle"]
            /\ loaded' = [loaded EXCEPT ![l] = Unset]
        BY <3>1, <3>3 DEF Finish
      <4> QED
        BY <2>2, <4>1 DEF NetworkInv, TypeOK, Loader
    <3> QED
      BY <3>2, <3>3
  <2> QED
    BY <2>4, <2>5
<1>2. ASSUME NEW l \in Loader, SaveState(l)
      PROVE  NetworkInv'
  <2>1. /\ lpc[l] = "save" /\ used = {} /\ loaded[l] \notin LongNames
        /\ lpc' = [lpc EXCEPT ![l] = "idle"]
        /\ loaded' = [loaded EXCEPT ![l] = Unset]
    BY <1>2 DEF SaveState, Finish, NetworkInv
  <2>2. CASE l = Starting
    <3>1. \A r \in Loader : lpc'[r] # "save"
      BY <2>1, <2>2 DEF NetworkInv, TypeOK, Loader
    <3>2. used' = {} \/ (used' = {loaded[l]} /\ state' = loaded[l])
      <4>1. CASE state' = loaded[l] /\ Finish(l, loaded[l])
        BY <2>1, <2>2, <4>1 DEF Finish
      <4>2. CASE UNCHANGED state /\ Finish(l, Unset)
        BY <2>1, <2>2, <4>2, SettingsAssumption DEF Finish
      <4> QED
        BY <1>2, <4>1, <4>2 DEF SaveState
    <3> QED
      BY <2>1, <3>1, <3>2 DEF NetworkInv, Loader
  <2>3. CASE l # Starting
    <3>1. UNCHANGED <<group, used>>
      BY <1>2, <2>3 DEF SaveState, Finish
    <3> QED
      BY <2>1, <3>1 DEF NetworkInv, TypeOK, Loader
  <2> QED
    BY <2>2, <2>3
<1>3. ASSUME DaemonStops
      PROVE  NetworkInv'
  BY <1>3 DEF DaemonStops, NetworkInv, Loader
<1>4. ASSUME NEW w \in Writer,
             (\E r \in Request[w] : Begin(w, r)) \/ Read(w) \/ Check(w)
             \/ WriteConfig(w) \/ WriteSecret(w) \/ Stop(w)
      PROVE  NetworkInv'
  BY <1>4
  DEF Begin, Read, Check, WriteConfig, WriteSecret, Stop, daemonVars, NetworkInv
<1>5. CASE UNCHANGED vars
  BY <1>5 DEF vars, daemonVars, NetworkInv
<1> QED
  BY <1>1, <1>2, <1>3, <1>4, <1>5 DEF Next

\* The networks that were used, the saved one and those being loaded agree in
\* every reachable state.
THEOREM NetworkIsKept == Spec => []NetworkInv
<1>1. Init => NetworkInv
  BY DEF Init, NetworkInv, Loader
<1>2. TypeOK /\ NetworkInv /\ [Next]_vars => NetworkInv'
  BY NetworkStep
<1> QED
  BY TypeCorrect, <1>1, <1>2, PTL DEF Spec

\* The daemon never runs on two networks that it has minted, through crashes,
\* failed saves, edits of ssid and psk, and Reloads at the same time.
THEOREM OneNetworkIsUsed == Spec => []OneGameNetwork
<1>1. NetworkInv => OneGameNetwork
  <2> SUFFICES ASSUME NetworkInv
               PROVE  Cardinality(used) <= 1
    BY DEF OneGameNetwork
  <2>1. CASE used = {}
    BY <2>1, FS_EmptySet
  <2>2. CASE used # {}
    <3>1. used = {state}
      BY <2>2 DEF NetworkInv
    <3>2. Cardinality({state}) = 1
      BY FS_Singleton
    <3> QED
      BY <3>1, <3>2
  <2> QED
    BY <2>1, <2>2
<1> QED
  BY NetworkIsKept, <1>1, PTL

-----------------------------------------------------------------------------
(* The files.                                                              *)

\* What buildRuntime asks of config.json itself, whatever the secret.
Settled(f) ==
  /\ f["socket.bind"] # Bad
  /\ BuildNetwork(f) /\ ValidGroup(f)
  /\ f["socket.chmod"] # Bad
  /\ ValidateVideo(f) /\ ValidateWebRTC(f)

\* What a writer will install: a file that was checked as a whole, with the
\* identity that config.json has, whoever rewrites it meanwhile; and no writer
\* removes the secret of an identity that is derived from it.
WriterChecked(w) ==
  /\ pc[w] \in {"check", "write"} =>
       /\ \A k \in Identity : seen[w][k] = config[k]
       /\ ValidWebTLS(Patched(seen[w], Changes(w)))
  /\ pc[w] = "write" => Settled(Normalize(Patched(seen[w], Changes(w))))
  /\ pc[w] \in {"write", "secret"} /\ req[w].secret = Unset =>
       config["rcd.ident"] # Unset /\ config["rcd.master_key"] # Unset

FilesInv == AlwaysLoadable /\ \A w \in Writer : WriterChecked(w)

\* buildRuntime checks the file, and the identity with the secret.
LEMMA RuntimeParts ==
  ASSUME NEW f, NEW s
  PROVE  BuildRuntime(f, s) <=> Settled(f) /\ BuildServerInfo(f, s)
BY DEF BuildRuntime, Settled

\* The identity is as good in one file as in another that has the same, with a
\* secret that is set where the other's was, or is not needed.
LEMMA ServerInfoKept ==
  ASSUME NEW f, NEW g, NEW s, NEW t,
         BuildServerInfo(Normalize(f), s),
         f["rcd.ident"] = g["rcd.ident"], f["rcd.master_key"] = g["rcd.master_key"],
         s # Unset => \/ t # Unset
                      \/ f["rcd.ident"] # Unset /\ f["rcd.master_key"] # Unset
  PROVE  BuildServerInfo(Normalize(g), t)
<1> DEFINE derived == {"rcd.ident", "rcd.master_key"}
<1>1. \A k \in derived : Normalize(f)[k] = f[k] /\ Normalize(g)[k] = g[k]
  <2>1. derived \subseteq Identity
    BY DEF Identity
  <2> QED
    BY <2>1, KeySets, NormalizeKeeps
<1> QED
  BY <1>1 DEF BuildServerInfo

\* The certificate and its key are valid in one file as in another that has
\* the same.
LEMMA WebTLSKept ==
  ASSUME NEW f, NEW g, \A k \in TLSKeys : f[k] = g[k], ValidWebTLS(f)
  PROVE  ValidWebTLS(g)
BY DEF ValidWebTLS, TLSKeys

\* What one writer will install stays checked while others act, for nobody
\* changes the identity.
LEMMA WriterApart ==
  ASSUME NEW w, WriterChecked(w), pc'[w] = pc[w] \/ pc'[w] \in {"idle", "read"},
         pc'[w] \in {"check", "write", "secret"} => req'[w] = req[w],
         pc'[w] \in {"check", "write"} => seen'[w] = seen[w],
         \A k \in Identity : config'[k] = config[k]
  PROVE  WriterChecked(w)'
<1>1. pc'[w] # "idle" /\ req'[w] = req[w] => Changes(w)' = Changes(w)
  BY DEF Changes
<1>2. {"rcd.ident", "rcd.master_key"} \subseteq Identity
  BY DEF Identity
<1> QED
  BY <1>1, <1>2 DEF WriterChecked

\* A read leaves what was read, and the patch, ready to be checked.
LEMMA ReadIsChecked ==
  ASSUME TypeOK, AlwaysLoadable, NEW w \in Writer, Read(w), ~Done(w)
  PROVE  WriterChecked(w)'
<1>1. /\ pc'[w] = "check" /\ seen'[w] = MigrateRaw(config) /\ req' = req
      /\ ValidateChanges(Normalize(MigrateRaw(config)), Changes(w))
      /\ UNCHANGED files /\ req[w] \in Request[w]
  BY DEF Read, TypeOK
<1>2. config \in Config
  BY DEF AlwaysLoadable, Loads, TypeOK
<1>3. \A k \in Identity : seen'[w][k] = config'[k]
  <2>1. "wireless.address" \notin Identity
    BY DEF Identity
  <2> QED
    BY <1>1, <1>2, <2>1, KeySets, MigrateRawKeeps DEF files
<1> DEFINE f == MigrateRaw(config)
           patch == Changes(w)
<1>4. ValidWebTLS(Patched(f, patch))
  <2>0. /\ f \in Config
        /\ \A k \in TLSKeys : f[k] = config[k] /\ Normalize(f)[k] = f[k] /\ k \in Key
    <3>1. "wireless.address" \notin TLSKeys
      BY DEF TLSKeys
    <3> QED
      BY <1>2, <3>1, KeySets, MigrateRawKeeps, NormalizeKeeps
  <2>1. CASE TLSKeys \cap DOMAIN patch # {}
    <3>1. ValidWebTLS(Patched(Normalize(f), patch))
      BY <1>1, <2>1 DEF ValidateChanges
    <3>2. \A k \in TLSKeys : Patched(Normalize(f), patch)[k] = Patched(f, patch)[k]
      BY <2>0 DEF Patched
    <3> QED
      BY <3>1, <3>2, WebTLSKept
  <2>2. CASE TLSKeys \cap DOMAIN patch = {}
    <3>1. \A k \in TLSKeys : Patched(f, patch)[k] = config[k]
      BY <2>0, <2>2 DEF Patched
    <3>2. ValidWebTLS(config)
      BY DEF AlwaysLoadable, Loads
    <3> QED
      BY <3>1, <3>2, WebTLSKept
  <2> QED
    BY <2>1, <2>2
<1>5. Changes(w)' = Changes(w)
  BY <1>1 DEF Changes
<1> QED
  BY <1>1, <1>3, <1>4, <1>5 DEF WriterChecked

\* The check of the whole is the one that the file must pass when it is read,
\* the secret included.
LEMMA CheckIsEnough ==
  ASSUME TypeOK, NEW w \in Writer, WriterChecked(w), Check(w), ~Done(w)
  PROVE  WriterChecked(w)'
<1> DEFINE f == Patched(seen[w], Changes(w))
<1>1. /\ pc[w] = "check" /\ pc'[w] = "write" /\ UNCHANGED <<req, seen, files>>
      /\ BuildRuntime(Normalize(f), PendingSecret(w))
      /\ req[w] \in Request[w] /\ seen[w] \in Config
  BY DEF Check, TypeOK
<1>2. Settled(Normalize(f)) /\ BuildServerInfo(Normalize(f), PendingSecret(w))
  BY <1>1, RuntimeParts
<1>3. \A k \in Identity : f[k] = config[k] /\ Normalize(f)[k] = f[k]
  <2>1. \A k \in Identity : f[k] = seen[w][k]
    BY <1>1, ChangesArePatch, PatchedKeeps
  <2> QED
    BY <1>1, <2>1, KeySets, NormalizeKeeps DEF WriterChecked
<1>4. req[w].secret = Unset =>
        config["rcd.ident"] # Unset /\ config["rcd.master_key"] # Unset
  BY <1>2, <1>3, SettingsAssumption DEF BuildServerInfo, PendingSecret, Identity
<1>5. Changes(w)' = Changes(w)
  BY <1>1 DEF Changes
<1> QED
  BY <1>1, <1>2, <1>4, <1>5 DEF WriterChecked, files

\* The rename installs a file that loads with the secret there is, and no writer
\* changes the identity.
LEMMA RenameLoads ==
  ASSUME TypeOK, FilesInv, NEW w \in Writer, WriteConfig(w)
  PROVE  AlwaysLoadable' /\ \A k \in Identity : config'[k] = config[k]
<1> DEFINE f == Patched(seen[w], Changes(w))
<1>1. /\ pc[w] = "write" /\ config' = f /\ UNCHANGED secret
      /\ req[w] \in Request[w] /\ seen[w] \in Config
  BY DEF WriteConfig, TypeOK
<1>2. f \in Config /\ \A k \in Identity : f[k] = seen[w][k]
  BY <1>1, ChangesArePatch, PatchedKeeps
<1>3. /\ \A k \in Identity : f[k] = config[k]
      /\ Settled(Normalize(f)) /\ ValidWebTLS(f)
  BY <1>1, <1>2 DEF FilesInv, WriterChecked
<1>4. BuildServerInfo(Normalize(f), ResolveSecret(f, secret))
  <2>1. BuildServerInfo(Normalize(config), ResolveSecret(config, secret))
    BY RuntimeParts DEF FilesInv, AlwaysLoadable, Loads
  <2>2. ResolveSecret(f, secret) = ResolveSecret(config, secret)
    BY <1>3 DEF ResolveSecret, Identity
  <2> QED
    BY <1>3, <2>1, <2>2, ServerInfoKept DEF Identity
<1>5. f # Torn
  BY <1>2, SettingsAssumption
<1>6. Loads(f, secret)
  BY <1>3, <1>4, <1>5, RuntimeParts DEF Loads
<1> QED
  BY <1>1, <1>3, <1>6 DEF AlwaysLoadable

\* The secret written after the rename is one that the file loads with, also
\* when the file is another writer's by then.
LEMMA SecretLoads ==
  ASSUME TypeOK, FilesInv, NEW w \in Writer, WriteSecret(w)
  PROVE  AlwaysLoadable'
<1>1. /\ pc[w] = "secret" /\ secret' = req[w].secret /\ UNCHANGED config
  BY DEF WriteSecret
<1>2. /\ config # Torn /\ ValidWebTLS(config) /\ Settled(Normalize(config))
      /\ BuildServerInfo(Normalize(config), ResolveSecret(config, secret))
  BY RuntimeParts DEF FilesInv, AlwaysLoadable, Loads
<1>3. req[w].secret = Unset =>
        config["rcd.ident"] # Unset /\ config["rcd.master_key"] # Unset
  BY <1>1 DEF FilesInv, WriterChecked
<1>4. BuildServerInfo(Normalize(config), ResolveSecret(config, secret'))
  BY <1>1, <1>2, <1>3, ServerInfoKept DEF ResolveSecret, Or
<1> QED
  BY <1>1, <1>2, <1>4, RuntimeParts DEF AlwaysLoadable, Loads

\* A step that leaves the files leaves them loadable.
LEMMA FilesKept ==
  ASSUME AlwaysLoadable, UNCHANGED files
  PROVE  AlwaysLoadable'
BY DEF AlwaysLoadable, files

\* Every step leaves files that load and writers that have checked theirs.
LEMMA FilesStep ==
  ASSUME TypeOK, FilesInv, [Next]_vars
  PROVE  FilesInv'
<1>1. ASSUME NEW w \in Writer, Done(w), UNCHANGED config
      PROVE  \A v \in Writer : WriterChecked(v)'
  BY <1>1, WriterApart DEF Done, TypeOK, FilesInv
<1>2. ASSUME NEW w \in Writer, NEW r \in Request[w], Begin(w, r)
      PROVE  FilesInv'
  <2>1. ASSUME NEW v \in Writer
        PROVE  WriterChecked(v)'
    BY <1>2, WriterApart DEF Begin, TypeOK, FilesInv, files
  <2> QED
    BY <1>2, <2>1, FilesKept DEF Begin, FilesInv
<1>3. ASSUME NEW w \in Writer, Read(w)
      PROVE  FilesInv'
  <2>1. AlwaysLoadable'
    BY <1>3, FilesKept DEF Read, FilesInv
  <2>2. CASE Done(w)
    BY <1>1, <1>3, <2>1, <2>2 DEF Read, FilesInv, files
  <2>3. CASE ~Done(w)
    <3>1. WriterChecked(w)'
      BY <1>3, <2>3, ReadIsChecked DEF FilesInv
    <3>2. ASSUME NEW v \in Writer \ {w}
          PROVE  WriterChecked(v)'
      BY <1>3, <2>3, WriterApart DEF Read, TypeOK, FilesInv, files
    <3> QED
      BY <2>1, <3>1, <3>2 DEF FilesInv
  <2> QED
    BY <2>2, <2>3
<1>4. ASSUME NEW w \in Writer, Check(w)
      PROVE  FilesInv'
  <2>1. AlwaysLoadable'
    BY <1>4, FilesKept DEF Check, FilesInv
  <2>2. CASE Done(w)
    BY <1>1, <1>4, <2>1, <2>2 DEF Check, FilesInv, files
  <2>3. CASE ~Done(w)
    <3>1. WriterChecked(w)'
      BY <1>4, <2>3, CheckIsEnough DEF FilesInv
    <3>2. ASSUME NEW v \in Writer \ {w}
          PROVE  WriterChecked(v)'
      BY <1>4, <2>3, WriterApart DEF Check, TypeOK, FilesInv, files
    <3> QED
      BY <2>1, <3>1, <3>2 DEF FilesInv
  <2> QED
    BY <2>2, <2>3
<1>5. ASSUME NEW w \in Writer, WriteConfig(w)
      PROVE  FilesInv'
  <2>1. AlwaysLoadable' /\ \A k \in Identity : config'[k] = config[k]
    BY <1>5, RenameLoads
  <2>2. ASSUME NEW v \in Writer \ {w}
        PROVE  WriterChecked(v)'
    BY <1>5, <2>1, WriterApart DEF WriteConfig, TypeOK, FilesInv
  <2>3. WriterChecked(w)'
    <3>1. /\ pc[w] = "write" /\ pc'[w] \in {"idle", "secret"}
          /\ pc'[w] = "secret" => req' = req
      BY <1>5 DEF WriteConfig, TypeOK
    <3>2. {"rcd.ident", "rcd.master_key"} \subseteq Identity
      BY DEF Identity
    <3> QED
      BY <2>1, <3>1, <3>2 DEF WriterChecked, FilesInv
  <2> QED
    BY <2>1, <2>2, <2>3 DEF FilesInv
<1>6. ASSUME NEW w \in Writer, WriteSecret(w)
      PROVE  FilesInv'
  BY <1>1, <1>6, SecretLoads DEF WriteSecret, FilesInv
<1>7. ASSUME NEW w \in Writer, Stop(w)
      PROVE  FilesInv'
  BY <1>1, <1>7, FilesKept DEF Stop, FilesInv, files
<1>8. ASSUME \/ \E l \in Loader : Load(l) \/ SaveState(l)
             \/ DaemonStops \/ UNCHANGED vars
      PROVE  FilesInv'
  <2>1. UNCHANGED <<files, writerVars>>
    BY <1>8 DEF Load, SaveState, DaemonStops, vars
  <2>2. ASSUME NEW v \in Writer
        PROVE  WriterChecked(v)'
    BY <2>1, WriterApart DEF FilesInv, files, writerVars
  <2> QED
    BY <2>1, <2>2, FilesKept DEF FilesInv
<1> QED
  BY <1>2, <1>3, <1>4, <1>5, <1>6, <1>7, <1>8 DEF Next

\* What is installed, and every writer has checked, loads in every reachable
\* state.
THEOREM FilesAreChecked == Spec => []FilesInv
<1>1. Init => FilesInv
  BY DiskAssumption DEF Init, FilesInv, AlwaysLoadable, WriterChecked
<1>2. TypeOK /\ FilesInv /\ [Next]_vars => FilesInv'
  BY FilesStep
<1> QED
  BY TypeCorrect, <1>1, <1>2, PTL DEF Spec

\* The daemon and the web backend can start on what the writers leave, whenever
\* and wherever they stop, and however they interleave.
THEOREM FilesAlwaysLoad == Spec => []AlwaysLoadable
<1>1. FilesInv => AlwaysLoadable
  BY DEF FilesInv
<1> QED
  BY FilesAreChecked, <1>1, PTL

-----------------------------------------------------------------------------
(* What a write changes.                                                   *)

\* A writer that no other has overtaken patches the file as it is.
SeenInv ==
  \A w \in Writer :
    pc[w] \in {"check", "write"} /\ ~raced[w] => seen[w] = MigrateRaw(config)

\* The file that a patch makes of f, with its older keys migrated.
Installed(f, patch) == Patched(MigrateRaw(f), patch)

\* It has no older key, so that a key is read as it says itself.
LEMMA InstalledReads ==
  ASSUME NEW f \in Config, NEW patch, DOMAIN patch \subseteq PatchKeys, NEW k \in Key
  PROVE  Normalize(Installed(f, patch))[k] = Installed(f, patch)[k]
<1> DEFINE g == Installed(f, patch)
<1>0. Migrated \cap LegacyKeys = {}
  BY KeySets
<1>1. \A o \in LegacyKeys : g[o] = Unset
  BY <1>0, KeySets DEF Installed, Patched, MigrateRaw, Migrated
<1>2. CASE k \in LegacyKeys
  BY <1>0, <1>1, <1>2 DEF Normalize, Migrated
<1>3. CASE k = "wireless.address"
  <2>1. k \notin LegacyKeys
    BY <1>3 DEF LegacyKeys
  <2>2. MigrateAddress(g) = Unset
    BY <1>1 DEF MigrateAddress, LegacyKeys
  <2>3. Normalize(g)[k] = Or(g[k], MigrateAddress(g))
    BY <1>3, <2>1 DEF Normalize
  <2> QED
    BY <2>2, <2>3 DEF Or
<1>4. CASE k \in Listeners
  <2>1. k \notin LegacyKeys
    BY <1>4 DEF LegacyKeys, Listeners
  <2>2. \A o \in {"listen", "web_addr", "socket.perm", "socket_perms"} : g[o] = Unset
    BY <1>1 DEF LegacyKeys
  <2>3. CASE k = "socket.bind"
    BY <2>1, <2>2, <2>3 DEF Normalize, Or
  <2>4. CASE k = "web.bind"
    BY <2>1, <2>2, <2>4 DEF Normalize, Or
  <2>5. CASE k = "socket.chmod"
    BY <2>1, <2>2, <2>5 DEF Normalize, Or
  <2> QED
    BY <1>4, <2>3, <2>4, <2>5 DEF Listeners
<1>5. CASE k \notin LegacyKeys \cup Listeners \cup {"wireless.address"}
  BY <1>5 DEF Normalize, Listeners
<1> QED
  BY <1>2, <1>3, <1>4, <1>5

\* Outside the patch it means what f meant, but for the listeners, which f may
\* have had under an older key.
LEMMA PatchPreserves ==
  ASSUME NEW f \in Config, NEW patch, DOMAIN patch \subseteq PatchKeys,
         NEW k \in Key \ DOMAIN patch
  PROVE  Normalize(Installed(f, patch))[k] =
           IF k \in Listeners THEN f[k] ELSE Normalize(f)[k]
<1> DEFINE g == Installed(f, patch)
<1>1. Normalize(g)[k] = MigrateRaw(f)[k]
  BY InstalledReads DEF Installed, Patched
<1>2. CASE k \in LegacyKeys
  <2>1. k \notin Migrated /\ k \notin Listeners
    BY <1>2, KeySets DEF Migrated, Listeners
  <2> QED
    BY <1>1, <1>2, <2>1 DEF Normalize, MigrateRaw, Migrated
<1>3. CASE k = "wireless.address"
  <2>1. k \notin LegacyKeys /\ k \notin Listeners
    BY <1>3 DEF LegacyKeys, Listeners
  <2> QED
    BY <1>1, <1>3, <2>1 DEF Normalize, MigrateRaw
<1>4. CASE k \in Listeners
  <2>1. k \notin LegacyKeys /\ k # "wireless.address"
    BY <1>4 DEF LegacyKeys, Listeners
  <2> QED
    BY <1>1, <1>4, <2>1 DEF MigrateRaw
<1>5. CASE k \notin LegacyKeys \cup Listeners \cup {"wireless.address"}
  BY <1>1, <1>5 DEF Normalize, MigrateRaw, Listeners
<1> QED
  BY <1>2, <1>3, <1>4, <1>5

\* The rename of another writer, and nothing else, parts the file from what was
\* read.
LEMMA SeenStep ==
  ASSUME TypeOK, SeenInv, [Next]_vars
  PROVE  SeenInv'
<1>1. ASSUME NEW w \in Writer, Done(w), UNCHANGED config
      PROVE  SeenInv'
  BY <1>1 DEF Done, TypeOK, SeenInv
<1>2. ASSUME NEW w \in Writer, NEW r \in Request[w], Begin(w, r)
      PROVE  SeenInv'
  BY <1>2 DEF Begin, TypeOK, SeenInv, files
<1>3. ASSUME NEW w \in Writer, Read(w)
      PROVE  SeenInv'
  BY <1>1, <1>3 DEF Read, TypeOK, SeenInv, files
<1>4. ASSUME NEW w \in Writer, Check(w)
      PROVE  SeenInv'
  <2>1. CASE Done(w)
    BY <1>1, <1>4, <2>1 DEF Check, files
  <2>2. CASE ~Done(w)
    BY <1>4, <2>2 DEF Check, TypeOK, SeenInv, files
  <2> QED
    BY <2>1, <2>2
<1>5. ASSUME NEW w \in Writer, WriteConfig(w)
      PROVE  SeenInv'
  <2>1. pc'[w] \notin {"check", "write"}
        /\ \A v \in Writer \ {w} : pc'[v] = pc[v]
    BY <1>5 DEF WriteConfig, TypeOK
  <2>2. \A v \in Writer \ {w} : pc[v] \in {"check", "write"} => raced'[v]
    BY <1>5, Zenon DEF WriteConfig
  <2> QED
    BY <2>1, <2>2 DEF SeenInv
<1>6. ASSUME NEW w \in Writer, WriteSecret(w) \/ Stop(w)
      PROVE  SeenInv'
  BY <1>1, <1>6 DEF WriteSecret, Stop, files
<1>7. ASSUME \/ \E l \in Loader : Load(l) \/ SaveState(l)
             \/ DaemonStops \/ UNCHANGED vars
      PROVE  SeenInv'
  BY <1>7 DEF Load, SaveState, DaemonStops, vars, files, writerVars, SeenInv
<1> QED
  BY <1>2, <1>3, <1>4, <1>5, <1>6, <1>7 DEF Next

\* A file that is installed alone is the one there was, migrated and patched.
LEMMA InstalledAlone ==
  ASSUME TypeOK, AlwaysLoadable, SeenInv, [Next]_vars,
         NEW w \in Writer, Installs(w)
  PROVE  /\ config \in Config /\ req[w] \in Request[w]
         /\ config' = Installed(config, Changes(w))
<1>1. config \in Config /\ req[w] \in Request[w]
  BY DEF TypeOK, AlwaysLoadable, Loads, Installs
<1>2. PICK v \in Writer : WriteConfig(v)
  BY DEF Next, vars, files, Installs, Begin, Read, Check, WriteSecret,
         Stop, Load, SaveState, DaemonStops
<1>3. v = w
  BY <1>2 DEF WriteConfig, TypeOK, Installs
<1>4. seen[w] = MigrateRaw(config)
  BY DEF SeenInv, Installs
<1> QED
  BY <1>1, <1>2, <1>3, <1>4 DEF WriteConfig, Installed

\* A writer that nobody has overtaken has read the file as it is, in every
\* reachable state.
THEOREM SeenIsCurrent == Spec => []SeenInv
<1>1. Init => SeenInv
  BY DEF Init, SeenInv
<1>2. TypeOK /\ SeenInv /\ [Next]_vars => SeenInv'
  BY SeenStep
<1> QED
  BY TypeCorrect, <1>1, <1>2, PTL DEF Spec

\* A write changes only the settings that its patch names, listeners that older
\* keys may hold apart.
OnlyThePatch ==
  \A w \in Writer : Installs(w) =>
    \A k \in Key \ (DOMAIN Changes(w) \cup Listeners) :
      Normalize(config')[k] = Normalize(config)[k]

\* Whatever is installed and asked, a write that nobody has overtaken changes
\* the meaning of no setting outside its patch but that of a listener.
THEOREM OnlyThePatchChanges == Spec => [][OnlyThePatch]_vars
<1>1. TypeOK /\ AlwaysLoadable /\ SeenInv /\ [Next]_vars => [OnlyThePatch]_vars
  BY InstalledAlone, ChangesArePatch, PatchPreserves DEF OnlyThePatch
<1> QED
  BY TypeCorrect, FilesAlwaysLoad, SeenIsCurrent, <1>1, PTL DEF Spec

\* A write that nobody has overtaken leaves of every setting it was not given
\* exactly what Remains says, whatever is installed and whatever the body of a
\* browser leaves out.
THEOREM OnlyAskedIsChanged == Spec => OnlyAskedChanges
<1> DEFINE Asked ==
      \A w \in Writer : Installs(w) =>
        \A k \in Key \ DOMAIN req[w].given : Normalize(config')[k] = Remains(w, k)
<1>1. TypeOK /\ AlwaysLoadable /\ SeenInv /\ [Next]_vars => [Asked]_vars
  <2> SUFFICES ASSUME TypeOK, AlwaysLoadable, SeenInv, [Next]_vars,
                      NEW w \in Writer, Installs(w),
                      NEW k \in Key \ DOMAIN req[w].given
               PROVE  Normalize(config')[k] = Remains(w, k)
    OBVIOUS
  <2>1. /\ config \in Config /\ req[w] \in Request[w]
        /\ config' = Installed(config, Changes(w))
        /\ DOMAIN Changes(w) \subseteq PatchKeys
    BY InstalledAlone, ChangesArePatch
  <2>2. CASE w \in Browser /\ k \in ServiceKeys
    <3>1. /\ k \in DOMAIN Changes(w)
          /\ Changes(w)[k] = IF k = "video.hwaccel" THEN "auto" ELSE Unset
      BY <2>2 DEF Changes, ServiceChanges, Or
    <3>2. Normalize(config')[k] = Changes(w)[k]
      BY <2>1, <3>1, InstalledReads DEF Installed, Patched
    <3> QED
      BY <2>2, <3>1, <3>2 DEF Remains
  <2>3. CASE ~(w \in Browser /\ k \in ServiceKeys)
    <3>1. k \notin DOMAIN Changes(w)
      BY <2>3 DEF Changes, ServiceChanges
    <3> QED
      BY <2>1, <2>3, <3>1, PatchPreserves DEF Remains
  <2> QED
    BY <2>2, <2>3
<1>2. OnlyAskedChanges <=> [][Asked]_vars
  BY PTL DEF OnlyAskedChanges
<1> QED
  BY TypeCorrect, FilesAlwaysLoad, SeenIsCurrent, <1>1, <1>2, PTL DEF Spec

=============================================================================
