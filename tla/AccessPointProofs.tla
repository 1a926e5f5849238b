------------------------- MODULE AccessPointProofs -------------------------
(* Proofs about the DHCP server, whose pool is handed out exclusively for  *)
(* every subnet, number of clients and lease time, and about the access    *)
(* point with it: what is proved of the server alone holds of the one that *)
(* is replaced at each Start, and no Start or Stop leaves anything behind  *)
(* that is not recorded.                                                   *)
EXTENDS AccessPoint, TLAPS

USE DhcpAssumption, AccessPointAssumption

-----------------------------------------------------------------------------
(* The DHCP server.                                                        *)

\* What every handler does to the server's maps: drop the lapsed leases and
\* perhaps renew or assign one; or give one up; or start from nothing.
LEMMA ServerStep ==
  ASSUME [Next]_vars
  PROVE  \/ UNCHANGED serverVars
         \/ Expire
         \/ \E c \in Client : Renew(c)
         \/ \E c \in Client, a \in Assignable :
              KeptUse[a] \in {c, None} /\ Assign(c, a)
         \/ \E c \in Client : Release(c)
         \/ Tick
         \/ Restart
<1>a. ASSUME NEW c \in Client, Allocate(c)
      PROVE  \E a \in Assignable : KeptUse[a] \in {c, None} /\ Assign(c, a)
  BY <1>a DEF Allocate, Free
<1>1. CASE UNCHANGED vars
  BY <1>1 DEF vars
<1>2. ASSUME NEW c \in Client, Discover(c)
      PROVE  \/ Expire \/ Renew(c)
             \/ \E a \in Assignable : KeptUse[a] \in {c, None} /\ Assign(c, a)
  BY <1>2, <1>a DEF Discover
<1>3. ASSUME NEW c \in Client, RequestCurrent(c)
      PROVE  \/ Expire
             \/ \E a \in Assignable : KeptUse[a] \in {c, None} /\ Assign(c, a)
  BY <1>3, <1>a DEF RequestCurrent
<1>4. ASSUME NEW c \in Client, NEW a \in Address, Request(c, a)
      PROVE  \/ Expire \/ Renew(c)
             \/ \E b \in Assignable : KeptUse[b] \in {c, None} /\ Assign(c, b)
  BY <1>4 DEF Request
<1> QED
  BY <1>1, <1>2, <1>3, <1>4 DEF Next

\* Dropping the lapsed leases.
LEMMA KeptType ==
  ASSUME TypeOK
  PROVE  /\ Kept \in [Client -> Address \cup {None}]
         /\ KeptUse \in [Address -> Client \cup {None}]
  BY DEF TypeOK, Kept, KeptUse

\* The server's side of a step keeps the types of its tables.
LEMMA ServerTypeStep ==
  ASSUME TypeOK, [Next]_vars
  PROVE  /\ leases' \in [Client -> Address \cup {None}]
         /\ inUse' \in [Address -> Client \cup {None}]
         /\ left' \in [Client -> 0..Lease]
<1>1. CASE UNCHANGED serverVars
  BY <1>1 DEF serverVars, TypeOK
<1>2. CASE Expire \/ \E c \in Client : Renew(c)
  BY <1>2, KeptType DEF Expire, Renew, TypeOK
<1>3. ASSUME NEW c \in Client, NEW a \in Assignable, Assign(c, a)
      PROVE  /\ leases' \in [Client -> Address \cup {None}]
             /\ inUse' \in [Address -> Client \cup {None}]
             /\ left' \in [Client -> 0..Lease]
  <2>1. a \in Address
    BY DEF Assignable
  <2>2. leases' \in [Client -> Address \cup {None}]
    BY <1>3, <2>1, KeptType DEF Assign
  <2>3. inUse' \in [Address -> Client \cup {None}]
    BY <1>3, <2>1, KeptType DEF Assign
  <2>4. left' \in [Client -> 0..Lease]
    BY <1>3 DEF Assign, TypeOK
  <2> QED
    BY <2>2, <2>3, <2>4
<1>4. ASSUME NEW c \in Client, Release(c)
      PROVE  /\ leases' \in [Client -> Address \cup {None}]
             /\ inUse' \in [Address -> Client \cup {None}]
             /\ left' \in [Client -> 0..Lease]
  BY <1>4 DEF Release, TypeOK
<1>5. CASE Tick
  BY <1>5 DEF Tick, Less, TypeOK
<1>6. CASE Restart
  BY <1>6 DEF Restart
<1> QED
  BY <1>1, <1>2, <1>3, <1>4, <1>5, <1>6, ServerStep

\* The client's side: what an ACK, a NAK and time do to its binding.
ClientTypes ==
  /\ bound \in [Client -> Address \cup {None}]
  /\ promise \in [Client -> 0..Lease]

\* The clients' side of a step keeps the types of what they believe.
LEMMA ClientTypeStep ==
  ASSUME TypeOK, [Next]_vars
  PROVE  ClientTypes'
<1> USE DEF ClientTypes, TypeOK
<1>k. ASSUME NEW c \in Client, NEW a \in Address, Ack(c, a)
      PROVE  ClientTypes'
  BY <1>k DEF Ack
<1>n. ASSUME NEW c \in Client, Nak(c)
      PROVE  ClientTypes'
  BY <1>n DEF Nak
<1>1. CASE UNCHANGED clientVars
  BY <1>1 DEF clientVars
<1>2. ASSUME NEW c \in Client, RequestCurrent(c)
      PROVE  ClientTypes'
  <2>1. CASE Kept[c] # None /\ Ack(c, Kept[c])
    BY <2>1, <1>k, KeptType
  <2>2. CASE Allocate(c) /\ Ack(c, leases'[c])
    <3>1. leases'[c] \in Address
      BY <2>2, KeptType DEF Allocate, Free, Assignable, Assign
    <3> QED
      BY <2>2, <3>1, <1>k
  <2>3. CASE Nak(c)
    BY <2>3, <1>n
  <2> QED
    BY <1>2, <2>1, <2>2, <2>3 DEF RequestCurrent
<1>3. ASSUME NEW c \in Client, NEW a \in Address, Request(c, a)
      PROVE  ClientTypes'
  BY <1>3, <1>k, <1>n DEF Request
<1>4. ASSUME NEW c \in Client, Release(c)
      PROVE  ClientTypes'
  BY <1>4, <1>n DEF Release
<1>5. CASE Tick
  BY <1>5 DEF Tick, Less
<1>6. CASE Restart
  BY <1>6 DEF Restart
<1>7. ASSUME NEW c \in Client, Discover(c)
      PROVE  ClientTypes'
  BY <1>7, <1>1 DEF Discover
<1> QED
  BY <1>1, <1>2, <1>3, <1>4, <1>5, <1>6, <1>7 DEF Next, vars

\* The maps hold addresses and clients, and no lease outlasts leaseDuration.
THEOREM TypeCorrect == Spec => []TypeOK
<1>1. Init => TypeOK
  BY DEF Init, TypeOK
<1>2. TypeOK /\ [Next]_vars => TypeOK'
  BY ServerTypeStep, ClientTypeStep DEF TypeOK, ClientTypes
<1> QED
  BY <1>1, <1>2, PTL DEF Spec

-----------------------------------------------------------------------------
(* Exclusive use.                                                          *)

\* Dropping lapsed leases takes both entries of each.
LEMMA KeptAgree ==
  ASSUME TypeOK, MapsAgree
  PROVE  /\ \A c \in Client : Kept[c] # None => KeptUse[Kept[c]] = c
         /\ \A a \in Address : KeptUse[a] # None => Kept[KeptUse[a]] = a
<1>1. ASSUME NEW c \in Client, Kept[c] # None
      PROVE  KeptUse[Kept[c]] = c
  <2>1. Live(c) /\ Kept[c] = leases[c] /\ leases[c] \in Address
    BY <1>1 DEF Kept, TypeOK
  <2>2. inUse[leases[c]] = c
    BY <2>1 DEF MapsAgree
  <2>3. \A d \in Client : leases[d] = leases[c] => d = c
    BY <2>1, <2>2 DEF MapsAgree
  <2> QED
    BY <2>1, <2>2, <2>3 DEF KeptUse
<1>2. ASSUME NEW a \in Address, KeptUse[a] # None
      PROVE  Kept[KeptUse[a]] = a
  <2>1. /\ KeptUse[a] = inUse[a]
        /\ ~\E c \in Client : leases[c] = a /\ ~Live(c)
    BY <1>2 DEF KeptUse
  <2>2. inUse[a] \in Client /\ leases[inUse[a]] = a
    BY <1>2, <2>1 DEF MapsAgree, TypeOK
  <2> QED
    BY <2>1, <2>2 DEF Kept
<1> QED
  BY <1>1, <1>2

\* A grant leaves the maps inverse to each other: the address's new client is
\* entered in both, and the address it had before is taken out.
LEMMA AssignAgree ==
  ASSUME TypeOK, MapsAgree, NEW c \in Client, NEW a \in Assignable,
         KeptUse[a] \in {c, None}, Assign(c, a)
  PROVE  MapsAgree'
<1>1. a \in Address
  BY DEF Assignable
<1>2. ASSUME NEW d \in Client, leases'[d] # None
      PROVE  inUse'[leases'[d]] = d
  <2>1. CASE d = c
    BY <1>1, <2>1, KeptType DEF Assign
  <2>2. CASE d # c
    <3>1. leases'[d] = Kept[d] /\ Kept[d] \in Address /\ KeptUse[Kept[d]] = d
      BY <1>2, <2>2, KeptType, KeptAgree DEF Assign
    <3>2. Kept[d] # a /\ Kept[d] # Kept[c]
      BY <2>2, <3>1, KeptAgree
    <3> QED
      BY <3>1, <3>2 DEF Assign
  <2> QED
    BY <2>1, <2>2
<1>3. ASSUME NEW b \in Address, inUse'[b] # None
      PROVE  leases'[inUse'[b]] = b
  <2>1. CASE b = a
    BY <1>1, <2>1, KeptType DEF Assign
  <2>2. CASE b # a
    <3>1. inUse'[b] = KeptUse[b] /\ b # Kept[c] /\ Kept[KeptUse[b]] = b
      BY <1>3, <2>2, KeptAgree DEF Assign
    <3>2. KeptUse[b] \in Client /\ KeptUse[b] # c
      BY <1>3, <3>1, KeptType
    <3> QED
      BY <3>1, <3>2, KeptType DEF Assign
  <2> QED
    BY <2>1, <2>2
<1> QED
  BY <1>2, <1>3 DEF MapsAgree

LeaseInv == MapsAgree /\ OnlyAssignable

\* Every packet, tick and restart keeps the maps inverse and in the pool.
LEMMA LeaseInvStep ==
  ASSUME TypeOK, LeaseInv, [Next]_vars
  PROVE  LeaseInv'
<1> USE DEF LeaseInv, OnlyAssignable
<1>1. CASE UNCHANGED serverVars
  BY <1>1 DEF serverVars, MapsAgree
<1>2. CASE Expire \/ \E c \in Client : Renew(c)
  <2>1. leases' = Kept /\ inUse' = KeptUse
    BY <1>2 DEF Expire, Renew
  <2>2. MapsAgree'
    BY <2>1, KeptAgree DEF MapsAgree
  <2>3. OnlyAssignable'
    BY <2>1 DEF Kept
  <2> QED
    BY <2>2, <2>3
<1>3. ASSUME NEW c \in Client, NEW a \in Assignable,
             KeptUse[a] \in {c, None}, Assign(c, a)
      PROVE  LeaseInv'
  <2>1. MapsAgree'
    BY <1>3, AssignAgree
  <2>2. OnlyAssignable'
    <3>1. leases' = [Kept EXCEPT ![c] = a]
      BY <1>3 DEF Assign
    <3>2. Kept \in [Client -> Address \cup {None}]
      BY KeptType
    <3>3. \A d \in Client : Kept[d] \in Assignable \cup {None}
      BY DEF Kept
    <3> QED
      BY <3>1, <3>2, <3>3
  <2> QED
    BY <2>1, <2>2
<1>4. ASSUME NEW c \in Client, Release(c)
      PROVE  LeaseInv'
  BY <1>4 DEF Release, MapsAgree, TypeOK
<1>5. CASE Tick
  BY <1>5 DEF Tick, MapsAgree
<1>6. CASE Restart
  BY <1>6 DEF Restart, MapsAgree
<1> QED
  BY <1>1, <1>2, <1>3, <1>4, <1>5, <1>6, ServerStep

\* Hence both hold in every reachable state.
LEMMA LeaseInvariant == Spec => []LeaseInv
<1>1. Init => LeaseInv
  BY DEF Init, LeaseInv, MapsAgree, OnlyAssignable
<1>2. TypeOK /\ LeaseInv /\ [Next]_vars => LeaseInv'
  BY LeaseInvStep
<1> QED
  BY <1>1, <1>2, TypeCorrect, PTL DEF Spec

\* No two clients share an address, and no address is lost to the pool.
THEOREM LeasesAreExclusive == Spec => []MapsAgree
  BY LeaseInvariant, PTL DEF LeaseInv

\* Nobody is given the gateway, the broadcast address or a foreign address.
THEOREM LeasesAreInPool == Spec => []OnlyAssignable
  BY LeaseInvariant, PTL DEF LeaseInv

\* Both: the tables describe one pool of leases.
THEOREM PoolStaysSound == Spec => []PoolIsSound
<1>1. LeaseInv => PoolIsSound
  BY DEF LeaseInv, PoolIsSound
<1> QED
  BY <1>1, LeaseInvariant, PTL

\* No step takes an address from a client whose lease is live.
THEOREM LeasesAreNotStolen == Spec => NotStolen
<1>1. ASSUME TypeOK, MapsAgree, [Next]_vars, NEW a \in Address,
             inUse[a] # None, inUse'[a] # None, inUse[a] # inUse'[a]
      PROVE  ~Live(inUse[a])
  <2>1. inUse[a] \in Client /\ leases[inUse[a]] = a
    BY <1>1 DEF TypeOK, MapsAgree
  <2>2. ASSUME KeptUse[a] = None
        PROVE  ~Live(inUse[a])
    BY <1>1, <2>1, <2>2 DEF KeptUse, MapsAgree
  <2>3. KeptUse[a] \in {inUse[a], None}
    BY DEF KeptUse
  <2>4. CASE Expire \/ \E c \in Client : Renew(c)
    BY <1>1, <2>3, <2>4 DEF Expire, Renew
  <2>5. ASSUME NEW c \in Client, NEW b \in Assignable,
               KeptUse[b] \in {c, None}, Assign(c, b)
        PROVE  ~Live(inUse[a])
    BY <1>1, <2>2, <2>3, <2>5 DEF Assign
  <2>6. CASE \E c \in Client : Release(c)
    BY <1>1, <2>6 DEF Release
  <2>7. CASE UNCHANGED serverVars \/ Tick \/ Restart
    BY <1>1, <2>7 DEF serverVars, Tick, Restart
  <2> QED
    BY <1>1, <2>4, <2>5, <2>6, <2>7, ServerStep
<1>2. TypeOK /\ MapsAgree /\ [Next]_vars
        => [\A a \in Address : LET c == inUse[a]
                                   d == inUse'[a]
            IN  c # None /\ d # None /\ c # d => ~Live(c)]_vars
  BY <1>1
<1> QED
  BY <1>2, TypeCorrect, LeasesAreExclusive, PTL DEF Spec, NotStolen


-----------------------------------------------------------------------------
(* Composition.                                                            *)

\* A step of the access point is a packet, a tick or a new server to the
\* DHCP server, or nothing at all.
LEMMA NetStep == NetNext => [Next]_vars
<1>1. ASSUME NEW w, StopLocked(w) PROVE Next
  BY <1>1 DEF StopLocked, Next
<1>2. CASE Stop \/ Start \/ NotReady \/ Cancelled \/ ServeFails
  BY <1>1, <1>2 DEF Stop, Start, NotReady, Cancelled, ServeFails
<1>3. CASE Packet
  BY <1>3 DEF Packet, Next
<1>4. CASE Time
  BY <1>4 DEF Time, Next
<1>5. CASE StartRefused \/ NothingToStop \/ Interrupted \/ Kill \/ GiveUpOnIt \/ RemoveEntries
  BY <1>5 DEF StartRefused, NothingToStop, Interrupted, Kill, GiveUpOnIt, RemoveEntries
<1>6. CASE RemoveDir \/ NoAddress \/ MakeDir \/ ConfigFails \/ WriteConfig \/ SpawnFails \/ Spawn
  BY <1>6 DEF RemoveDir, NoAddress, MakeDir, ConfigFails, WriteConfig, SpawnFails, Spawn
<1>7. CASE Ready \/ StartupTimeout \/ Beacons \/ Serve
  BY <1>7 DEF Ready, StartupTimeout, Beacons, Serve
<1>8. CASE \/ Announce \/ (\E g \in Run : Exit(g)) \/ Wait \/ ReadOutput
           \/ Query \/ QueryFails \/ Bind \/ QueryEnds
  BY <1>8 DEF Announce, Exit, Wait, ReadOutput, Query, QueryFails, Bind, QueryEnds
<1> QED
  BY <1>2, <1>3, <1>4, <1>5, <1>6, <1>7, <1>8 DEF NetNext, Proceed

\* The network the daemon hosts implements DhcpServer: a Start gives it a new
\* server with empty tables, whatever else it does.
THEOREM NetImplementsDhcp == NetSpec => Spec
<1>1. NetInit => Init
  BY DEF NetInit
<1>2. [NetNext]_netVars => [Next]_vars
  BY NetStep DEF netVars
<1> QED
  BY <1>1, <1>2, PTL DEF NetSpec, Spec

\* So the pool stays sound over every start, stop and failure.
THEOREM NetPoolIsSound == NetSpec => []PoolIsSound
  BY NetImplementsDhcp, PoolStaysSound, PTL

\* And no lease is given to another while it lasts.
THEOREM NetLeasesAreNotStolen == NetSpec => NotStolen
  BY NetImplementsDhcp, LeasesAreNotStolen, PTL

-----------------------------------------------------------------------------
(* What is left behind.                                                    *)

\* What Start and Stop have at each point of theirs.
Progress ==
  /\ at # "idle" => dhcp = None
  /\ at \in {"stopped", "address"} => tempDir = None /\ ctrlSocket = None
  /\ at \in {"stopped", "remove", "rmdir", "address", "config", "spawn"} => hostapd = None
  /\ at \in {"interrupt", "kill"} => hostapd # None
  /\ at \in {"config", "spawn"} => tempDir # None
  /\ at \in {"await", "settle", "serve"} => tempDir # None /\ hostapd = tempDir
  /\ at = "idle" /\ outcome = "ok" =>
       dhcp = tempDir /\ hostapd = tempDir /\ tempDir # None

\* What exists is recorded at every moment, also while a call is under way.
Recorded ==
  /\ sockets = {dhcp} \ {None}
  /\ alive \subseteq {hostapd} \cup unreaped
  /\ dirs \subseteq {tempDir} \cup strays
  /\ ctrlSocket \in {None, tempDir}
  /\ hostapd # None /\ waitDone => hostapd \notin alive

ApInv == ApTypeOK /\ Progress /\ Recorded

\* stopLocked closes the server's socket and goes on to hostapd.
LEMMA StopLockedKeeps ==
  ASSUME ApInv, NEW w \in {"start", "fail", "done"}, StopLocked(w)
  PROVE  ApInv'
<1> USE DEF ApInv, ApTypeOK, StopLocked, Running, output
<1>1. ApTypeOK'
  OBVIOUS
<1>2. Progress'
  BY DEF Progress, Recorded
<1>3. Recorded'
  BY DEF Recorded
<1> QED
  BY <1>1, <1>2, <1>3

\* Stopping, once it has begun.
LEMMA StoppingKeeps ==
  ASSUME ApInv,
         NothingToStop \/ Interrupted \/ Kill \/ GiveUpOnIt \/ RemoveEntries \/ RemoveDir
  PROVE  ApInv'
<1> USE DEF ApInv, ApTypeOK, Progress, Recorded, fields, output, world, Stopped, Finish
<1>1. CASE NothingToStop
  BY <1>1 DEF NothingToStop
<1>2. CASE Interrupted
  BY <1>2 DEF Interrupted
<1>3. CASE Kill
  BY <1>3 DEF Kill
<1>4. CASE GiveUpOnIt
  BY <1>4 DEF GiveUpOnIt
<1>5. CASE RemoveEntries
  BY <1>5 DEF RemoveEntries
<1>6. CASE RemoveDir
  <2>1. at' = "address" \/ (at' = "idle" /\ outcome' # "ok")
    BY <1>6 DEF RemoveDir
  <2>2. ApTypeOK'
    BY <1>6 DEF RemoveDir
  <2>3. Progress'
    BY <1>6, <2>1 DEF RemoveDir
  <2>4. Recorded'
    BY <1>6 DEF RemoveDir
  <2> QED
    BY <2>2, <2>3, <2>4
<1> QED
  BY <1>1, <1>2, <1>3, <1>4, <1>5, <1>6

\* Starting, once everything is stopped.
LEMMA StartingKeeps ==
  ASSUME ApInv,
         \/ NoAddress \/ MakeDir \/ ConfigFails \/ WriteConfig \/ SpawnFails \/ Spawn
         \/ Ready \/ StartupTimeout \/ Beacons \/ Serve \/ StartRefused
  PROVE  ApInv'
<1> USE DEF ApInv, ApTypeOK, Progress, Recorded, fields, output, world, Finish
<1>1. CASE NoAddress
  BY <1>1 DEF NoAddress
<1>2. CASE MakeDir
  <2>1. tempDir' \in Run
    BY <1>2 DEF MakeDir, Unused
  <2> QED
    BY <1>2, <2>1 DEF MakeDir
<1>3. CASE ConfigFails
  BY <1>3 DEF ConfigFails
<1>4. CASE WriteConfig
  BY <1>4 DEF WriteConfig
<1>5. CASE SpawnFails
  BY <1>5 DEF SpawnFails
<1>6. CASE Spawn
  <2>1. ApTypeOK'
    BY <1>6 DEF Spawn
  <2>2. Progress'
    BY <1>6 DEF Spawn
  <2>3. Recorded'
    BY <1>6 DEF Spawn
  <2> QED
    BY <2>1, <2>2, <2>3
<1>7. CASE Ready \/ StartupTimeout \/ Beacons
  BY <1>7 DEF Ready, StartupTimeout, Beacons
<1>8. CASE Serve
  <2>1. ApTypeOK'
    BY <1>8 DEF Serve
  <2>2. Progress'
    BY <1>8 DEF Serve
  <2>3. Recorded'
    BY <1>8 DEF Serve
  <2> QED
    BY <2>1, <2>2, <2>3
<1>9. CASE StartRefused
  BY <1>9 DEF StartRefused
<1> QED
  BY <1>1, <1>2, <1>3, <1>4, <1>5, <1>6, <1>7, <1>8, <1>9

\* What runs beside the calls: hostapd, its watchers, a query, the karts.
LEMMA OthersKeep ==
  ASSUME ApInv,
         \/ Announce \/ (\E g \in Run : Exit(g)) \/ Wait \/ ReadOutput
         \/ Query \/ QueryFails \/ Bind \/ QueryEnds \/ Packet \/ Time
         \/ UNCHANGED netVars
  PROVE  ApInv'
<1> USE DEF ApInv, ApTypeOK, Progress, Recorded, fields, start, output, world
<1>1. CASE Announce
  BY <1>1 DEF Announce
<1>2. CASE Wait
  BY <1>2 DEF Wait
<1>3. CASE ReadOutput
  <2>1. enabled' \in {"nil", "error"}
    BY <1>3 DEF ReadOutput
  <2> QED
    BY <1>3, <2>1 DEF ReadOutput
<1>4. CASE \E g \in Run : Exit(g)
  BY <1>4 DEF Exit
<1>5. CASE Query \/ QueryFails \/ QueryEnds
  BY <1>5 DEF Query, QueryFails, QueryEnds
<1>6. CASE Bind
  BY <1>6 DEF Bind
<1>7. CASE Packet \/ Time \/ UNCHANGED netVars
  BY <1>7 DEF Packet, Time, netVars, apVars
<1> QED
  BY <1>1, <1>2, <1>3, <1>4, <1>5, <1>6, <1>7

\* Hence it holds in every reachable state.
LEMMA ApInvariant == NetSpec => []ApInv
<1>1. NetInit => ApInv
  BY DEF NetInit, ApInv, ApTypeOK, Progress, Recorded
<1>2. ApInv /\ [NetNext]_netVars => ApInv'
  <2> SUFFICES ASSUME ApInv, [NetNext]_netVars PROVE ApInv'
    OBVIOUS
  <2>1. CASE Stop \/ Start \/ NotReady \/ Cancelled \/ ServeFails
    BY <2>1, StopLockedKeeps DEF Stop, Start, NotReady, Cancelled, ServeFails
  <2> QED
    BY <2>1, StoppingKeeps, StartingKeeps, OthersKeep DEF NetNext, Proceed
<1> QED
  BY <1>1, <1>2, PTL DEF NetSpec

\* Every variable of the network keeps its type.
THEOREM NetTypeCorrect == NetSpec => []NetTypeOK
<1>1. TypeOK /\ ApInv => NetTypeOK
  BY DEF ApInv, NetTypeOK
<1> QED
  BY <1>1, ApInvariant, NetImplementsDhcp, TypeCorrect, PTL

\* Whatever fails or is late, what runs after a Start or a Stop is what the
\* fields record, but for what survived a kill or was in use.
THEOREM NothingIsOrphaned == NetSpec => []NothingOrphaned
<1>1. ApInv => NothingOrphaned
  BY DEF ApInv, Progress, Recorded, NothingOrphaned
<1> QED
  BY <1>1, ApInvariant, PTL

=============================================================================
