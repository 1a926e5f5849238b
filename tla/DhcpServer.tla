----------------------------- MODULE DhcpServer -----------------------------
(***************************************************************************)
(* The address pool the daemon serves to karts on the network it hosts     *)
(* (internal/wireless/dhcp_proto.go, dhcp.go).  One goroutine reads and    *)
(* answers one packet at a time, so one action is one handlePacket call.   *)
(*                                                                         *)
(* Addresses are numbers in the order the server tries them.  Time is      *)
(* counted in ticks left on each lease; a lease whose ticks are used up    *)
(* stays in the maps until the next DISCOVER or REQUEST drops it.          *)
(***************************************************************************)
EXTENDS Naturals

CONSTANTS
  Client,     \* hardware addresses
  Address,    \* every address a packet may ask for
  Subnet,     \* those in the configured subnet
  Gateway,    \* the server's own address
  Broadcast,  \* the subnet's broadcast address
  FirstLease, \* subnet address + 2, where allocation starts
  Lease,      \* leaseDuration in ticks
  None,       \* no address, no client
  Restarts    \* the access point is restarted with a new server

ASSUME DhcpAssumption ==
  /\ Address \subseteq Nat /\ Subnet \subseteq Address
  /\ Gateway \in Address /\ Broadcast \in Address /\ FirstLease \in Nat
  /\ Lease \in Nat \ {0}
  /\ None \notin Address /\ None \notin Client
  /\ Restarts \in BOOLEAN

VARIABLES
  leases,   \* the address of each client
  inUse,    \* the client of each address
  left,     \* expiry: ticks until each client's lease lapses; 0 when none is
            \* recorded, or when it has lapsed
  bound,    \* the address each client was last ACKed
  promise   \* ticks left of the lease time that ACK carried (option 51)

serverVars == <<leases, inUse, left>>
clientVars == <<bound, promise>>
vars       == <<serverVars, clientVars>>

TypeOK ==
  /\ leases \in [Client -> Address \cup {None}]
  /\ inUse \in [Address -> Client \cup {None}]
  /\ left \in [Client -> 0..Lease]
  /\ bound \in [Client -> Address \cup {None}]
  /\ promise \in [Client -> 0..Lease]

Init ==
  /\ leases = [c \in Client |-> None]
  /\ inUse = [a \in Address |-> None]
  /\ left = [c \in Client |-> 0]
  /\ bound = [c \in Client |-> None]
  /\ promise = [c \in Client |-> 0]

-----------------------------------------------------------------------------
(* The maps as expireLocked leaves them.  A client without a lease has no   *)
(* expiry entry, so dropping it again changes nothing.                     *)

Live(c) == left[c] > 0

Kept    == [c \in Client |-> IF Live(c) THEN leases[c] ELSE None]
KeptUse == [a \in Address |->
              IF \E c \in Client : leases[c] = a /\ ~Live(c)
              THEN None ELSE inUse[a]]

\* Addresses a client may be given at all.
Assignable == Subnet \ {Gateway, Broadcast}

\* Those allocate tries, in order, and still finds free.
Free == {a \in Assignable : a >= FirstLease /\ KeptUse[a] = None}

\* Give c the address a, and take back the one it had.
Assign(c, a) ==
  /\ leases' = [Kept EXCEPT ![c] = a]
  /\ inUse' = [b \in Address |->
                 IF b = a THEN c
                 ELSE IF b = Kept[c] THEN None ELSE KeptUse[b]]
  /\ left' = [left EXCEPT ![c] = Lease]

Renew(c) ==
  /\ leases' = Kept /\ inUse' = KeptUse
  /\ left' = [left EXCEPT ![c] = Lease]

\* expireLocked alone.
Expire == leases' = Kept /\ inUse' = KeptUse /\ UNCHANGED left

\* allocate on a client without a lease takes the lowest free address.
Allocate(c) == \E a \in Free : (\A b \in Free : a <= b) /\ Assign(c, a)

\* The client's side of an ACK: the address, and the advertised lease time.
Ack(c, a) ==
  /\ bound' = [bound EXCEPT ![c] = a]
  /\ promise' = [promise EXCEPT ![c] = Lease]

\* A NAK, or the client's own RELEASE: it uses no address from now on.
Nak(c) ==
  /\ bound' = [bound EXCEPT ![c] = None]
  /\ promise' = [promise EXCEPT ![c] = 0]

-----------------------------------------------------------------------------
(* handlePacket, by message type.                                          *)

\* DISCOVER: an OFFER of the present lease or of the next free address; no
\* answer when there is none.
Discover(c) ==
  /\ \/ Kept[c] # None /\ Renew(c)
     \/ Kept[c] = None /\ Allocate(c)
     \/ Kept[c] = None /\ Free = {} /\ Expire
  /\ UNCHANGED clientVars

\* REQUEST without option 50, as a client renewing its lease sends it.
RequestCurrent(c) ==
  \/ Kept[c] # None /\ Expire /\ Ack(c, Kept[c])
  \/ /\ Kept[c] = None
     /\ \/ Allocate(c) /\ Ack(c, leases'[c])
        \/ Free = {} /\ Expire /\ Nak(c)

\* Mutants: the owner of the address is not asked for; the address that the
\* client had stays taken.
RequestAnyone(c, a) ==
  /\ a \in Assignable \/ Kept[c] = a
  /\ Assign(c, a)
  /\ Ack(c, a)

RequestKeepsOld(c, a) ==
  /\ a \in Assignable /\ KeptUse[a] \in {c, None}
  /\ leases' = [Kept EXCEPT ![c] = a]
  /\ inUse' = [KeptUse EXCEPT ![a] = c]
  /\ left' = [left EXCEPT ![c] = Lease]
  /\ Ack(c, a)

\* REQUEST for the address a: its own, a free one, or a NAK.
Request(c, a) ==
  \/ Kept[c] = a /\ Renew(c) /\ Ack(c, a)
  \/ /\ Kept[c] # a
     /\ a \in Assignable /\ KeptUse[a] \in {c, None}
     /\ Assign(c, a)
     /\ Ack(c, a)
  \/ /\ Kept[c] # a
     /\ a \notin Assignable \/ KeptUse[a] \notin {c, None}
     /\ Expire
     /\ Nak(c)

\* RELEASE and DECLINE: no expiry pass, no answer.
Release(c) ==
  /\ leases' = [leases EXCEPT ![c] = None]
  /\ inUse' = [a \in Address |-> IF a = leases[c] THEN None ELSE inUse[a]]
  /\ left' = [left EXCEPT ![c] = 0]
  /\ Nak(c)

Less(n) == IF n = 0 THEN 0 ELSE n - 1

\* Time passes, for the server and for the clients.
Tick ==
  /\ left' = [c \in Client |-> Less(left[c])]
  /\ promise' = [c \in Client |-> Less(promise[c])]
  /\ bound' = [c \in Client |-> IF promise[c] > 1 THEN bound[c] ELSE None]
  /\ UNCHANGED <<leases, inUse>>

\* AccessPoint.Start makes a new server each time: the leases are forgotten,
\* and the karts lose the network they were bound on.
Restart ==
  /\ Restarts
  /\ leases' = [c \in Client |-> None]
  /\ inUse' = [a \in Address |-> None]
  /\ left' = [c \in Client |-> 0]
  /\ bound' = [c \in Client |-> None]
  /\ promise' = [c \in Client |-> 0]

Next ==
  \/ \E c \in Client :
       \/ Discover(c) \/ RequestCurrent(c) \/ Release(c)
       \/ \E a \in Address : Request(c, a)
  \/ Tick \/ Restart

Spec == Init /\ [][Next]_vars

-----------------------------------------------------------------------------
(* Properties.                                                             *)

\* The two maps stay each other's inverse through grants, moves, releases and
\* expiries (dhcp_proto.go updates them separately on every path), so that no
\* two clients share an address and no address is lost to the pool.
MapsAgree ==
  /\ \A c \in Client : leases[c] # None => inUse[leases[c]] = c
  /\ \A a \in Address : inUse[a] # None => leases[inUse[a]] = a

\* No client is ever given the gateway, the broadcast address or an address
\* outside the subnet, by whichever path it asks (claim, allocate).
OnlyAssignable == \A c \in Client : leases[c] \in Assignable \cup {None}

\* The tables describe one pool of leases, whatever a client asks for.
PoolIsSound == MapsAgree /\ OnlyAssignable

\* An address passes to another client only when the lease of the one before
\* has run out, or with a RELEASE or a move between: never in one step from a
\* client whose lease is live.
NotStolen ==
  [][\A a \in Address :
       LET c == inUse[a]
           d == inUse'[a]
       IN  c # None /\ d # None /\ c # d => ~Live(c)]_vars

\* The lease time an ACK carries (option 51) is kept: "expiry tracks when each
\* client's lease lapses" (dhcp_proto.go).
PromiseKept ==
  \A c \in Client : promise[c] > 0 => leases[c] = bound[c] /\ left[c] >= promise[c]

=============================================================================
