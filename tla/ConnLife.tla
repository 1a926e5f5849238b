------------------------------ MODULE ConnLife ------------------------------
(***************************************************************************)
(* What the handshake server promises the Manager about each connection of *)
(* a kart: an arrival is announced at most once, and only of a connection  *)
(* whose handshake was completed; a departure is reported exactly for      *)
(* those, once, when the connection is over.  Nothing is promised about    *)
(* the order of the two, since the announcement has its own goroutine.     *)
(*                                                                         *)
(* Handshake implements this, and Manager uses nothing else of it.         *)
(***************************************************************************)
CONSTANT Conn

VARIABLES
  stage,      \* of each connection: "new", "open", "up" (handshake done), "down"
  arrival,    \* its announcement: "none", "due", "told"
  departed    \* connections whose departure was reported

vars == <<stage, arrival, departed>>

Init ==
  /\ stage = [c \in Conn |-> "new"]
  /\ arrival = [c \in Conn |-> "none"]
  /\ departed = {}

Open(c) ==
  /\ stage[c] = "new"
  /\ stage' = [stage EXCEPT ![c] = "open"]
  /\ UNCHANGED <<arrival, departed>>

\* Over without a handshake, or never taken on.
Fail(c) ==
  /\ stage[c] \in {"new", "open"}
  /\ stage' = [stage EXCEPT ![c] = "down"]
  /\ UNCHANGED <<arrival, departed>>

Establish(c) ==
  /\ stage[c] = "open"
  /\ stage' = [stage EXCEPT ![c] = "up"]
  /\ arrival' = [arrival EXCEPT ![c] = "due"]
  /\ UNCHANGED departed

Announce(c) ==
  /\ arrival[c] = "due"
  /\ arrival' = [arrival EXCEPT ![c] = "told"]
  /\ UNCHANGED <<stage, departed>>

Depart(c) ==
  /\ stage[c] = "up"
  /\ stage' = [stage EXCEPT ![c] = "down"]
  /\ departed' = departed \cup {c}
  /\ UNCHANGED arrival

Next == \E c \in Conn : Open(c) \/ Fail(c) \/ Establish(c) \/ Announce(c)
                        \/ Depart(c)

Spec == Init /\ [][Next]_vars

=============================================================================
