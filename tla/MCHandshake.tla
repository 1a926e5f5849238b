---------------------------- MODULE MCHandshake ----------------------------
(* Instances of Handshake for TLC: one peer that says everything and one   *)
(* that says nothing and competes with it for the slots.                   *)
EXTENDS Handshake, TLC

CONSTANTS c1, c2

Say(cmd, sound, offers, known) ==
  [cmd |-> cmd, sound |-> sound, offers |-> offers, known |-> known,
   knew |-> {}]

\* A list of one version leaves 50 bytes of the buffer at finalize, one of
\* 15 versions and the key leave 32.
Everything ==
  {Say(cmd, TRUE, 1, FALSE) : cmd \in {0, 1, 3, 4}}
    \cup {Say(4, FALSE, 1, FALSE),
          Say(2, TRUE, 1, TRUE), Say(2, TRUE, 15, FALSE)}

TwoPeers == (c1 :> Everything) @@ (c2 :> {})

=============================================================================
