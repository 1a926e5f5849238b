----------------------------- MODULE VideoFeed -----------------------------
(***************************************************************************)
(* What the daemon promises whoever watches a kart (USAGE.md, "Live         *)
(* video"): every frame shown can be decoded, because it is an IDR or comes *)
(* right after the frame it was coded against, and wherever frames are      *)
(* missing the viewer was told, unless the daemon gave up its cached        *)
(* pictures in between.                                                     *)
(***************************************************************************)
EXTENDS Naturals

CONSTANTS
  Viewer,  \* those who watch
  Gap      \* the discontinuity marker

VARIABLES
  last,  \* number of the newest frame of the encoder, 0 for none
  keys,  \* the frames that are IDRs
  lost,  \* the frames at which the cache outgrew its limit
  got    \* the last thing each viewer was sent, 0 for nothing

feedVars == <<last, keys, lost, got>>

Init ==
  /\ last = 0 /\ keys = {} /\ lost = {}
  /\ got = [v \in Viewer |-> 0]

\* Frame n may be sent after p, which is a frame, the marker or nothing.
Follows(p, n) ==
  /\ n \notin keys => p # Gap /\ p # 0 /\ n = p + 1
  /\ p # Gap /\ p # 0 /\ n # p + 1 => \E r \in lost : p < r /\ r < n

\* The encoder makes a frame, or is replaced by a new one.
Produce ==
  /\ last' > last
  /\ keys' \in {keys, keys \cup {last'}}
  /\ lost' \in {lost, lost \cup {last'}}
  /\ UNCHANGED got

Show(v, n) ==
  /\ Follows(got[v], n)
  /\ got' = [got EXCEPT ![v] = n]
  /\ UNCHANGED <<last, keys, lost>>

Mark(v) ==
  /\ got' = [got EXCEPT ![v] = Gap]
  /\ UNCHANGED <<last, keys, lost>>

Next ==
  \/ Produce
  \/ \E v \in Viewer : Mark(v) \/ \E n \in 1..last : Show(v, n)

Spec == Init /\ [][Next]_feedVars

=============================================================================
