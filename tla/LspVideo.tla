------------------------------ MODULE LspVideo ------------------------------
(***************************************************************************)
(* How the daemon puts a kart's video frames together again                *)
(* (internal/daemon/lsp_video.go, serveLSPVideo).  The kart numbers its    *)
(* UDP datagrams and groups them into generations; a source datagram       *)
(* carries one packet of media entries, and a frame is a header entry, body *)
(* entries and a completing one, spread over packets and generations.      *)
(* Datagrams are lost, repeated and reordered on the way.                  *)
(*                                                                         *)
(* An entry is its number in the stream, and a byte count is the number of *)
(* entries: a header announces how many its frame has, and the frame is    *)
(* emitted when it has that many.                                          *)
(*                                                                         *)
(* Source and parity datagrams share one sequence.  A parity datagram is   *)
(* dropped before anything is kept of it, so its arrival is a stuttering   *)
(* step; what it leaves is the number it took, a hole to the source        *)
(* datagram behind it.  The stream is the source datagrams, each with its  *)
(* number among all, and a number between two of them is a parity's.       *)
(***************************************************************************)
EXTENDS Naturals, Sequences, FiniteSets

CONSTANTS
  Sent,          \* the source datagrams of the stream in order, [number,
                 \*   generation, count, index, l2, from, upto], with the
                 \*   number among all datagrams and the entries from..upto
  Announced,     \* for every FRAM header, how many entries it announces
  Completing,    \* the entries that complete a record
  Foreign,       \* the entries the parser refuses
  FirstSequence, \* the sequence number before the stream's first
  SequenceSpace, \* sequence numbers wrap here (2^23)
  MaxRepeats,    \* bound: datagrams the network delivers again
  MaxMalformed,  \* bound: datagrams that do not parse
  None

Datagram == DOMAIN Sent
Header   == DOMAIN Announced

\* The sequence number, parity counted; datagram i has the one after that of j.
Number(i) == (FirstSequence + Sent[i].number) % SequenceSpace
Follows(j, i) == j # 0 /\ Sent[i].number = Sent[j].number + 1

NoGeneration == [generation |-> 0, count |-> 0, packets |-> << >>]
NoFrame      == [total |-> 0, data |-> << >>]

\* The stream of a kart: each source datagram carries the entries that come next
\* and has the next place in its generation or begins another; a frame is
\* completed before the next begins.  The L2 header is in every datagram, as the
\* docs say, or in those that do not continue a frame.
LspAssumption ==
  /\ Sent \in Seq([number : Nat, generation : Nat, count : Nat, index : Nat,
                   l2 : BOOLEAN, from : Nat, upto : Nat])
  /\ \A i \in Datagram :
       /\ 1 <= Sent[i].number
       /\ Sent[i].index < Sent[i].count
       /\ 1 <= Sent[i].from /\ Sent[i].from <= Sent[i].upto + 1
  /\ \A i, j \in Datagram : i < j => Sent[i].number < Sent[j].number
  /\ \A i, j \in Datagram : j = i + 1 =>
       /\ Sent[j].from = Sent[i].upto + 1
       /\ Sent[j].index = IF Sent[j].generation = Sent[i].generation
                          THEN Sent[i].index + 1 ELSE 0
  /\ Header \subseteq Nat /\ Completing \subseteq Nat /\ Foreign \subseteq Nat
  /\ Announced \in [Header -> Nat]
  /\ Header \cap Completing = {}
  /\ \A h, g \in Header : h < g => \E c \in Completing : h < c /\ c < g
  /\ \/ \A i \in Datagram : Sent[i].l2
     \/ \A h \in Header, i \in Datagram : Sent[i].l2 /\ h < Sent[i].from =>
          \E c \in Completing : h < c /\ c < Sent[i].from
  /\ FirstSequence \in Nat
  /\ SequenceSpace \in Nat \ {0, 1}
  /\ MaxRepeats \in Nat /\ MaxMalformed \in Nat
  /\ None \notin Nat

ASSUME LspAssumption

VARIABLES
  net,           \* the datagrams that may still arrive
  repeats,
  malformed,
  previous,      \* previousSequence, None until haveSequence
  under,         \* the generation under way, its packets by source index;
                 \*   NoGeneration unless haveGeneration
  sourceIndex,   \* the packet consumed next, None while ReadFrom waits
  synchronized,  \* videoAssembler.synchronized
  active,        \* videoAssembler.activeFrame, NoFrame for nil
  cursor,        \* the next entry of the packet, None between packets
  frames,        \* the frames this packet has completed
  emitted,       \* those written since the last datagram
  running,       \* serveLSPVideo has not returned
  shut,          \* deviceMedia.close was called
  marked,        \* a discontinuity was published
  streak         \* the datagrams received in an unbroken row of numbers, with
                 \*   no parity between them: from..upto

networkVars   == <<net, repeats, malformed, streak>>
receiverVars  == <<previous, under, sourceIndex>>
assemblerVars == <<synchronized, active, cursor, frames>>
outputVars    == <<emitted, running, shut, marked>>
lspVars       == <<networkVars, receiverVars, assemblerVars, outputVars>>

LspInit ==
  /\ net = Datagram /\ repeats = 0 /\ malformed = 0
  /\ previous = None /\ under = NoGeneration /\ sourceIndex = None
  /\ synchronized = FALSE /\ active = NoFrame /\ cursor = None /\ frames = << >>
  /\ emitted = << >> /\ running = TRUE /\ shut = FALSE /\ marked = FALSE
  /\ streak = [from |-> 1, upto |-> 0]

-----------------------------------------------------------------------------
(* One datagram.                                                           *)

Waiting == running /\ ~shut /\ sourceIndex = None

\* Any datagram may arrive next, and arrive again; one that never does is lost.
Arrives(i) ==
  /\ i \in net
  /\ \/ net' = net \ {i} /\ UNCHANGED repeats
     \/ repeats < MaxRepeats /\ repeats' = repeats + 1 /\ UNCHANGED net

\* Mutants: the sequence is taken not to wrap; a hole is not noticed.
InSequenceUnwrapped(i, p) == Number(i) = p + 1

InSequence(i, p) == Number(i) = (p + 1) % SequenceSpace

HoleIgnored(i) == FALSE

\* A hole in the sequence ends the generation under way.
Hole(i) == previous # None /\ ~InSequence(i, previous)
Held(i) == IF Hole(i) THEN NoGeneration ELSE under

\* Another generation may start, and then the one before must be complete.
Starts(i) == Held(i) = NoGeneration \/ Held(i).generation # Sent[i].generation
Complete(g) == Cardinality(DOMAIN g.packets) = g.count
CutShort(i) == Starts(i) /\ Held(i) # NoGeneration /\ ~Complete(Held(i))

Current(i) ==
  IF Starts(i) THEN [generation |-> Sent[i].generation, count |-> Sent[i].count,
                     packets |-> << >>]
  ELSE Held(i)

Placed(i) ==
  LET g == Current(i)
  IN  [g EXCEPT !.packets = [m \in DOMAIN g.packets \cup {Sent[i].index} |->
                               IF m = Sent[i].index THEN i ELSE g.packets[m]]]

\* What every source datagram goes through.
Hear(i) ==
  /\ Waiting
  /\ Arrives(i)
  /\ previous' = Number(i)
  /\ emitted' = << >>
  /\ streak' = [from |-> IF Follows(streak.upto, i) THEN streak.from ELSE i,
                upto |-> i]
  /\ UNCHANGED <<malformed, synchronized, cursor, frames, running, shut, marked>>

\* It disagrees about the size of its generation.
RefuseDatagram(i) ==
  /\ Hear(i)
  /\ Current(i).count # Sent[i].count
  /\ under' = NoGeneration /\ active' = NoFrame
  /\ UNCHANGED sourceIndex

PlaceDatagram(i) ==
  /\ Hear(i)
  /\ Current(i).count = Sent[i].count
  /\ under' = Placed(i)
  /\ active' = IF Hole(i) \/ CutShort(i) THEN NoFrame ELSE active
  /\ sourceIndex' = IF Complete(Placed(i)) THEN 0 ELSE None

\* A datagram from the kart's address that does not parse.
ReceiveMalformed ==
  /\ Waiting /\ malformed < MaxMalformed
  /\ malformed' = malformed + 1
  /\ under' = NoGeneration
  /\ synchronized' = FALSE /\ active' = NoFrame
  /\ emitted' = << >>
  /\ streak' = [streak EXCEPT !.from = streak.upto + 1]
  /\ UNCHANGED <<net, repeats, previous, sourceIndex, cursor, frames, running,
                 shut, marked>>

-----------------------------------------------------------------------------
(* A complete generation, packet by packet.                                *)

Consuming == running /\ sourceIndex # None
Packet == Sent[under.packets[sourceIndex]]
InPacket == Consuming /\ cursor # None /\ cursor <= Packet.upto

\* An error drops the frame under way and the rest of the generation, with the
\* frames that this packet has completed.
Abandon ==
  /\ under' = NoGeneration /\ sourceIndex' = None
  /\ active' = NoFrame /\ cursor' = None /\ frames' = << >>
  /\ UNCHANGED <<networkVars, previous, synchronized, outputVars>>

NextPacket ==
  IF sourceIndex + 1 < under.count
  THEN sourceIndex' = sourceIndex + 1 /\ UNCHANGED under
  ELSE sourceIndex' = None /\ under' = NoGeneration

\* The first packet must carry the L2 header, the others not.
OpenPacket ==
  /\ Consuming /\ cursor = None
  /\ synchronized # Packet.l2
  /\ synchronized' = TRUE
  /\ cursor' = Packet.from
  /\ UNCHANGED <<networkVars, receiverVars, active, frames, outputVars>>

\* A second header is not understood: the packet ends there, or is an error.
PassPacket ==
  /\ Consuming /\ cursor = None
  /\ synchronized /\ Packet.l2
  /\ NextPacket
  /\ UNCHANGED <<networkVars, previous, assemblerVars, outputVars>>

RefusePacket ==
  /\ Consuming /\ cursor = None
  /\ synchronized = Packet.l2
  /\ Abandon

RefuseEntry ==
  /\ InPacket /\ cursor \in Foreign
  /\ Abandon

\* Without a frame under way everything but a header is passed over.
TakeFirst ==
  /\ InPacket /\ cursor \notin Foreign
  /\ active = NoFrame
  /\ active' = IF cursor \in Header
               THEN [total |-> Announced[cursor], data |-> <<cursor>>] ELSE NoFrame
  /\ cursor' = cursor + 1
  /\ UNCHANGED <<networkVars, receiverVars, synchronized, frames, outputVars>>

TakeBody ==
  /\ InPacket /\ cursor \notin Foreign \cup Completing
  /\ active # NoFrame
  /\ active' = [active EXCEPT !.data = Append(@, cursor)]
  /\ cursor' = cursor + 1
  /\ UNCHANGED <<networkVars, receiverVars, synchronized, frames, outputVars>>

\* A frame of the wrong length is dropped.
TakeLast ==
  /\ InPacket /\ cursor \in Completing \ Foreign
  /\ active # NoFrame
  /\ LET data == Append(active.data, cursor)
     IN  frames' = IF Len(data) = active.total THEN Append(frames, data) ELSE frames
  /\ active' = NoFrame
  /\ cursor' = cursor + 1
  /\ UNCHANGED <<networkVars, receiverVars, synchronized, outputVars>>

\* The packet's frames go to the transcoder, one by one.
EndOfPacket == Consuming /\ cursor # None /\ cursor > Packet.upto

WritePacket ==
  /\ EndOfPacket
  /\ shut => frames = << >>
  /\ emitted' = emitted \o frames
  /\ frames' = << >> /\ cursor' = None
  /\ NextPacket
  /\ UNCHANGED <<networkVars, previous, synchronized, active, running, shut, marked>>

\* A write that fails ends the goroutine for good.
FailWrite ==
  /\ EndOfPacket
  /\ \E k \in 0..(Len(frames) - 1) : emitted' = emitted \o SubSeq(frames, 1, k)
  /\ running' = FALSE /\ marked' = TRUE
  /\ UNCHANGED <<networkVars, receiverVars, assemblerVars, shut>>

-----------------------------------------------------------------------------
\* deviceMedia.close ends the transcoder and closes the socket, and then
\* ReadFrom fails.
CloseMedia ==
  /\ ~shut
  /\ shut' = TRUE
  /\ UNCHANGED <<networkVars, receiverVars, assemblerVars, emitted, running, marked>>

Return ==
  /\ running /\ shut /\ sourceIndex = None
  /\ running' = FALSE
  /\ UNCHANGED <<networkVars, receiverVars, assemblerVars, emitted, shut, marked>>

LspNext ==
  \/ \E i \in Datagram : RefuseDatagram(i) \/ PlaceDatagram(i)
  \/ ReceiveMalformed
  \/ OpenPacket \/ PassPacket \/ RefusePacket
  \/ RefuseEntry \/ TakeFirst \/ TakeBody \/ TakeLast
  \/ WritePacket \/ FailWrite
  \/ CloseMedia \/ Return

LspSpec == LspInit /\ [][LspNext]_lspVars

-----------------------------------------------------------------------------
(* Properties.                                                             *)

\* The entries a..b, and the frames the kart sent: a header and what follows
\* up to the first completing entry.
Run(a, b) == [k \in 1..(b + 1 - a) |-> a + k - 1]

KartFrame ==
  {f \in [first : Header, upto : Completing] :
     /\ f.first < f.upto
     /\ \A c \in Completing : ~(f.first < c /\ c < f.upto)}

\* However datagrams were lost, repeated and reordered, what goes to the
\* transcoder is one frame of the kart, whole and in order: never parts of two
\* (serveLSPVideo's sequence and generation checks, consumeMediaEntries' length).
WholeFrames ==
  \A k \in DOMAIN emitted : \E f \in KartFrame : emitted[k] = Run(f.first, f.upto)

\* Datagrams a to b are generations of one size each, the last of them maybe
\* not all of it, with nothing in them that the parser refuses.
Clean(a, b) ==
  /\ Sent[a].index = 0
  /\ \A i \in a..b :
       /\ ~Sent[i].l2
       /\ \A e \in Foreign : ~(Sent[i].from <= e /\ e <= Sent[i].upto)
  /\ \A i \in a..(b - 1) :
       IF Sent[i + 1].generation = Sent[i].generation
       THEN Sent[i + 1].count = Sent[i].count ELSE Sent[i].index + 1 = Sent[i].count

\* Where the generation of datagram b begins, if none of it is missing.
FirstOf(b) == b - Sent[b].index

\* Of whole generations received in an unbroken row of sequence numbers by a
\* synchronized assembler, every frame that begins in them and ends in the last
\* has reached the transcoder, whatever was lost before and across the wrap of the
\* numbers: the checks of serveLSPVideo drop nothing of such a row.  A parity
\* datagram breaks the row for the code and so does it here, and a frame that goes
\* on behind one is dropped (CompleteIsKept); one between is delivered.
CleanRunDelivered ==
  LET b == streak.upto
  IN  running /\ synchronized /\ sourceIndex = None =>
        \A a \in streak.from..b : \A f \in KartFrame :
          /\ Clean(a, b) /\ Sent[b].index + 1 = Sent[b].count
          /\ Sent[a].from <= f.first /\ Announced[f.first] = f.upto + 1 - f.first
          /\ Sent[FirstOf(b)].from <= f.upto /\ f.upto <= Sent[b].upto
          => \E k \in DOMAIN emitted : emitted[k] = Run(f.first, f.upto)

-----------------------------------------------------------------------------
(* What the docs say and the code does not do.                             *)

\* docs/fuji-video.md says that the daemon drops incomplete generations.  When the
\* source datagram after a complete one is the next that the kart sent, the frame
\* under way should go on; with a parity datagram's number between them it is
\* dropped (device_media.go:153-164).
CompleteIsKept ==
  [][\A i \in Datagram :
       /\ i = streak.upto + 1 /\ streak'.upto = i
       /\ under = NoGeneration /\ active # NoFrame
       => active' = active]_lspVars

\* docs/fuji-video.md says that every source payload begins with the L2 header.
\* The frames of such a payload, alone in its generation, should be delivered; a
\* synchronized assembler does not read the header and passes over or refuses the
\* payload (lsp_video.go:156).
HeaderIsRead ==
  LET b == streak.upto
  IN  running /\ synchronized /\ sourceIndex = None /\ streak.from <= b =>
        \A f \in KartFrame :
          /\ Sent[b].l2 /\ Sent[b].count = 1
          /\ \A e \in Foreign : ~(Sent[b].from <= e /\ e <= Sent[b].upto)
          /\ Sent[b].from <= f.first /\ Announced[f.first] = f.upto + 1 - f.first
          /\ f.upto <= Sent[b].upto
          => \E k \in DOMAIN emitted : emitted[k] = Run(f.first, f.upto)

=============================================================================
