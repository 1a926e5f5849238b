------------------------------ MODULE VideoHub ------------------------------
(***************************************************************************)
(* The video of one kart between its encoder and its viewers               *)
(* (internal/daemon/video_hub.go): the frames since the last IDR, kept for  *)
(* late viewers, and a bounded queue for each subscriber.  The hub's mutex  *)
(* makes each of its methods one action; between them run the encoder's     *)
(* reader, the kart's video receiver, the teardown of the session, and for  *)
(* each subscriber the goroutine that forwards its frames.                  *)
(*                                                                         *)
(* A frame is its number.  A number is left out where an encoder replaces   *)
(* another, for the first frame of the one does not follow the last of the  *)
(* other.  A stream that is not in the map is like one without frames and   *)
(* subscribers, so the map itself is not modelled.                          *)
(***************************************************************************)
EXTENDS Naturals, Sequences

CONSTANTS
  Viewer,      \* subscribe calls, each used once
  WebRtc,      \* those made for a WebRTC peer
  Buffer,      \* videoSubscriberBuffer
  MaxBacklog,  \* maximumVideoBacklogBytes, counted in frames
  MaxFrames,   \* bound: numbers used in a behaviour
  Gap          \* a frame with Discontinuity set

ASSUME HubAssumption ==
  /\ WebRtc \subseteq Viewer
  /\ Buffer \in Nat \ {0}
  /\ MaxBacklog \in Nat \ {0}
  /\ MaxFrames \in Nat
  /\ Gap \notin Nat

VARIABLES
  encoder,      \* the transcoder of the kart's session
  failing,      \* a receiver that is about to report a failed write
  last,         \* number of the newest frame
  keys,         \* the IDRs among the frames
  lost,         \* frames at which the backlog was given up
  backlog,      \* stream.backlog
  hasKeyFrame,  \* stream.hasKeyFrame
  subscribers,  \* stream.subscribers
  ready,        \* the subscribers whose ready is set
  queue,        \* subscriber.frames
  closed,       \* those whose channel is closed
  phase,        \* whether a viewer has come, and gone
  fresh,        \* those who asked for FreshKeyFrame
  since,        \* the newest frame when each came
  rest,         \* what a forwarding goroutine still has to send
  got           \* the last thing each viewer received

encoderVars == <<encoder, failing>>
frameVars   == <<last, keys, lost>>
streamVars  == <<backlog, hasKeyFrame>>
hubVars     == <<subscribers, ready, queue, closed>>
viewerVars  == <<phase, fresh, since, rest, got>>
vars        == <<encoderVars, frameVars, streamVars, hubVars, viewerVars>>

Frame == 1..MaxFrames
Item  == Frame \cup {Gap}

TypeOK ==
  /\ encoder \in {"off", "up", "dead", "stopped"}
  /\ failing \in BOOLEAN
  /\ last \in 0..MaxFrames
  /\ keys \subseteq 1..last
  /\ lost \subseteq 1..last
  /\ backlog \in Seq(Frame) /\ Len(backlog) <= MaxBacklog
  /\ hasKeyFrame \in BOOLEAN
  /\ subscribers \subseteq Viewer
  /\ ready \subseteq subscribers
  /\ queue \in [Viewer -> Seq(Item)]
  /\ \A v \in Viewer : Len(queue[v]) <= Buffer
  /\ closed \subseteq Viewer
  /\ phase \in [Viewer -> {"new", "watching", "over"}]
  /\ fresh \subseteq Viewer
  /\ since \in [Viewer -> 0..MaxFrames]
  /\ rest \in [Viewer -> Seq(Item)]
  /\ got \in [Viewer -> Item \cup {0}]

Init ==
  /\ encoder = "off" /\ failing = FALSE
  /\ last = 0 /\ keys = {} /\ lost = {}
  /\ backlog = <<>> /\ hasKeyFrame = FALSE
  /\ subscribers = {} /\ ready = {} /\ closed = {} /\ fresh = {}
  /\ queue = [v \in Viewer |-> <<>>]
  /\ phase = [v \in Viewer |-> "new"]
  /\ since = [v \in Viewer |-> 0]
  /\ rest = [v \in Viewer |-> <<>>]
  /\ got = [v \in Viewer |-> 0]

-----------------------------------------------------------------------------
(* The encoder's frames: publish.  What a dead encoder has left in its pipe  *)
(* is still read and published; the close of the transcoder waits for that.  *)

\* The backlog with frame n in it.
Grown(n, key) == IF key THEN <<n>>
                 ELSE IF hasKeyFrame THEN Append(backlog, n) ELSE <<>>

\* A backlog over its limit is given up, and every subscriber has to wait.
Outgrows(n, key) == Len(Grown(n, key)) > MaxBacklog

\* The subscribers that are sent the frame; one whose queue is full loses what
\* is in it, finds the marker there instead, and waits for the next IDR.
Receivers(n, key) ==
  IF Outgrows(n, key) THEN {} ELSE IF key THEN subscribers ELSE ready

Full(S) == {v \in S : Len(queue[v]) = Buffer}

\* Mutant: a subscriber that lost frames stays ready.
PublishStaysReady(key) ==
  LET n  == last + 1
      to == Receivers(n, key)
  IN  /\ encoder \in {"up", "dead"} /\ n \in Frame
      /\ last' = n
      /\ keys' = IF key THEN keys \cup {n} ELSE keys
      /\ lost' = IF Outgrows(n, key) THEN lost \cup {n} ELSE lost
      /\ backlog' = IF Outgrows(n, key) THEN <<>> ELSE Grown(n, key)
      /\ hasKeyFrame' = ((key \/ hasKeyFrame) /\ ~Outgrows(n, key))
      /\ ready' = to
      /\ queue' = [v \in Viewer |->
                     IF v \in Full(to) THEN <<Gap>>
                     ELSE IF v \in to THEN Append(queue[v], n) ELSE queue[v]]
      /\ UNCHANGED <<encoderVars, subscribers, closed, viewerVars>>

Publish(key) ==
  LET n  == last + 1
      to == Receivers(n, key)
  IN  /\ encoder \in {"up", "dead"} /\ n \in Frame
      /\ last' = n
      /\ keys' = IF key THEN keys \cup {n} ELSE keys
      /\ lost' = IF Outgrows(n, key) THEN lost \cup {n} ELSE lost
      /\ backlog' = IF Outgrows(n, key) THEN <<>> ELSE Grown(n, key)
      /\ hasKeyFrame' = ((key \/ hasKeyFrame) /\ ~Outgrows(n, key))
      /\ ready' = to \ Full(to)
      /\ queue' = [v \in Viewer |->
                     IF v \in Full(to) THEN <<Gap>>
                     ELSE IF v \in to THEN Append(queue[v], n) ELSE queue[v]]
      /\ UNCHANGED <<encoderVars, subscribers, closed, viewerVars>>

-----------------------------------------------------------------------------
(* The life of the encoder.                                                *)

StartEncoder ==
  /\ encoder = "off"
  /\ last + 1 \in Frame
  /\ encoder' = "up"
  /\ last' = last + 1
  /\ UNCHANGED <<failing, keys, lost, streamVars, hubVars, viewerVars>>

\* The process dies; the receiver notices at its next write.
EncoderDies ==
  /\ encoder = "up"
  /\ encoder' = "dead" /\ failing' = TRUE
  /\ UNCHANGED <<frameVars, streamVars, hubVars, viewerVars>>

\* The receiver's write failed: publishDiscontinuity.  It runs on its own, and
\* may be late: the stream may be gone or belong to the next session.  (Two
\* receivers that are late at the same time count as one.)
Discontinuity ==
  /\ failing
  /\ failing' = FALSE
  /\ backlog' = <<>> /\ hasKeyFrame' = FALSE
  /\ ready' = {}
  /\ LET full == Full(subscribers) IN
     /\ subscribers' = subscribers \ full
     /\ closed' = closed \cup full
     /\ queue' = [v \in Viewer |-> IF v \in subscribers \ full
                                     THEN Append(queue[v], Gap) ELSE queue[v]]
  /\ UNCHANGED <<encoder, frameVars, viewerVars>>

\* The session closes its media; a frame the receiver is writing then fails.
StopEncoder ==
  /\ encoder \in {"up", "dead"}
  /\ encoder' = "stopped"
  /\ failing' \in {failing, failing \/ encoder = "up"}
  /\ UNCHANGED <<frameVars, streamVars, hubVars, viewerVars>>

\* The teardown of the session removes the stream, with or without an encoder
\* that had to be stopped before.
\* Mutant: the stream is dropped, its subscribers' channels stay open.
RemoveSilently ==
  /\ encoder \in {"off", "stopped"}
  /\ encoder' = "off"
  /\ backlog' = <<>> /\ hasKeyFrame' = FALSE
  /\ subscribers' = {} /\ ready' = {}
  /\ UNCHANGED <<failing, frameVars, closed, queue, viewerVars>>

Remove ==
  /\ encoder \in {"off", "stopped"}
  /\ encoder' = "off"
  /\ backlog' = <<>> /\ hasKeyFrame' = FALSE
  /\ subscribers' = {} /\ ready' = {}
  /\ closed' = closed \cup subscribers
  /\ UNCHANGED <<failing, frameVars, queue, viewerVars>>

-----------------------------------------------------------------------------
(* The viewers.                                                            *)

\* Mutant: the backlog is handed to those who asked for a fresh key frame.
SubscribeWithBacklog(v, f) ==
  /\ phase[v] = "new"
  /\ phase' = [phase EXCEPT ![v] = "watching"]
  /\ fresh' = IF f THEN fresh \cup {v} ELSE fresh
  /\ since' = [since EXCEPT ![v] = last]
  /\ subscribers' = subscribers \cup {v}
  /\ ready' = IF hasKeyFrame /\ ~f THEN ready \cup {v} ELSE ready
  /\ rest' = [rest EXCEPT ![v] = backlog]
  /\ UNCHANGED <<encoderVars, frameVars, streamVars, queue, closed, got>>

\* A caller who does not ask for a fresh key frame is given the backlog.
Subscribe(v, f) ==
  /\ phase[v] = "new"
  /\ phase' = [phase EXCEPT ![v] = "watching"]
  /\ fresh' = IF f THEN fresh \cup {v} ELSE fresh
  /\ since' = [since EXCEPT ![v] = last]
  /\ subscribers' = subscribers \cup {v}
  /\ ready' = IF hasKeyFrame /\ ~f THEN ready \cup {v} ELSE ready
  /\ rest' = [rest EXCEPT ![v] = IF f THEN <<>> ELSE backlog]
  /\ UNCHANGED <<encoderVars, frameVars, streamVars, queue, closed, got>>

\* What a subscription asks for: the WebRTC endpoint never a fresh key frame,
\* a client of the SDK either.
Asks(v) == IF v \in WebRtc THEN {FALSE} ELSE BOOLEAN

\* The goroutine takes the next live frame when it has nothing left to send.
Forward(v) ==
  /\ phase[v] = "watching" /\ v \notin fresh
  /\ rest[v] = <<>> /\ queue[v] # <<>>
  /\ rest' = [rest EXCEPT ![v] = <<Head(queue[v])>>]
  /\ queue' = [queue EXCEPT ![v] = Tail(@)]
  /\ UNCHANGED <<encoderVars, frameVars, streamVars, subscribers, ready, closed,
                 phase, fresh, since, got>>

\* The viewer receives from the goroutine, ...
Receive(v) ==
  /\ phase[v] = "watching" /\ rest[v] # <<>>
  /\ got' = [got EXCEPT ![v] = Head(rest[v])]
  /\ rest' = [rest EXCEPT ![v] = Tail(@)]
  /\ UNCHANGED <<encoderVars, frameVars, streamVars, hubVars, phase, fresh,
                 since>>

\* ... or, when it asked for a fresh key frame, from the hub's own channel.
ReceiveLive(v) ==
  /\ phase[v] = "watching" /\ v \in fresh
  /\ rest[v] = <<>> /\ queue[v] # <<>>
  /\ got' = [got EXCEPT ![v] = Head(queue[v])]
  /\ queue' = [queue EXCEPT ![v] = Tail(@)]
  /\ UNCHANGED <<encoderVars, frameVars, streamVars, subscribers, ready, closed,
                 phase, fresh, since, rest>>

\* The viewer's context ends, or it has seen the end of a closed channel.
\* Nobody asks about a viewer that is gone: what it asked for is forgotten.
Unsubscribe(v) ==
  /\ phase[v] = "watching"
  /\ phase' = [phase EXCEPT ![v] = "over"]
  /\ subscribers' = subscribers \ {v} /\ ready' = ready \ {v}
  /\ closed' = closed \cup {v}
  /\ rest' = [rest EXCEPT ![v] = <<>>]
  /\ queue' = [queue EXCEPT ![v] = <<>>]
  /\ since' = [since EXCEPT ![v] = 0]
  /\ fresh' = fresh \ {v}
  /\ UNCHANGED <<encoderVars, frameVars, streamVars, got>>

-----------------------------------------------------------------------------
Next ==
  \/ \E key \in BOOLEAN : Publish(key)
  \/ StartEncoder \/ EncoderDies \/ StopEncoder
  \/ Discontinuity \/ Remove
  \/ \E v \in Viewer :
       \/ \E f \in Asks(v) : Subscribe(v, f)
       \/ Forward(v) \/ Receive(v) \/ ReceiveLive(v) \/ Unsubscribe(v)

Spec == Init /\ [][Next]_vars

-----------------------------------------------------------------------------
(* Properties.                                                             *)

\* Whatever the encoder, the slow viewers and the teardown do, every viewer
\* sees a feed as the documentation promises it (publish, subscribe): "overflow
\* drops stale frames, signals a discontinuity, and resumes at the next IDR".
Feed == INSTANCE VideoFeed

FeedSpec == Feed!Spec

\* The hub sends on open channels only, and whoever watches a stream that is
\* gone was told so: a viewer is in the hub or its channel is closed, never
\* both and never neither (unsubscribe, publishDiscontinuity, remove).
HubIsConsistent ==
  /\ subscribers \cap closed = {}
  /\ \A v \in Viewer : v \in subscribers \/ v \in closed <=> phase[v] # "new"

\* No viewer in S is shown a frame from before it came.
StartsLive(S) == \A v \in S : got[v] \in Frame => got[v] > since[v]

\* A subscriber that asks for a fresh key frame skips what was cached before it
\* came, and whatever was queued, overflowed or reset since (subscribe).
FreshStartsLive == StartsLive(fresh)

\* "WebRTC skips the cached GOP and starts at the next live IDR"
\* (docs/fuji-video.md).
WebRtcStartsLive == StartsLive(WebRtc)

=============================================================================
