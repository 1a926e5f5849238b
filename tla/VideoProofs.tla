---------------------------- MODULE VideoProofs ----------------------------
(***************************************************************************)
(* Proofs about the path of a kart's video, from its datagrams to its      *)
(* viewers.                                                                *)
(*                                                                         *)
(* VideoHub, for every set of viewers, every queue and backlog size and    *)
(* every number of frames: its types, the consistency of its               *)
(* subscriptions, the start of fresh viewers, and that what every viewer   *)
(* receives is a feed of VideoFeed.  The idea of the last: what a viewer   *)
(* has received, what its goroutine still holds and what waits in its      *)
(* queue form one chain, each item of which may follow the one before; and *)
(* a ready subscriber's chain ends with the newest frame.                  *)
(*                                                                         *)
(* LspVideo, for every stream of fewer datagrams than there are sequence   *)
(* numbers, and every loss, repetition and reordering of them: what is     *)
(* written is whole frames, and a frame whose datagrams all came in order  *)
(* is written.  The idea of the first: the packets of the generation under *)
(* way are the last datagrams received in an unbroken row, so the frame    *)
(* under way is always the beginning of a run of the stream.               *)
(***************************************************************************)
EXTENDS VideoHub, LspVideo, FiniteSetTheorems, SequenceTheorems, TLAPS

-----------------------------------------------------------------------------
(* Chains: sequences sent after a first item, under a relation R of what    *)
(* may follow what.                                                        *)

Chain(R, p, s) ==
  \A i \in 1..Len(s) : <<IF i = 1 THEN p ELSE s[i - 1], s[i]>> \in R

\* The last item sent when s was sent after p.
End(p, s) == IF s = <<>> THEN p ELSE s[Len(s)]

\* Nothing may always be sent, and one item that may follow p.
LEMMA ChainShort ==
  ASSUME NEW R, NEW p, NEW x
  PROVE  /\ Chain(R, p, <<>>) /\ End(p, <<>>) = p
         /\ <<p, x>> \in R => Chain(R, p, <<x>>)
         /\ End(p, <<x>>) = x
  BY DEF Chain, End

\* A chain may be sent under a wider relation.
LEMMA ChainWider ==
  ASSUME NEW R, NEW T, R \subseteq T, NEW p, NEW s, Chain(R, p, s)
  PROVE  Chain(T, p, s)
  BY DEF Chain

\* The end of a chain has the type of its items.
LEMMA EndType ==
  ASSUME NEW S, NEW p \in S, NEW s \in Seq(S)
  PROVE  End(p, s) \in S
  BY LenProperties, EmptySeq, ElementOfSeq DEF End

\* What may follow the end of a chain may be appended to it.
LEMMA ChainAppend ==
  ASSUME NEW S, NEW R, NEW p, NEW s \in Seq(S), NEW x \in S,
         Chain(R, p, s), <<End(p, s), x>> \in R
  PROVE  Chain(R, p, Append(s, x)) /\ End(p, Append(s, x)) = x
<1> DEFINE t == Append(s, x)
<1>1. /\ Len(s) \in Nat /\ Len(t) = Len(s) + 1 /\ t # <<>>
      /\ \A i \in 1..Len(s) : t[i] = s[i]
      /\ t[Len(s) + 1] = x
  BY AppendProperties, LenProperties
<1>2. s = <<>> <=> Len(s) = 0
  BY EmptySeq
<1>3. ASSUME NEW i \in 1..Len(t)
      PROVE  <<IF i = 1 THEN p ELSE t[i - 1], t[i]>> \in R
  <2>1. CASE i = Len(s) + 1
    BY <1>1, <1>2, <2>1 DEF End
  <2>2. CASE i # Len(s) + 1
    <3>1. i \in 1..Len(s) /\ (i # 1 => i - 1 \in 1..Len(s))
      BY <1>1, <2>2
    <3>2. QED BY <1>1, <3>1 DEF Chain
  <2>3. QED BY <2>1, <2>2
<1>4. QED BY <1>1, <1>3 DEF Chain, End

\* The first item of a chain may be sent, and then its rest.
LEMMA ChainTail ==
  ASSUME NEW S, NEW R, NEW p, NEW s \in Seq(S), s # <<>>, Chain(R, p, s)
  PROVE  /\ <<p, Head(s)>> \in R
         /\ Chain(R, Head(s), Tail(s))
         /\ End(Head(s), Tail(s)) = End(p, s)
<1>1. /\ Len(s) \in Nat \ {0} /\ Head(s) = s[1]
      /\ Tail(s) \in Seq(S) /\ Len(Tail(s)) = Len(s) - 1
      /\ \A i \in 1..Len(Tail(s)) : Tail(s)[i] = s[i + 1]
  BY HeadTailProperties, EmptySeq, LenProperties
<1>2. Tail(s) = <<>> <=> Len(s) = 1
  BY <1>1, EmptySeq
<1>3. <<p, Head(s)>> \in R
  BY <1>1 DEF Chain
<1>4. ASSUME NEW i \in 1..Len(Tail(s))
      PROVE  <<IF i = 1 THEN Head(s) ELSE Tail(s)[i - 1], Tail(s)[i]>> \in R
  <2>1. i + 1 \in 1..Len(s) /\ i + 1 # 1 /\ (i + 1) - 1 = i
    BY <1>1
  <2>2. <<s[i], s[i + 1]>> \in R
    BY <2>1 DEF Chain
  <2>3. (IF i = 1 THEN Head(s) ELSE Tail(s)[i - 1]) = s[i]
    BY <1>1
  <2>4. QED BY <1>1, <2>2, <2>3
<1>5. End(Head(s), Tail(s)) = End(p, s)
  BY <1>1, <1>2 DEF End
<1>6. QED BY <1>3, <1>4, <1>5 DEF Chain

-----------------------------------------------------------------------------
(* What may be sent after what: a marker after anything, a frame as the    *)
(* feed allows it.                                                         *)

Fits ==
  {e \in (Item \cup {0}) \X Item :
     e[2] = Gap \/ (e[2] \in 1..last /\ Feed!Follows(e[1], e[2]))}

\* What v has been sent once its goroutine's items, and once its whole queue,
\* have arrived.
Pending(v) == End(got[v], rest[v])
Final(v)   == End(Pending(v), queue[v])

-----------------------------------------------------------------------------
(* The inductive invariant.                                                *)

\* The backlog is a chain of its own, from an IDR to the newest frame.
StreamInv ==
  /\ Chain(Fits, 0, backlog)
  /\ hasKeyFrame => backlog # <<>> /\ End(0, backlog) = last
  /\ ~hasKeyFrame => backlog = <<>>
  /\ encoder = "off" => ~hasKeyFrame /\ ready = {}

\* A viewer's items form a chain.
Linked(v) == Chain(Fits, got[v], rest[v]) /\ Chain(Fits, Pending(v), queue[v])

\* It ends with the newest frame where the next one is to be sent too, and
\* with a marker, nothing, or a frame older than a lost backlog where an IDR
\* is awaited.
Caught(v) ==
  /\ v \in ready => Final(v) = last /\ last # 0
  /\ v \in subscribers \ ready =>
       Final(v) \in {0, Gap} \/ \E r \in lost : Final(v) < r

ViewerInv == \A v \in Viewer : Linked(v) /\ Caught(v)

\* Nothing has been prepared for those who have not come.
NewInv ==
  \A v \in Viewer : phase[v] = "new" =>
    got[v] = 0 /\ rest[v] = <<>> /\ queue[v] = <<>> /\ v \notin fresh

\* The frames of s are newer than m.
Newer(m, s) == \A i \in 1..Len(s) : s[i] \in Frame => s[i] > m

\* Everything prepared for a fresh viewer is newer than its subscription.
Fresher(v) ==
  /\ since[v] <= last
  /\ v \in fresh => /\ rest[v] = <<>>
                    /\ got[v] \in Frame => got[v] > since[v]
                    /\ Newer(since[v], queue[v])

FreshInv == \A v \in Viewer : Fresher(v)

FeedInv == StreamInv /\ ViewerInv /\ NewInv

-----------------------------------------------------------------------------
(* Types.                                                                  *)

USE HubAssumption

\* A queue with one more item in it.
LEMMA Longer ==
  ASSUME NEW S, NEW s \in Seq(S), NEW x \in S
  PROVE  Append(s, x) \in Seq(S) /\ Len(Append(s, x)) = Len(s) + 1
         /\ <<x>> \in Seq(S) /\ Len(<<x>>) = 1 /\ Len(s) \in Nat
  BY AppendProperties, LenProperties

\* The backlog within its limit, whatever frame comes.
LEMMA BacklogType ==
  ASSUME TypeOK, NEW n \in Frame, NEW key \in BOOLEAN
  PROVE  /\ Grown(n, key) \in Seq(Frame)
         /\ Len(Grown(n, key)) \in Nat
         /\ ~Outgrows(n, key) => Len(Grown(n, key)) <= MaxBacklog
<1>1. <<>> \in Seq(Frame) /\ backlog \in Seq(Frame)
  BY EmptySeq DEF TypeOK
<1>2. Grown(n, key) \in Seq(Frame)
  BY <1>1, Longer DEF Grown
<1>3. QED BY <1>2, LenProperties DEF Outgrows

\* A frame makes the backlog and the queues longer, within their limits.
LEMMA PublishType ==
  ASSUME TypeOK, NEW key \in BOOLEAN, Publish(key)
  PROVE  TypeOK'
<1> DEFINE n  == last + 1
           to == Receivers(n, key)
<1>1. n \in Frame /\ last' = n /\ last \in 0..MaxFrames
  BY DEF Publish, TypeOK
<1>2. last' \in 0..MaxFrames /\ 1..last \subseteq 1..last' /\ n \in 1..last'
  BY <1>1 DEF Frame
<1>3. keys' \subseteq 1..last' /\ lost' \subseteq 1..last'
  BY <1>1, <1>2 DEF Publish, TypeOK
<1>4. backlog' \in Seq(Frame) /\ Len(backlog') <= MaxBacklog
  <2>1. CASE Outgrows(n, key)
    BY <1>1, <2>1, EmptySeq DEF Publish
  <2>2. CASE ~Outgrows(n, key)
    BY <1>1, <2>2, BacklogType DEF Publish
  <2>3. QED BY <2>1, <2>2
<1>5. to \subseteq subscribers
  BY DEF Receivers, TypeOK
<1>6. ready' \subseteq subscribers'
  BY <1>5 DEF Publish
<1>7. ASSUME NEW v \in Viewer
      PROVE  queue'[v] \in Seq(Item) /\ Len(queue'[v]) <= Buffer
  <2>1. /\ queue[v] \in Seq(Item) /\ Len(queue[v]) <= Buffer
        /\ n \in Item /\ Gap \in Item
    BY <1>1 DEF TypeOK, Item
  <2>2. queue'[v] = IF v \in Full(to) THEN <<Gap>>
                    ELSE IF v \in to THEN Append(queue[v], n) ELSE queue[v]
    BY DEF Publish
  <2>3. v \in to \ Full(to) => Len(queue[v]) # Buffer
    BY DEF Full
  <2>4. QED BY <2>1, <2>2, <2>3, Longer
<1>8. queue' \in [Viewer -> Seq(Item)] /\ \A v \in Viewer : Len(queue'[v]) <= Buffer
  BY <1>7 DEF Publish
<1>9. hasKeyFrame' \in BOOLEAN
  BY DEF Publish, TypeOK
<1>10. QED
  BY <1>2, <1>3, <1>4, <1>6, <1>8, <1>9
     DEF Publish, TypeOK, encoderVars, viewerVars

\* A discontinuity is only put where there is room.
LEMMA DiscontinuityType ==
  ASSUME TypeOK, Discontinuity
  PROVE  TypeOK'
<1> DEFINE full == Full(subscribers)
<1>1. ASSUME NEW v \in Viewer
      PROVE  queue'[v] \in Seq(Item) /\ Len(queue'[v]) <= Buffer
  <2>1. queue[v] \in Seq(Item) /\ Len(queue[v]) <= Buffer /\ Gap \in Item
    BY DEF TypeOK, Item
  <2>2. queue'[v] = IF v \in subscribers \ full THEN Append(queue[v], Gap)
                                                ELSE queue[v]
    BY DEF Discontinuity
  <2>3. v \in subscribers \ full => Len(queue[v]) # Buffer
    BY DEF Full
  <2>4. QED BY <2>1, <2>2, <2>3, Longer
<1>2. queue' \in [Viewer -> Seq(Item)] /\ \A v \in Viewer : Len(queue'[v]) <= Buffer
  BY <1>1 DEF Discontinuity
<1>3. backlog' \in Seq(Frame) /\ Len(backlog') <= MaxBacklog
  BY EmptySeq DEF Discontinuity
<1>4. full \subseteq subscribers
  BY DEF Full
<1>5. QED
  BY <1>2, <1>3, <1>4 DEF Discontinuity, TypeOK, frameVars, viewerVars

\* A step of a viewer takes items from the front of sequences.
LEMMA ViewerType ==
  ASSUME TypeOK, NEW v \in Viewer,
         \/ \E f \in Asks(v) : Subscribe(v, f)
         \/ Forward(v) \/ Receive(v) \/ ReceiveLive(v) \/ Unsubscribe(v)
  PROVE  TypeOK'
<1> USE DEF TypeOK, encoderVars, frameVars, streamVars, hubVars, viewerVars
<1>0. <<>> \in Seq(Item) /\ Len(<<>>) = 0 /\ backlog \in Seq(Item)
  BY EmptySeq, SeqMonotonic DEF Item
<1>1. ASSUME NEW f \in Asks(v), Subscribe(v, f)
      PROVE  TypeOK'
  BY <1>0, <1>1 DEF Subscribe
<1>2. ASSUME NEW s \in Seq(Item), s # <<>>
      PROVE  /\ Head(s) \in Item /\ Tail(s) \in Seq(Item)
             /\ Len(Tail(s)) <= Len(s) /\ <<Head(s)>> \in Seq(Item)
             /\ Len(s) \in Nat
  BY <1>2, HeadTailProperties, Longer, LenProperties
<1>3. CASE Forward(v)
  <2>1. /\ Head(queue[v]) \in Item /\ Tail(queue[v]) \in Seq(Item)
        /\ Len(Tail(queue[v])) <= Buffer /\ <<Head(queue[v])>> \in Seq(Item)
    BY <1>2, <1>3, LenProperties DEF Forward
  <2>2. QED BY <1>3, <2>1 DEF Forward
<1>4. CASE Receive(v)
  <2>1. Head(rest[v]) \in Item /\ Tail(rest[v]) \in Seq(Item)
    BY <1>2, <1>4 DEF Receive
  <2>2. QED BY <1>4, <2>1 DEF Receive
<1>5. CASE ReceiveLive(v)
  <2>1. /\ Head(queue[v]) \in Item /\ Tail(queue[v]) \in Seq(Item)
        /\ Len(Tail(queue[v])) <= Buffer
    BY <1>2, <1>5, LenProperties DEF ReceiveLive
  <2>2. QED BY <1>5, <2>1 DEF ReceiveLive
<1>6. CASE Unsubscribe(v)
  BY <1>0, <1>6 DEF Unsubscribe
<1>7. QED BY <1>1, <1>3, <1>4, <1>5, <1>6

\* The variables of the hub keep their types: in particular neither the
\* backlog nor any queue ever outgrows its limit.
THEOREM TypeCorrect == Spec => []TypeOK
<1>0. /\ <<>> \in Seq(Frame) /\ <<>> \in Seq(Item)
      /\ Len(<<>>) <= MaxBacklog /\ Len(<<>>) <= Buffer
  <2>1. Len(<<>>) = 0
    BY EmptySeq
  <2>2. QED BY <2>1, EmptySeq
<1>1. ASSUME Init PROVE TypeOK
  <2>1. /\ queue \in [Viewer -> Seq(Item)] /\ rest \in [Viewer -> Seq(Item)]
        /\ backlog \in Seq(Frame)
    BY <1>0, <1>1 DEF Init
  <2>2. Len(backlog) <= MaxBacklog /\ \A v \in Viewer : Len(queue[v]) <= Buffer
    BY <1>0, <1>1 DEF Init
  <2>3. /\ last \in 0..MaxFrames /\ keys \subseteq 1..last /\ lost \subseteq 1..last
        /\ since \in [Viewer -> 0..MaxFrames] /\ got \in [Viewer -> Item \cup {0}]
    BY <1>1 DEF Init
  <2>4. QED BY <1>1, <2>1, <2>2, <2>3 DEF Init, TypeOK
<1>2. TypeOK /\ [Next]_vars => TypeOK'
  <2> SUFFICES ASSUME TypeOK, [Next]_vars PROVE TypeOK'
    OBVIOUS
  <2> USE DEF TypeOK, encoderVars, frameVars, streamVars, hubVars, viewerVars
  <2>1. ASSUME NEW key \in BOOLEAN, Publish(key) PROVE TypeOK'
    BY <2>1, PublishType
  <2>2. CASE StartEncoder
    BY <2>2 DEF StartEncoder, Frame
  <2>3. CASE EncoderDies \/ StopEncoder
    BY <2>3 DEF EncoderDies, StopEncoder
  <2>4. CASE Discontinuity
    BY <2>4, DiscontinuityType
  <2>5. CASE Remove
    BY <1>0, <2>5 DEF Remove
  <2>6. ASSUME NEW v \in Viewer,
               \/ \E f \in Asks(v) : Subscribe(v, f)
               \/ Forward(v) \/ Receive(v) \/ ReceiveLive(v) \/ Unsubscribe(v)
        PROVE  TypeOK'
    BY <2>6, ViewerType
  <2>7. CASE UNCHANGED vars
    BY <2>7 DEF vars
  <2>8. QED BY <2>1, <2>2, <2>3, <2>4, <2>5, <2>6, <2>7 DEF Next
<1>3. QED BY <1>1, <1>2, PTL DEF Spec

-----------------------------------------------------------------------------
(* Subscriptions.                                                          *)

\* Every path that drops a subscriber closes its channel, and none closes one
\* it keeps.
LEMMA HubStep ==
  ASSUME TypeOK, HubIsConsistent, [Next]_vars
  PROVE  HubIsConsistent'
<1> USE DEF HubIsConsistent, TypeOK, hubVars, viewerVars
<1>1. ASSUME NEW key \in BOOLEAN, Publish(key) PROVE HubIsConsistent'
  BY <1>1 DEF Publish
<1>2. CASE StartEncoder \/ EncoderDies \/ StopEncoder
  BY <1>2 DEF StartEncoder, EncoderDies, StopEncoder
<1>3. CASE Discontinuity
  BY <1>3 DEF Discontinuity, Full
<1>4. CASE Remove
  BY <1>4 DEF Remove
<1>5. ASSUME NEW v \in Viewer, NEW f \in Asks(v), Subscribe(v, f)
      PROVE  HubIsConsistent'
  BY <1>5 DEF Subscribe
<1>6. ASSUME NEW v \in Viewer, Forward(v) \/ Receive(v) \/ ReceiveLive(v)
      PROVE  HubIsConsistent'
  BY <1>6 DEF Forward, Receive, ReceiveLive
<1>7. ASSUME NEW v \in Viewer, Unsubscribe(v)
      PROVE  HubIsConsistent'
  BY <1>7 DEF Unsubscribe
<1>8. CASE UNCHANGED vars
  BY <1>8 DEF vars
<1>9. QED BY <1>1, <1>2, <1>3, <1>4, <1>5, <1>6, <1>7, <1>8 DEF Next

\* The hub never sends on a closed channel, and no viewer is left waiting on
\* an open one that the hub has forgotten.
THEOREM SubscriptionsAreConsistent == Spec => []HubIsConsistent
<1>1. Init => HubIsConsistent
  BY DEF Init, HubIsConsistent
<1>2. TypeOK /\ HubIsConsistent /\ [Next]_vars => HubIsConsistent'
  BY HubStep
<1>3. QED BY <1>1, <1>2, TypeCorrect, PTL DEF Spec

-----------------------------------------------------------------------------
(* The chains.                                                             *)

\* What may follow what: whatever may, goes on to be so when a frame is made.
LEMMA FitsGrows ==
  ASSUME TypeOK, last' \in Nat, last' > last,
         keys' \subseteq keys \cup {last'}, keys \subseteq keys',
         lost \subseteq lost'
  PROVE  Fits \subseteq Fits'
<1>1. ASSUME NEW p \in Item \cup {0}, NEW x \in Item,
             x \in 1..last, Feed!Follows(p, x)
      PROVE  x \in 1..last' /\ Feed!Follows(p, x)'
  <2>1. x \in 1..last' /\ x # last' /\ (x \in keys' <=> x \in keys)
    BY <1>1 DEF TypeOK
  <2>2. QED BY <1>1, <2>1 DEF Feed!Follows
<1>2. QED BY <1>1 DEF Fits

\* A marker may follow anything.
LEMMA GapFits == \A p \in Item \cup {0} : <<p, Gap>> \in Fits
  BY DEF Fits, Item

\* The frame after the newest may follow the newest; an IDR may also follow a
\* marker, nothing, or a frame before a lost backlog.
LEMMA NextFits ==
  ASSUME TypeOK, NEW key \in BOOLEAN, Publish(key),
         NEW p \in Item \cup {0}, NEW n, n = last + 1,
         \/ p = last /\ last # 0
         \/ key /\ (p \in {0, Gap} \/ \E r \in lost : p < r)
  PROVE  <<p, n>> \in Fits'
<1>1. last' = n /\ n \in Frame /\ last \in Nat
  BY DEF Publish, TypeOK
<1>2. n # Gap /\ last # Gap
  BY <1>1 DEF Frame
<1>3. (key => n \in keys') /\ lost \subseteq lost' /\ lost \subseteq 1..last
  BY <1>1 DEF Publish, TypeOK
<1>4. Feed!Follows(p, n)'
  <2>1. CASE p = last /\ last # 0
    BY <1>1, <1>2, <2>1 DEF Feed!Follows
  <2>2. CASE key /\ p \in {0, Gap}
    BY <1>3, <2>2 DEF Feed!Follows
  <2>3. CASE key /\ \E r \in lost : p < r
    <3>1. \A r \in lost : r \in lost' /\ r < n
      BY <1>1, <1>3
    <3>2. QED BY <1>3, <2>3, <3>1 DEF Feed!Follows
  <2>4. QED BY <2>1, <2>2, <2>3
<1>5. n \in 1..last' /\ n \in Item
  BY <1>1 DEF Frame, Item
<1>6. QED BY <1>4, <1>5 DEF Fits

\* A viewer whose items stay keeps its chain.
LEMMA LinkedStays ==
  ASSUME NEW v \in Viewer, Linked(v), Fits \subseteq Fits',
         got'[v] = got[v], rest'[v] = rest[v], queue'[v] = queue[v]
  PROVE  Linked(v)' /\ Pending(v)' = Pending(v) /\ Final(v)' = Final(v)
<1>1. Pending(v)' = Pending(v) /\ Final(v)' = Final(v)
  BY DEF Pending, Final
<1>2. Chain(Fits', got[v], rest[v]) /\ Chain(Fits', Pending(v), queue[v])
  BY ChainWider DEF Linked
<1>3. QED BY <1>1, <1>2 DEF Linked

\* A viewer's queue grows by an item that may follow its last.
LEMMA LinkedGrows ==
  ASSUME TypeOK, NEW v \in Viewer, Linked(v), Fits \subseteq Fits',
         got'[v] = got[v], rest'[v] = rest[v],
         NEW x \in Item, queue'[v] = Append(queue[v], x),
         <<Final(v), x>> \in Fits'
  PROVE  Linked(v)' /\ Final(v)' = x
<1>1. Pending(v)' = Pending(v)
  BY DEF Pending
<1>2. Chain(Fits', got[v], rest[v]) /\ Chain(Fits', Pending(v), queue[v])
  BY ChainWider DEF Linked
<1>3. /\ Chain(Fits', Pending(v), Append(queue[v], x))
      /\ End(Pending(v), Append(queue[v], x)) = x
  BY <1>2, ChainAppend DEF TypeOK, Final
<1>4. QED BY <1>1, <1>2, <1>3 DEF Linked, Final

\* The last items have the type of items.
LEMMA FinalType ==
  ASSUME TypeOK, NEW v \in Viewer
  PROVE  Pending(v) \in Item \cup {0} /\ Final(v) \in Item \cup {0}
<1>1. /\ got[v] \in Item \cup {0}
      /\ rest[v] \in Seq(Item \cup {0}) /\ queue[v] \in Seq(Item \cup {0})
  BY SeqMonotonic DEF TypeOK
<1>2. Pending(v) \in Item \cup {0}
  BY <1>1, EndType DEF Pending
<1>3. QED BY <1>1, <1>2, EndType DEF Final

\* A backlog ends with the newest frame.
LEMMA LastIsFrame ==
  ASSUME TypeOK, StreamInv, hasKeyFrame
  PROVE  last \in Frame
<1>1. backlog \in Seq(Frame) /\ backlog # <<>> /\ End(0, backlog) = last
  BY DEF StreamInv, TypeOK
<1>2. Len(backlog) \in 1..Len(backlog)
  BY <1>1, EmptySeq
<1>3. backlog[Len(backlog)] \in Frame
  BY <1>1, <1>2, ElementOfSeq
<1>4. QED BY <1>1, <1>3 DEF End

\* The backlog goes on from the frame it ended with.
LEMMA PublishStream ==
  ASSUME TypeOK, StreamInv, NEW key \in BOOLEAN, Publish(key)
  PROVE  StreamInv' /\ Fits \subseteq Fits'
<1> DEFINE n == last + 1
<1>1. last' = n /\ n \in Frame /\ last \in Nat /\ encoder' # "off"
  BY DEF Publish, TypeOK, encoderVars
<1>2. Fits \subseteq Fits'
  BY <1>1, FitsGrows DEF Publish
<1>3. CASE Outgrows(n, key)
  <2>1. backlog' = <<>> /\ hasKeyFrame' = FALSE
    BY <1>3 DEF Publish
  <2>2. QED BY <1>1, <1>2, <2>1, ChainShort DEF StreamInv
<1>4. CASE ~Outgrows(n, key) /\ key
  <2>1. backlog' = <<n>> /\ hasKeyFrame' = TRUE
    BY <1>4 DEF Publish, Grown
  <2>2. <<0, n>> \in Fits'
    BY <1>4, NextFits
  <2>3. Chain(Fits', 0, <<n>>) /\ End(0, <<n>>) = n /\ <<n>> # <<>>
    BY <2>2, ChainShort
  <2>4. QED BY <1>1, <1>2, <2>1, <2>3 DEF StreamInv
<1>5. CASE ~Outgrows(n, key) /\ ~key /\ hasKeyFrame
  <2>1. backlog' = Append(backlog, n) /\ hasKeyFrame' = TRUE
    BY <1>5 DEF Publish, Grown
  <2>2. backlog \in Seq(Frame) /\ End(0, backlog) = last
    BY <1>5 DEF StreamInv, TypeOK
  <2>3. last \in Frame
    BY <1>5, LastIsFrame
  <2>4. <<last, n>> \in Fits'
    BY <2>3, NextFits DEF Item, Frame
  <2>5. Chain(Fits', 0, backlog)
    BY <1>2, ChainWider DEF StreamInv
  <2>6. /\ Chain(Fits', 0, Append(backlog, n)) /\ End(0, Append(backlog, n)) = n
        /\ Append(backlog, n) # <<>>
    BY <1>1, <2>2, <2>4, <2>5, ChainAppend, AppendProperties
  <2>7. QED BY <1>1, <1>2, <2>1, <2>6 DEF StreamInv
<1>6. CASE ~Outgrows(n, key) /\ ~key /\ ~hasKeyFrame
  <2>1. backlog' = <<>> /\ hasKeyFrame' = FALSE
    BY <1>6 DEF Publish, Grown
  <2>2. QED BY <1>1, <1>2, <2>1, ChainShort DEF StreamInv
<1>7. QED BY <1>3, <1>4, <1>5, <1>6 DEF TypeOK

\* So does every queue that is sent the frame; a subscriber that is not sent it,
\* or has lost frames, waits for an IDR.
LEMMA PublishViewers ==
  ASSUME TypeOK, StreamInv, ViewerInv, NEW key \in BOOLEAN, Publish(key)
  PROVE  ViewerInv'
<1> DEFINE n  == last + 1
           to == Receivers(n, key)
<1>1. SUFFICES ASSUME NEW v \in Viewer PROVE Linked(v)' /\ Caught(v)'
  BY DEF ViewerInv
<1>2. Linked(v) /\ Caught(v) /\ Fits \subseteq Fits'
  BY PublishStream DEF ViewerInv
<1>3. /\ last' = n /\ last \in Nat /\ n \in Item /\ n # Gap /\ n # 0
      /\ got'[v] = got[v] /\ rest'[v] = rest[v]
      /\ subscribers' = subscribers /\ ready' = to \ Full(to)
      /\ lost \subseteq lost' /\ (Outgrows(n, key) => n \in lost')
      /\ lost \subseteq 1..last
  BY DEF Publish, TypeOK, viewerVars, Item, Frame
<1>4. Final(v) \in Item \cup {0}
  BY FinalType
<1>5. queue'[v] = IF v \in Full(to) THEN <<Gap>>
                  ELSE IF v \in to THEN Append(queue[v], n) ELSE queue[v]
  BY DEF Publish
<1>6. v \in ready => v \in subscribers
  BY DEF TypeOK
<1>7. CASE v \in Full(to)
  <2>1. Pending(v)' = Pending(v)
    BY <1>3 DEF Pending
  <2>2. queue'[v] = <<Gap>>
    BY <1>5, <1>7
  <2>3. <<Pending(v), Gap>> \in Fits'
    BY <1>2, FinalType, GapFits
  <2>4. Chain(Fits', got[v], rest[v])
    BY <1>2, ChainWider DEF Linked
  <2>5. Linked(v)' /\ Final(v)' = Gap
    BY <1>3, <2>1, <2>2, <2>3, <2>4, ChainShort DEF Linked, Final
  <2>6. QED BY <1>3, <1>7, <2>5 DEF Caught
<1>8. CASE v \in to \ Full(to)
  <2>1. \/ Final(v) = last /\ last # 0
        \/ key /\ (Final(v) \in {0, Gap} \/ \E r \in lost : Final(v) < r)
    BY <1>2, <1>8 DEF Receivers, Caught
  <2>2. <<Final(v), n>> \in Fits'
    BY <1>4, <2>1, NextFits
  <2>3. Linked(v)' /\ Final(v)' = n
    BY <1>2, <1>3, <1>5, <1>8, <2>2, LinkedGrows
  <2>4. QED BY <1>3, <1>8, <2>3 DEF Caught
<1>9. CASE v \notin to
  <2>1. Linked(v)' /\ Final(v)' = Final(v)
    BY <1>2, <1>3, <1>5, <1>9, LinkedStays DEF Full
  <2>2. v \notin ready'
    BY <1>3, <1>9
  <2>3. CASE v \in ready
    <3>1. Outgrows(n, key)
      BY <1>6, <1>9, <2>3 DEF Receivers
    <3>2. n \in lost' /\ Final(v)' = last /\ last < n
      BY <1>2, <1>3, <2>1, <2>3, <3>1 DEF Caught
    <3>3. QED BY <2>1, <2>2, <3>2 DEF Caught
  <2>4. CASE v \in subscribers \ ready
    BY <1>2, <1>3, <2>1, <2>2, <2>4 DEF Caught
  <2>5. CASE v \notin subscribers
    BY <1>3, <2>1, <2>2, <2>5 DEF Caught
  <2>6. QED BY <2>1, <2>3, <2>4, <2>5
<1>10. QED BY <1>7, <1>8, <1>9

\* A reset of the stream marks every queue that has room; the others close.
LEMMA DiscontinuityViewers ==
  ASSUME TypeOK, ViewerInv, Discontinuity
  PROVE  ViewerInv'
<1> DEFINE full == Full(subscribers)
<1>1. SUFFICES ASSUME NEW v \in Viewer PROVE Linked(v)' /\ Caught(v)'
  BY DEF ViewerInv
<1>2. Linked(v) /\ Caught(v)
  BY DEF ViewerInv
<1>3. /\ Fits' = Fits /\ lost' = lost
      /\ got'[v] = got[v] /\ rest'[v] = rest[v] /\ Gap \in Item
      /\ subscribers' = subscribers \ full /\ ready' = {}
      /\ queue'[v] = IF v \in subscribers \ full THEN Append(queue[v], Gap)
                                                 ELSE queue[v]
  BY DEF Discontinuity, frameVars, viewerVars, Fits, Item, Feed!Follows
<1>4. CASE v \in subscribers \ full
  <2>1. <<Final(v), Gap>> \in Fits'
    BY <1>3, FinalType, GapFits
  <2>2. Linked(v)' /\ Final(v)' = Gap
    BY <1>2, <1>3, <1>4, <2>1, LinkedGrows
  <2>3. QED BY <1>3, <2>2 DEF Caught
<1>5. CASE v \notin subscribers \ full
  <2>1. Linked(v)'
    BY <1>2, <1>3, <1>5, LinkedStays
  <2>2. QED BY <1>3, <1>5, <2>1 DEF Caught
<1>6. QED BY <1>4, <1>5

\* The steps that leave every viewer's items alone: the encoder may be
\* replaced while nobody is ready, and a teardown forgets every subscriber.
LEMMA QuietViewers ==
  ASSUME TypeOK, StreamInv, ViewerInv,
         \/ StartEncoder \/ EncoderDies \/ StopEncoder \/ Remove
         \/ UNCHANGED vars
  PROVE  ViewerInv'
<1>1. SUFFICES ASSUME NEW v \in Viewer PROVE Linked(v)' /\ Caught(v)'
  BY DEF ViewerInv
<1>2. Linked(v) /\ Caught(v)
  BY DEF ViewerInv
<1>3. Fits \subseteq Fits'
  <2>1. CASE StartEncoder
    BY <2>1, FitsGrows DEF StartEncoder, TypeOK
  <2>2. CASE EncoderDies \/ StopEncoder \/ Remove \/ UNCHANGED vars
    BY <2>2 DEF EncoderDies, StopEncoder, Remove, vars, frameVars, Fits,
                Feed!Follows
  <2>3. QED BY <2>1, <2>2
<1>4. got'[v] = got[v] /\ rest'[v] = rest[v] /\ queue'[v] = queue[v]
  BY DEF StartEncoder, EncoderDies, StopEncoder, Remove, vars, hubVars,
         viewerVars
<1>5. Linked(v)' /\ Final(v)' = Final(v)
  BY <1>2, <1>3, <1>4, LinkedStays
<1>6. /\ lost' = lost
      /\ \/ last' = last /\ subscribers' = subscribers /\ ready' = ready
         \/ ready = {} /\ subscribers' = subscribers /\ ready' = ready
         \/ subscribers' = {} /\ ready' = {}
  BY DEF StreamInv, StartEncoder, EncoderDies, StopEncoder, Remove, vars,
         hubVars, frameVars
<1>7. Caught(v)'
  BY <1>2, <1>5, <1>6 DEF Caught
<1>8. QED BY <1>5, <1>7

\* A new viewer's items are the backlog, which starts at an IDR, or none.
LEMMA SubscribeViewers ==
  ASSUME TypeOK, HubIsConsistent, StreamInv, NewInv, ViewerInv,
         NEW v \in Viewer, NEW f \in Asks(v), Subscribe(v, f)
  PROVE  ViewerInv'
<1>1. SUFFICES ASSUME NEW w \in Viewer PROVE Linked(w)' /\ Caught(w)'
  BY DEF ViewerInv
<1>2. Linked(w) /\ Caught(w)
  BY DEF ViewerInv
<1>3. Fits' = Fits /\ lost' = lost /\ last' = last /\ last \in Nat
      /\ got' = got /\ queue' = queue
  BY DEF Subscribe, frameVars, Fits, Feed!Follows, TypeOK
<1>4. CASE w # v
  <2>1. rest'[w] = rest[w]
    BY <1>4 DEF Subscribe, TypeOK
  <2>2. Linked(w)' /\ Final(w)' = Final(w)
    BY <1>2, <1>3, <2>1, LinkedStays
  <2>3. (w \in subscribers' <=> w \in subscribers) /\ (w \in ready' <=> w \in ready)
    BY <1>4 DEF Subscribe
  <2>4. QED BY <1>2, <1>3, <2>2, <2>3 DEF Caught
<1>5. CASE w = v
  <2>1. got[v] = 0 /\ queue[v] = <<>> /\ rest'[v] = IF f THEN <<>> ELSE backlog
    BY DEF NewInv, Subscribe, TypeOK
  <2>2. Chain(Fits, 0, backlog) /\ Chain(Fits, 0, <<>>)
    BY ChainShort DEF StreamInv
  <2>3. Pending(v)' = End(0, rest'[v]) /\ Final(v)' = Pending(v)'
    BY <1>3, <2>1, ChainShort DEF Pending, Final
  <2>4. Linked(v)'
    <3>1. Chain(Fits', got'[v], rest'[v])
      BY <1>3, <2>1, <2>2
    <3>2. Chain(Fits', Pending(v)', queue'[v])
      BY <1>3, <2>1, ChainShort
    <3>3. QED BY <3>1, <3>2 DEF Linked
  <2>5. CASE hasKeyFrame /\ ~f
    <3>1. End(0, backlog) = last
      BY <2>5 DEF StreamInv
    <3>2. last \in Frame
      BY <2>5, LastIsFrame
    <3>3. v \in ready' /\ Final(v)' = last'
      BY <1>3, <2>1, <2>3, <2>5, <3>1 DEF Subscribe
    <3>4. QED BY <1>3, <1>5, <2>4, <3>2, <3>3 DEF Caught, Frame
  <2>6. CASE ~(hasKeyFrame /\ ~f)
    <3>1. rest'[v] = <<>>
      BY <2>1, <2>6 DEF StreamInv, TypeOK
    <3>2. Final(v)' = 0
      BY <2>3, <3>1, ChainShort
    <3>3. v \notin ready'
      BY <2>6 DEF Subscribe, HubIsConsistent, TypeOK
    <3>4. QED BY <1>5, <2>4, <3>2, <3>3 DEF Caught
  <2>7. QED BY <2>5, <2>6
<1>6. QED BY <1>4, <1>5

\* Items on their way: taken from the front of one sequence, they are the end
\* of the one before, so that the chain as a whole stays what it is.
LEMMA ForwardLinks ==
  ASSUME TypeOK, NEW v \in Viewer, Linked(v), Forward(v)
  PROVE  Linked(v)' /\ Final(v)' = Final(v)
<1> DEFINE q == queue[v]
<1>1. /\ q \in Seq(Item) /\ q # <<>> /\ rest[v] = <<>> /\ got' = got /\ Fits' = Fits
      /\ rest'[v] = <<Head(q)>> /\ queue'[v] = Tail(q)
  BY DEF Forward, TypeOK, frameVars, Fits, Feed!Follows
<1>2. Pending(v) = got[v]
  BY <1>1, ChainShort DEF Pending
<1>3. /\ <<got[v], Head(q)>> \in Fits /\ Chain(Fits, Head(q), Tail(q))
      /\ End(Head(q), Tail(q)) = End(got[v], q)
  BY <1>1, <1>2, ChainTail DEF Linked
<1>4. Pending(v)' = Head(q) /\ Chain(Fits, got[v], <<Head(q)>>)
  BY <1>1, <1>3, ChainShort DEF Pending
<1>5. QED BY <1>1, <1>2, <1>3, <1>4 DEF Linked, Final

\* The same for an item that the viewer takes from its goroutine, ...
LEMMA ReceiveLinks ==
  ASSUME TypeOK, NEW v \in Viewer, Linked(v), Receive(v)
  PROVE  /\ Linked(v)' /\ Final(v)' = Final(v)
         /\ <<got[v], got'[v]>> \in Fits
<1> DEFINE r == rest[v]
<1>1. /\ r \in Seq(Item) /\ r # <<>> /\ queue' = queue /\ Fits' = Fits
      /\ got'[v] = Head(r) /\ rest'[v] = Tail(r)
  BY DEF Receive, TypeOK, frameVars, hubVars, Fits, Feed!Follows
<1>2. /\ <<got[v], Head(r)>> \in Fits /\ Chain(Fits, Head(r), Tail(r))
      /\ End(Head(r), Tail(r)) = Pending(v)
  BY <1>1, ChainTail DEF Linked, Pending
<1>3. Pending(v)' = Pending(v)
  BY <1>1, <1>2 DEF Pending
<1>4. QED BY <1>1, <1>2, <1>3 DEF Linked, Final

\* ... or from its queue.
LEMMA ReceiveLiveLinks ==
  ASSUME TypeOK, NEW v \in Viewer, Linked(v), ReceiveLive(v)
  PROVE  /\ Linked(v)' /\ Final(v)' = Final(v)
         /\ <<got[v], got'[v]>> \in Fits
<1> DEFINE q == queue[v]
<1>1. /\ q \in Seq(Item) /\ q # <<>> /\ rest[v] = <<>> /\ rest' = rest /\ Fits' = Fits
      /\ got'[v] = Head(q) /\ queue'[v] = Tail(q)
  BY DEF ReceiveLive, TypeOK, frameVars, Fits, Feed!Follows
<1>2. Pending(v) = got[v] /\ Pending(v)' = Head(q)
  BY <1>1, ChainShort DEF Pending
<1>3. /\ <<got[v], Head(q)>> \in Fits /\ Chain(Fits, Head(q), Tail(q))
      /\ End(Head(q), Tail(q)) = Final(v)
  BY <1>1, <1>2, ChainTail DEF Linked, Final
<1>4. Chain(Fits, Head(q), <<>>)
  BY ChainShort
<1>5. QED BY <1>1, <1>2, <1>3, <1>4 DEF Linked, Final

\* A viewer that leaves has nothing left to be sent.
LEMMA UnsubscribeLinks ==
  ASSUME TypeOK, NEW v \in Viewer, Unsubscribe(v)
  PROVE  Linked(v)'
<1>1. rest'[v] = <<>> /\ queue'[v] = <<>>
  BY DEF Unsubscribe, TypeOK
<1>2. QED BY <1>1, ChainShort DEF Linked

\* Nobody else's chain is touched by what a viewer takes.
LEMMA TakeViewers ==
  ASSUME TypeOK, ViewerInv, NEW v \in Viewer,
         Forward(v) \/ Receive(v) \/ ReceiveLive(v) \/ Unsubscribe(v)
  PROVE  ViewerInv'
<1>1. SUFFICES ASSUME NEW w \in Viewer PROVE Linked(w)' /\ Caught(w)'
  BY DEF ViewerInv
<1>2. Linked(w) /\ Caught(w) /\ Linked(v)
  BY DEF ViewerInv
<1>3. /\ Fits' = Fits /\ lost' = lost /\ last' = last
      /\ w # v => /\ got'[w] = got[w] /\ rest'[w] = rest[w]
                  /\ queue'[w] = queue[w]
  BY DEF Forward, Receive, ReceiveLive, Unsubscribe, frameVars, hubVars, Fits,
         Feed!Follows, TypeOK
<1>4. \/ subscribers' = subscribers /\ ready' = ready
      \/ Unsubscribe(v) /\ subscribers' = subscribers \ {v} /\ ready' = ready \ {v}
  <2>1. CASE Unsubscribe(v)
    BY <2>1 DEF Unsubscribe
  <2>2. CASE Forward(v) \/ Receive(v) \/ ReceiveLive(v)
    BY <2>2 DEF Forward, Receive, ReceiveLive, hubVars
  <2>3. QED BY <2>1, <2>2
<1>5. CASE w # v
  <2>1. Linked(w)' /\ Final(w)' = Final(w)
    BY <1>2, <1>3, <1>5, LinkedStays
  <2>2. QED BY <1>2, <1>3, <1>4, <1>5, <2>1 DEF Caught
<1>6. CASE w = v /\ Unsubscribe(v)
  BY <1>6, UnsubscribeLinks DEF Caught, Unsubscribe
<1>7. CASE w = v /\ ~Unsubscribe(v)
  <2>1. Linked(v)' /\ Final(v)' = Final(v)
    BY <1>2, <1>7, ForwardLinks, ReceiveLinks, ReceiveLiveLinks
  <2>2. QED BY <1>2, <1>3, <1>4, <1>7, <2>1 DEF Caught
<1>8. QED BY <1>5, <1>6, <1>7

\* Every step keeps the chains of all viewers.
LEMMA ViewerStep ==
  ASSUME TypeOK, HubIsConsistent, FeedInv, [Next]_vars
  PROVE  ViewerInv'
<1> USE DEF FeedInv
<1>1. ASSUME NEW key \in BOOLEAN, Publish(key) PROVE ViewerInv'
  BY <1>1, PublishViewers
<1>2. CASE \/ StartEncoder \/ EncoderDies \/ StopEncoder \/ Remove
           \/ UNCHANGED vars
  BY <1>2, QuietViewers
<1>3. CASE Discontinuity
  BY <1>3, DiscontinuityViewers
<1>4. ASSUME NEW v \in Viewer, NEW f \in Asks(v), Subscribe(v, f)
      PROVE  ViewerInv'
  BY <1>4, SubscribeViewers
<1>5. ASSUME NEW v \in Viewer,
             Forward(v) \/ Receive(v) \/ ReceiveLive(v) \/ Unsubscribe(v)
      PROVE  ViewerInv'
  BY <1>5, TakeViewers
<1>6. QED BY <1>1, <1>2, <1>3, <1>4, <1>5 DEF Next

\* Every step keeps the backlog a chain up to the newest frame.
LEMMA StreamStep ==
  ASSUME TypeOK, StreamInv, [Next]_vars
  PROVE  StreamInv'
<1>1. ASSUME NEW key \in BOOLEAN, Publish(key) PROVE StreamInv'
  BY <1>1, PublishStream
<1>2. CASE Discontinuity \/ Remove
  BY <1>2, ChainShort DEF StreamInv, Discontinuity, Remove, frameVars
<1>3. CASE StartEncoder
  <2>1. backlog = <<>> /\ ~hasKeyFrame /\ backlog' = backlog /\ ~hasKeyFrame'
    BY <1>3 DEF StartEncoder, StreamInv, streamVars
  <2>2. encoder' # "off"
    BY <1>3 DEF StartEncoder
  <2>3. QED BY <2>1, <2>2, ChainShort DEF StreamInv
<1>4. CASE \/ EncoderDies \/ StopEncoder \/ UNCHANGED vars
           \/ \E v \in Viewer : \/ \E f \in Asks(v) : Subscribe(v, f)
                                \/ Forward(v) \/ Receive(v) \/ ReceiveLive(v)
                                \/ Unsubscribe(v)
  <2>1. backlog' = backlog /\ hasKeyFrame' = hasKeyFrame /\ last' = last /\ Fits' = Fits
    BY <1>4 DEF EncoderDies, StopEncoder, vars, Subscribe, Forward, Receive,
                ReceiveLive, Unsubscribe, frameVars, streamVars, Fits, Feed!Follows
  <2>2. encoder' = "off" => encoder = "off"
    BY <1>4 DEF EncoderDies, StopEncoder, vars, Subscribe, Forward, Receive,
                ReceiveLive, Unsubscribe, encoderVars
  <2>3. ~hasKeyFrame /\ ready = {} => ready' = {}
    BY <1>4 DEF EncoderDies, StopEncoder, vars, Subscribe, Forward, Receive,
                ReceiveLive, Unsubscribe, hubVars
  <2>4. QED BY <2>1, <2>2, <2>3 DEF StreamInv
<1>5. QED BY <1>1, <1>2, <1>3, <1>4 DEF Next

\* Nothing is prepared for a viewer before it comes: it is in no set of
\* subscribers.
LEMMA NewStep ==
  ASSUME TypeOK, HubIsConsistent, NewInv, [Next]_vars
  PROVE  NewInv'
<1> USE DEF NewInv, TypeOK, hubVars, viewerVars
<1>1. \A v \in Viewer : phase[v] = "new" => v \notin subscribers
  BY DEF HubIsConsistent
<1>2. ASSUME NEW key \in BOOLEAN, Publish(key) PROVE NewInv'
  BY <1>1, <1>2 DEF Publish, Receivers, Full
<1>3. CASE Discontinuity
  BY <1>1, <1>3 DEF Discontinuity
<1>4. CASE StartEncoder \/ EncoderDies \/ StopEncoder \/ Remove
  BY <1>4 DEF StartEncoder, EncoderDies, StopEncoder, Remove
<1>5. ASSUME NEW v \in Viewer, NEW f \in Asks(v), Subscribe(v, f)
      PROVE  NewInv'
  BY <1>5 DEF Subscribe
<1>6. ASSUME NEW v \in Viewer,
             Forward(v) \/ Receive(v) \/ ReceiveLive(v) \/ Unsubscribe(v)
      PROVE  NewInv'
  BY <1>6 DEF Forward, Receive, ReceiveLive, Unsubscribe
<1>7. CASE UNCHANGED vars
  BY <1>7 DEF vars
<1>8. QED BY <1>2, <1>3, <1>4, <1>5, <1>6, <1>7 DEF Next

\* Hence the invariant holds in every reachable state.
LEMMA FeedInvariant == Spec => []FeedInv
<1>1. ASSUME Init PROVE FeedInv
  <2>1. StreamInv /\ NewInv
    BY <1>1, ChainShort DEF Init, StreamInv, NewInv
  <2>2. ASSUME NEW v \in Viewer PROVE Linked(v) /\ Caught(v)
    <3>1. rest[v] = <<>> /\ queue[v] = <<>> /\ ready = {} /\ subscribers = {}
      BY <1>1 DEF Init
    <3>2. QED BY <3>1, ChainShort DEF Linked, Caught
  <2>3. QED BY <2>1, <2>2 DEF FeedInv, ViewerInv
<1>2. TypeOK /\ HubIsConsistent /\ FeedInv /\ [Next]_vars => FeedInv'
  BY ViewerStep, StreamStep, NewStep DEF FeedInv
<1>3. QED
  BY <1>1, <1>2, TypeCorrect, SubscriptionsAreConsistent, PTL DEF Spec

-----------------------------------------------------------------------------
(* The refinement.                                                         *)

\* What a viewer receives is a marker, or a frame that may follow what it
\* received before.
LEMMA TakeFeed ==
  ASSUME TypeOK, NEW v \in Viewer, <<got[v], got'[v]>> \in Fits,
         got' = [got EXCEPT ![v] = got'[v]],
         UNCHANGED frameVars
  PROVE  Feed!Next
<1>1. got'[v] = Gap \/ (got'[v] \in 1..last /\ Feed!Follows(got[v], got'[v]))
  BY DEF Fits
<1>2. CASE got'[v] = Gap
  BY <1>2 DEF Feed!Next, Feed!Mark, frameVars
<1>3. CASE got'[v] \in 1..last /\ Feed!Follows(got[v], got'[v])
  BY <1>3 DEF Feed!Next, Feed!Show, frameVars
<1>4. QED BY <1>1, <1>2, <1>3

\* Every step of the hub is a step of the feed, or leaves it alone.
LEMMA FeedStep ==
  ASSUME TypeOK, FeedInv, [Next]_vars
  PROVE  [Feed!Next]_Feed!feedVars
<1> USE DEF Feed!feedVars
<1>1. ASSUME NEW key \in BOOLEAN, Publish(key) PROVE Feed!Produce
  <2>1. last' = last + 1 /\ last \in Nat /\ got' = got
    BY <1>1 DEF Publish, TypeOK, viewerVars
  <2>2. /\ keys' \in {keys, keys \cup {last'}}
        /\ lost' \in {lost, lost \cup {last'}}
    BY <1>1 DEF Publish
  <2>3. QED BY <2>1, <2>2 DEF Feed!Produce
<1>2. CASE StartEncoder
  <2>1. last' = last + 1 /\ last \in Nat
    BY <1>2 DEF StartEncoder, TypeOK
  <2>2. Feed!Produce
    BY <1>2, <2>1 DEF StartEncoder, Feed!Produce, viewerVars
  <2>3. QED BY <2>2 DEF Feed!Next
<1>3. ASSUME NEW v \in Viewer, Receive(v) \/ ReceiveLive(v)
      PROVE  Feed!Next
  <2>1. <<got[v], got'[v]>> \in Fits
    BY <1>3, ReceiveLinks, ReceiveLiveLinks DEF FeedInv, ViewerInv
  <2>2. got' = [got EXCEPT ![v] = got'[v]] /\ UNCHANGED frameVars
    BY <1>3 DEF Receive, ReceiveLive, TypeOK
  <2>3. QED BY <2>1, <2>2, TakeFeed
<1>4. CASE \/ EncoderDies \/ StopEncoder \/ Discontinuity \/ Remove
           \/ UNCHANGED vars
           \/ \E v \in Viewer : \/ \E f \in Asks(v) : Subscribe(v, f)
                                \/ Forward(v) \/ Unsubscribe(v)
  BY <1>4 DEF EncoderDies, StopEncoder, Discontinuity, Remove, vars, Subscribe,
              Forward, Unsubscribe, frameVars, viewerVars
<1>5. QED BY <1>1, <1>2, <1>3, <1>4 DEF Next, Feed!Next

\* What every viewer receives, whatever overflows, dies or is torn down, is a
\* feed: VideoHub implements VideoFeed.
THEOREM ViewersSeeFeeds == Spec => FeedSpec
<1>1. Init => Feed!Init
  BY DEF Init, Feed!Init
<1>2. TypeOK /\ FeedInv /\ [Next]_vars => [Feed!Next]_Feed!feedVars
  BY FeedStep
<1>3. QED
  BY <1>1, <1>2, TypeCorrect, FeedInvariant, PTL DEF Spec, FeedSpec, Feed!Spec

-----------------------------------------------------------------------------
(* Fresh viewers.                                                          *)

\* A queue of newer frames stays one when a newer frame or a marker comes.
LEMMA NewerGrows ==
  ASSUME NEW m, NEW s \in Seq(Item), NEW x \in Item,
         Newer(m, s), x \in Frame => x > m
  PROVE  Newer(m, Append(s, x)) /\ Newer(m, <<x>>) /\ Newer(m, <<>>)
<1>1. /\ Len(s) \in Nat /\ Len(Append(s, x)) = Len(s) + 1
      /\ \A i \in 1..Len(s) : Append(s, x)[i] = s[i]
      /\ Append(s, x)[Len(s) + 1] = x
  BY AppendProperties, LenProperties
<1>2. QED BY <1>1 DEF Newer

\* It stays one when its head is taken, which is newer too.
LEMMA NewerTail ==
  ASSUME NEW m, NEW s \in Seq(Item), s # <<>>, Newer(m, s)
  PROVE  Newer(m, Tail(s)) /\ (Head(s) \in Frame => Head(s) > m)
<1>1. /\ Len(s) \in Nat \ {0} /\ Head(s) = s[1]
      /\ Len(Tail(s)) = Len(s) - 1
      /\ \A i \in 1..Len(Tail(s)) : Tail(s)[i] = s[i + 1]
  BY HeadTailProperties, EmptySeq, LenProperties
<1>2. ASSUME NEW i \in 1..Len(Tail(s)), Tail(s)[i] \in Frame
      PROVE  Tail(s)[i] > m
  <2>1. i + 1 \in 1..Len(s) /\ Tail(s)[i] = s[i + 1]
    BY <1>1
  <2>2. QED BY <1>2, <2>1 DEF Newer
<1>3. QED BY <1>1, <1>2 DEF Newer

\* The steps of the hub only add markers and the newest frame.
LEMMA FreshHubStep ==
  ASSUME TypeOK, FreshInv,
         \/ \E key \in BOOLEAN : Publish(key)
         \/ StartEncoder \/ EncoderDies \/ StopEncoder
         \/ Discontinuity \/ Remove \/ UNCHANGED vars
  PROVE  FreshInv'
<1>1. SUFFICES ASSUME NEW v \in Viewer PROVE Fresher(v)'
  BY DEF FreshInv
<1>2. Fresher(v) /\ since[v] \in Nat /\ last \in Nat /\ queue[v] \in Seq(Item)
  BY DEF FreshInv, TypeOK
<1>3. /\ since' = since /\ fresh' = fresh /\ rest' = rest /\ got' = got
      /\ last' = last \/ last' = last + 1
  BY DEF Publish, StartEncoder, EncoderDies, StopEncoder, Discontinuity, Remove,
         vars, frameVars, viewerVars
<1>4. \E x \in Item : /\ x \in Frame => x > last
                      /\ \/ queue'[v] = queue[v] \/ queue'[v] = <<x>>
                         \/ queue'[v] = Append(queue[v], x)
  <2>1. Gap \in Item /\ Gap \notin Frame
    BY DEF Item, Frame
  <2>2. ASSUME NEW key \in BOOLEAN, Publish(key)
        PROVE  /\ last + 1 \in Item
               /\ \/ queue'[v] = queue[v] \/ queue'[v] = <<Gap>>
                  \/ queue'[v] = Append(queue[v], last + 1)
    BY <2>2 DEF Publish, Item
  <2>3. CASE Discontinuity
    BY <2>1, <2>3 DEF Discontinuity
  <2>4. CASE \/ StartEncoder \/ EncoderDies \/ StopEncoder \/ Remove
             \/ UNCHANGED vars
    BY <2>1, <2>4 DEF StartEncoder, EncoderDies, StopEncoder, Remove, vars, hubVars
  <2>5. last + 1 > last
    BY <1>2
  <2>6. QED BY <2>1, <2>2, <2>3, <2>4, <2>5
<1>5. PICK x \in Item : /\ x \in Frame => x > last
                        /\ \/ queue'[v] = queue[v] \/ queue'[v] = <<x>>
                           \/ queue'[v] = Append(queue[v], x)
  BY <1>4
<1>6. x \in Frame => x > since[v]
  BY <1>2, <1>5 DEF Fresher, Frame
<1>7. v \in fresh => Newer(since[v], queue'[v])
  BY <1>2, <1>5, <1>6, NewerGrows DEF Fresher
<1>8. QED BY <1>2, <1>3, <1>7 DEF Fresher

\* A fresh viewer starts with nothing, and takes from its queue only.
LEMMA FreshViewerStep ==
  ASSUME TypeOK, NewInv, FreshInv, NEW v \in Viewer,
         \/ \E f \in Asks(v) : Subscribe(v, f)
         \/ Forward(v) \/ Receive(v) \/ ReceiveLive(v) \/ Unsubscribe(v)
  PROVE  FreshInv'
<1>1. SUFFICES ASSUME NEW w \in Viewer PROVE Fresher(w)'
  BY DEF FreshInv
<1>2. /\ Fresher(w) /\ last' = last /\ last \in Nat /\ since[w] \in Nat
      /\ queue[w] \in Seq(Item)
  BY DEF FreshInv, Subscribe, Forward, Receive, ReceiveLive, Unsubscribe,
         frameVars, TypeOK
<1>3. CASE w # v
  <2>1. /\ since'[w] = since[w] /\ rest'[w] = rest[w] /\ got'[w] = got[w]
        /\ queue'[w] = queue[w] /\ (w \in fresh' <=> w \in fresh)
    BY <1>3 DEF Subscribe, Forward, Receive, ReceiveLive, Unsubscribe, hubVars,
                TypeOK
  <2>2. QED BY <1>2, <2>1 DEF Fresher
<1>4. ASSUME w = v, NEW f \in Asks(v), Subscribe(v, f)
      PROVE  Fresher(v)'
  <2>1. /\ got'[v] = 0 /\ queue'[v] = <<>> /\ since'[v] = last
        /\ v \in fresh' => rest'[v] = <<>>
    BY <1>4 DEF Subscribe, NewInv, TypeOK
  <2>2. Newer(last, <<>>) /\ 0 \notin Frame
    BY DEF Newer, Frame
  <2>3. QED BY <1>2, <2>1, <2>2 DEF Fresher
<1>5. CASE w = v /\ (Forward(v) \/ Receive(v))
  <2>1. v \notin fresh'
    BY <1>2, <1>5 DEF Forward, Receive, Fresher
  <2>2. since' = since
    BY <1>5 DEF Forward, Receive
  <2>3. QED BY <1>2, <1>5, <2>1, <2>2 DEF Fresher
<1>6. CASE w = v /\ ReceiveLive(v)
  <2>1. /\ queue[v] # <<>> /\ v \in fresh /\ since' = since /\ rest' = rest
        /\ got'[v] = Head(queue[v]) /\ queue'[v] = Tail(queue[v])
    BY <1>6 DEF ReceiveLive, TypeOK
  <2>2. /\ Newer(since[v], Tail(queue[v]))
        /\ Head(queue[v]) \in Frame => Head(queue[v]) > since[v]
    BY <1>2, <1>6, <2>1, NewerTail DEF Fresher
  <2>3. QED BY <1>2, <1>6, <2>1, <2>2 DEF Fresher
<1>7. CASE w = v /\ Unsubscribe(v)
  <2>1. v \notin fresh' /\ since'[v] = 0
    BY <1>7 DEF Unsubscribe, TypeOK
  <2>2. QED BY <1>2, <1>7, <2>1 DEF Fresher
<1>8. QED BY <1>3, <1>4, <1>5, <1>6, <1>7

\* Hence the invariant holds in every reachable state.
LEMMA FreshInvariant == Spec => []FreshInv
<1>1. ASSUME Init, NEW v \in Viewer PROVE Fresher(v)
  <2>1. since[v] = 0 /\ last = 0 /\ fresh = {}
    BY <1>1 DEF Init
  <2>2. QED BY <2>1 DEF Fresher
<1>2. TypeOK /\ FeedInv /\ FreshInv /\ [Next]_vars => FreshInv'
  <2> SUFFICES ASSUME TypeOK, FeedInv, FreshInv, [Next]_vars PROVE FreshInv'
    OBVIOUS
  <2>1. CASE \/ \E key \in BOOLEAN : Publish(key)
             \/ StartEncoder \/ EncoderDies \/ StopEncoder
             \/ Discontinuity \/ Remove \/ UNCHANGED vars
    BY <2>1, FreshHubStep
  <2>2. ASSUME NEW v \in Viewer,
               \/ \E f \in Asks(v) : Subscribe(v, f)
               \/ Forward(v) \/ Receive(v) \/ ReceiveLive(v) \/ Unsubscribe(v)
        PROVE  FreshInv'
    BY <2>2, FreshViewerStep DEF FeedInv
  <2>3. QED BY <2>1, <2>2 DEF Next
<1>3. Init => FreshInv
  BY <1>1 DEF FreshInv
<1>4. QED BY <1>2, <1>3, TypeCorrect, FeedInvariant, PTL DEF Spec

\* A viewer that asked for a fresh key frame is never shown one from before it
\* came.
THEOREM FreshViewersStartLive == Spec => []FreshStartsLive
<1>1. FreshInv /\ TypeOK => FreshStartsLive
  BY DEF FreshInv, Fresher, FreshStartsLive, StartsLive, TypeOK
<1>2. QED BY <1>1, FreshInvariant, TypeCorrect, PTL

-----------------------------------------------------------------------------
(* LspVideo: sequence numbers and the stream.                              *)

\* Quotient and remainder.
LEMMA DivMod ==
  ASSUME NEW a \in Nat, NEW n \in Nat, n > 0
  PROVE  \E q \in Nat : a = n * q + (a % n) /\ a % n \in 0..(n - 1)
<1>1. a = n * (a \div n) + (a % n)
  OBVIOUS
<1>2. a \div n \in Nat
  <2>1. a \div n >= 0
    OBVIOUS
  <2>2. QED BY <2>1
<1>3. a % n \in 0..(n - 1)
  OBVIOUS
<1>4. QED BY <1>1, <1>2, <1>3

\* A multiple of n that is nearer to 0 than n is 0.
LEMMA SmallMultiple ==
  ASSUME NEW n \in Nat, n > 0, NEW k \in Int, - n < n * k, n * k < n
  PROVE  n * k = 0
<1>1. CASE k >= 1
  <2>1. n * (k - 1) >= 0
    BY <1>1
  <2>2. n * (k - 1) = n * k - n
    OBVIOUS
  <2>3. QED BY <2>1, <2>2
<1>2. CASE k =< -1
  <2>1. n * ((- 1) - k) >= 0
    BY <1>2
  <2>2. n * ((- 1) - k) = (- n) - n * k
    OBVIOUS
  <2>3. QED BY <2>1, <2>2
<1>3. CASE k = 0
  BY <1>3
<1>4. QED BY <1>1, <1>2, <1>3

\* What the assumption says of the datagrams.
LEMMA StreamFacts ==
  /\ Len(Sent) \in Nat /\ Datagram = 1..Len(Sent) /\ Datagram \subseteq Nat
  /\ \A i \in Datagram :
       /\ Sent[i].generation \in Nat /\ Sent[i].count \in Nat /\ Sent[i].index \in Nat
       /\ Sent[i].from \in Nat /\ Sent[i].upto \in Nat
       /\ Sent[i].index < Sent[i].count
       /\ 1 <= Sent[i].from /\ Sent[i].from <= Sent[i].upto + 1
  /\ \A i \in Datagram : i + 1 \in Datagram =>
       /\ Sent[i + 1].from = Sent[i].upto + 1
       /\ Sent[i + 1].index = IF Sent[i + 1].generation = Sent[i].generation
                              THEN Sent[i].index + 1 ELSE 0
<1> DEFINE R == [number : Nat, generation : Nat, count : Nat, index : Nat,
                 l2 : BOOLEAN, from : Nat, upto : Nat]
<1>1. Sent \in Seq(R)
  BY LspAssumption, Zenon DEF LspAssumption
<1>2. /\ Len(Sent) \in Nat /\ Datagram = 1..Len(Sent)
      /\ \A i \in Datagram : Sent[i] \in R
  <2> HIDE DEF R
  <2>1. QED BY <1>1, LenProperties, ElementOfSeq DEF Datagram
<1>3. \A i \in Datagram :
       /\ Sent[i].index < Sent[i].count
       /\ 1 <= Sent[i].from /\ Sent[i].from <= Sent[i].upto + 1
  BY LspAssumption, Zenon DEF LspAssumption
<1>4. \A i, j \in Datagram : j = i + 1 =>
       /\ Sent[j].from = Sent[i].upto + 1
       /\ Sent[j].index = IF Sent[j].generation = Sent[i].generation
                          THEN Sent[i].index + 1 ELSE 0
  BY LspAssumption, Zenon DEF LspAssumption
<1>5. Datagram \subseteq Nat
  BY <1>2
<1>6. QED BY <1>2, <1>3, <1>4, <1>5

\* A datagram may carry the stream's header.
LEMMA DatagramClass == \A i \in Datagram : Sent[i].l2 \in BOOLEAN
<1> DEFINE R == [number : Nat, generation : Nat, count : Nat, index : Nat,
                 l2 : BOOLEAN, from : Nat, upto : Nat]
<1>1. Sent \in Seq(R)
  BY LspAssumption, Zenon DEF LspAssumption
<1>2. \A i \in Datagram : Sent[i] \in R
  <2> HIDE DEF R
  <2>1. QED BY <1>1, LenProperties, ElementOfSeq DEF Datagram
<1>3. QED BY <1>2

\* Every datagram carries it.
Headed == \A i \in Datagram : Sent[i].l2

\* What the assumption says of the other constants.
LEMMA ConstantFacts ==
  /\ Header \subseteq Nat /\ Completing \subseteq Nat /\ Foreign \subseteq Nat
  /\ Header \cap Completing = {}
  /\ \A h \in Header : Announced[h] \in Nat
  /\ \A h, g \in Header : h < g => \E c \in Completing : h < c /\ c < g
  /\ ~Headed => \A h \in Header, i \in Datagram : Sent[i].l2 /\ h < Sent[i].from =>
       \E c \in Completing : h < c /\ c < Sent[i].from
  /\ FirstSequence \in Nat /\ SequenceSpace \in Nat /\ SequenceSpace > 1
  /\ None \notin Nat
<1>1. /\ Header \subseteq Nat /\ Completing \subseteq Nat /\ Foreign \subseteq Nat
      /\ Header \cap Completing = {}
      /\ Announced \in [Header -> Nat]
      /\ FirstSequence \in Nat /\ SequenceSpace \in Nat \ {0, 1}
      /\ None \notin Nat
  BY LspAssumption, Zenon DEF LspAssumption
<1>2. \A h, g \in Header : h < g => \E c \in Completing : h < c /\ c < g
  BY LspAssumption, Zenon DEF LspAssumption
<1>6. ~Headed => \A h \in Header, i \in Datagram : Sent[i].l2 /\ h < Sent[i].from =>
       \E c \in Completing : h < c /\ c < Sent[i].from
  BY LspAssumption, Zenon DEF LspAssumption, Headed
<1>3. \A h \in Header : Announced[h] \in Nat
  BY <1>1
<1>4. SequenceSpace > 1
  BY <1>1
<1>5. QED BY <1>1, <1>2, <1>3, <1>4, <1>6, Zenon

\* The numbers of the datagrams, parity counted.
LEMMA NumberFacts ==
  /\ \A i \in Datagram : Sent[i].number \in Nat /\ 1 <= Sent[i].number
  /\ \A i, j \in Datagram : i < j => Sent[i].number < Sent[j].number
<1> DEFINE R == [number : Nat, generation : Nat, count : Nat, index : Nat,
                 l2 : BOOLEAN, from : Nat, upto : Nat]
<1>1. Sent \in Seq(R)
  BY LspAssumption, Zenon DEF LspAssumption
<1>2. \A i \in Datagram : Sent[i] \in R
  <2> HIDE DEF R
  <2>1. QED BY <1>1, LenProperties, ElementOfSeq DEF Datagram
<1>3. /\ \A i \in Datagram : 1 <= Sent[i].number
      /\ \A i, j \in Datagram : i < j => Sent[i].number < Sent[j].number
  BY LspAssumption, Zenon DEF LspAssumption
<1>4. QED BY <1>2, <1>3

\* Nothing of the stream lies between two datagrams with numbers in a row.
LEMMA FollowsIsNext ==
  ASSUME NEW i \in Datagram, NEW j \in Datagram, Follows(j, i)
  PROVE  i = j + 1
<1>1. /\ Sent[i].number \in Nat /\ Sent[j].number \in Nat
      /\ Sent[i].number = Sent[j].number + 1 /\ i \in Nat /\ j \in Nat
      /\ Datagram = 1..Len(Sent) /\ Len(Sent) \in Nat
  BY NumberFacts, StreamFacts DEF Follows
<1>2. j < i
  BY <1>1, NumberFacts
<1>3. CASE j + 1 < i
  <2>1. j + 1 \in Datagram /\ j < j + 1
    BY <1>1, <1>3
  <2>2. Sent[j].number < Sent[j + 1].number /\ Sent[j + 1].number < Sent[i].number
    BY <1>3, <2>1, NumberFacts
  <2>3. QED BY <1>1, <2>1, <2>2, NumberFacts
<1>4. QED BY <1>1, <1>2, <1>3

\* The stream has fewer datagrams, parity counted, than sequence numbers.
OneRound == \A i \in Datagram : Sent[i].number < SequenceSpace

\* Then the datagram in sequence is the one with the next number.
LEMMA InSequenceIsNext ==
  ASSUME OneRound, NEW i \in Datagram, NEW j \in Datagram
  PROVE  InSequence(i, Number(j)) <=> Follows(j, i)
<1> DEFINE S == SequenceSpace  F == FirstSequence
           a == Sent[i].number  b == Sent[j].number
<1>1. /\ S \in Nat /\ S > 0 /\ F \in Nat /\ j # 0
      /\ a \in Nat /\ 1 <= a /\ a < S /\ b \in Nat /\ 1 <= b /\ b < S
  BY NumberFacts, StreamFacts, ConstantFacts DEF OneRound
<1> HIDE DEF S, F, a, b
<1>0. F + a \in Nat /\ F + b \in Nat
  BY <1>1
<1>2. PICK p \in Nat : F + a = S * p + ((F + a) % S) /\ (F + a) % S \in 0..(S - 1)
  BY <1>0, <1>1, DivMod, Zenon
<1>3. PICK q \in Nat : F + b = S * q + ((F + b) % S) /\ (F + b) % S \in 0..(S - 1)
  BY <1>0, <1>1, DivMod, Zenon
<1> DEFINE r == (F + b) % S  u == (F + a) % S  w == (r + 1) % S
<1>4. r \in 0..(S - 1) /\ u \in 0..(S - 1)
  BY <1>2, <1>3
<1>5. PICK t \in Nat : r + 1 = S * t + w /\ w \in 0..(S - 1)
  <2>1. r + 1 \in Nat
    BY <1>1, <1>4
  <2> HIDE DEF r
  <2>2. QED BY <1>1, <2>1, DivMod, Zenon
<1>6. F + a = S * p + u /\ F + b = S * q + r
  BY <1>2, <1>3
<1> HIDE DEF r, u, w
<1> DEFINE k == (p - q) - t
<1>7. /\ S * p \in Int /\ S * q \in Int /\ S * t \in Int
      /\ S * k = S * p - S * q - S * t
  BY <1>1
<1>8. k \in Int
  OBVIOUS
<1> HIDE DEF k
<1>9. S * k = (a - (b + 1)) + (w - u)
  BY <1>1, <1>4, <1>5, <1>6, <1>7
<1>10. ASSUME a = b + 1 \/ u = w
       PROVE  S * k = 0
  <2>1. - S < S * k /\ S * k < S
    BY <1>1, <1>4, <1>5, <1>9, <1>10
  <2>2. QED BY <1>1, <1>8, <2>1, SmallMultiple
<1>11. a = b + 1 <=> u = w
  BY <1>1, <1>4, <1>5, <1>9, <1>10
<1>12. QED BY <1>1, <1>11 DEF InSequence, Number, Follows, F, S, r, u, w, a, b
-----------------------------------------------------------------------------
(* LspVideo: the receiver.                                                 *)

\* The datagram received last, and its place in its generation.
Latest == streak.upto
Place  == Sent[Latest].index

\* What has been placed of the generation of datagram b, from index lo on.
Arrived(b, lo) ==
  [generation |-> Sent[b].generation, count |-> Sent[b].count,
   packets |-> [m \in lo..Sent[b].index |-> b - (Sent[b].index - m)]]

\* The generation under way is the end of the unbroken row; a packet of it is
\* consumed only when it is complete, from its first entry to its last.
RowInv ==
  /\ streak \in [from : Nat, upto : Nat]
  /\ Latest <= Len(Sent) /\ 1 <= streak.from /\ streak.from <= Latest + 1
  /\ previous = IF Latest = 0 THEN None ELSE Number(Latest)
  /\ \/ under = NoGeneration
     \/ /\ Latest # 0
        /\ \E lo \in 0..Place :
             Place - lo < Latest /\ under = Arrived(Latest, lo)
        /\ sourceIndex = None <=> ~Complete(under)
  /\ sourceIndex # None => under # NoGeneration /\ sourceIndex \in 0..Place
  /\ sourceIndex = None => cursor = None
  /\ cursor = None => frames = << >>
  /\ cursor # None =>
       cursor \in Nat /\ Packet.from <= cursor /\ cursor <= Packet.upto + 1

\* A record of a generation with other packets.
LEMMA PacketsExcept ==
  ASSUME NEW g, NEW c, NEW p, NEW q
  PROVE  [[generation |-> g, count |-> c, packets |-> p] EXCEPT !.packets = q]
         = [generation |-> g, count |-> c, packets |-> q]
  OBVIOUS

\* A row of datagrams with one more.
LEMMA RowExtends ==
  ASSUME NEW b \in Nat, NEW k \in Nat, NEW lo \in 0..k
  PROVE  LET p == [m \in lo..k |-> b - (k - m)]
         IN  [m \in (lo..k) \cup {k + 1} |-> IF m = k + 1 THEN b + 1 ELSE p[m]]
             = [m \in lo..(k + 1) |-> (b + 1) - ((k + 1) - m)]
<1> DEFINE p == [m \in lo..k |-> b - (k - m)]
<1>1. (lo..k) \cup {k + 1} = lo..(k + 1)
  OBVIOUS
<1>2. ASSUME NEW m \in lo..(k + 1)
      PROVE  (IF m = k + 1 THEN b + 1 ELSE p[m]) = (b + 1) - ((k + 1) - m)
  <2>1. CASE m = k + 1
    BY <2>1
  <2>2. CASE m # k + 1
    <3>1. m \in lo..k
      BY <2>2
    <3>2. p[m] = b - (k - m)
      BY <3>1
    <3>3. QED BY <2>2, <3>2
  <2>3. QED BY <2>1, <2>2
<1>3. QED BY <1>1, <1>2

\* The parts of what has been placed.
LEMMA ArrivedFacts ==
  ASSUME NEW b \in Datagram, NEW lo \in 0..Sent[b].index
  PROVE  /\ Arrived(b, lo).generation = Sent[b].generation
         /\ Arrived(b, lo).count = Sent[b].count
         /\ DOMAIN Arrived(b, lo).packets = lo..Sent[b].index
         /\ \A m \in lo..Sent[b].index :
              Arrived(b, lo).packets[m] = b - (Sent[b].index - m)
         /\ Arrived(b, lo) # NoGeneration
         /\ Complete(Arrived(b, lo)) <=> lo = 0 /\ Sent[b].index + 1 = Sent[b].count
<1>1. /\ Sent[b].index \in Nat /\ Sent[b].count \in Nat /\ Sent[b].index < Sent[b].count
      /\ lo \in Nat /\ lo <= Sent[b].index
  BY StreamFacts
<1>2. /\ Arrived(b, lo).generation = Sent[b].generation
      /\ Arrived(b, lo).count = Sent[b].count
      /\ DOMAIN Arrived(b, lo).packets = lo..Sent[b].index
      /\ \A m \in lo..Sent[b].index :
           Arrived(b, lo).packets[m] = b - (Sent[b].index - m)
  BY DEF Arrived
<1>3. Arrived(b, lo) # NoGeneration
  BY <1>1, <1>2 DEF NoGeneration
<1>4. Cardinality(lo..Sent[b].index) = Sent[b].index - lo + 1
  <2> DEFINE n == Sent[b].index
  <2>1. lo \in Int /\ n \in Int /\ ~(lo > n)
    BY <1>1
  <2> HIDE DEF n
  <2>2. Cardinality(lo..n) = n - lo + 1
    BY <2>1, FS_Interval
  <2>3. QED BY <2>2 DEF n
<1>5. Complete(Arrived(b, lo)) <=> lo = 0 /\ Sent[b].index + 1 = Sent[b].count
  BY <1>1, <1>2, <1>4 DEF Complete
<1>6. QED BY <1>2, <1>3, <1>5

\* A hole is whatever does not come after the datagram before.
LEMMA HoleIs ==
  ASSUME OneRound, RowInv, NEW i \in Datagram
  PROVE  Hole(i) <=> Latest # 0 /\ ~Follows(Latest, i)
<1>1. CASE Latest = 0
  BY <1>1 DEF Hole, RowInv
<1>2. CASE Latest # 0
  <2>1. Latest \in Datagram /\ previous = Number(Latest)
    BY <1>2, StreamFacts DEF RowInv, Latest
  <2>2. Number(Latest) \in Nat
    <3>1. Sent[Latest].number \in Nat /\ FirstSequence + Sent[Latest].number \in Nat
      BY <2>1, NumberFacts, ConstantFacts
    <3>2. QED BY <3>1, ConstantFacts DEF Number
  <2>3. previous # None
    BY <2>1, <2>2, ConstantFacts
  <2>4. QED BY <1>2, <2>1, <2>3, InSequenceIsNext DEF Hole
<1>3. QED BY <1>1, <1>2

\* What the generation under way is once a datagram has been placed.
LEMMA PlacedIs ==
  ASSUME OneRound, RowInv, NEW i \in Datagram,
         Current(i).count = Sent[i].count
  PROVE  \/ Starts(i) /\ Placed(i) = Arrived(i, Sent[i].index)
         \/ /\ ~Starts(i) /\ Latest \in Datagram /\ i = Latest + 1 /\ ~Hole(i)
            /\ Sent[i].index = Place + 1
            /\ \E lo \in 0..Place :
                 /\ Place - lo < Latest /\ under = Arrived(Latest, lo)
                 /\ Placed(i) = Arrived(i, lo)
<1>1. CASE Starts(i)
  <2> DEFINE g == [generation |-> Sent[i].generation, count |-> Sent[i].count,
                   packets |-> << >>]
  <2>1. Current(i) = g
    BY <1>1 DEF Current
  <2>2. DOMAIN g.packets = {}
    OBVIOUS
  <2>3. Placed(i) = [generation |-> Sent[i].generation, count |-> Sent[i].count,
                     packets |-> [m \in {Sent[i].index} |-> i]]
    BY <2>1, <2>2 DEF Placed
  <2>4. Sent[i].index \in Nat /\ i \in Nat
    BY StreamFacts
  <2>5. [m \in {Sent[i].index} |-> i]
        = [m \in Sent[i].index..Sent[i].index |-> i - (Sent[i].index - m)]
    BY <2>4
  <2>6. QED BY <1>1, <2>3, <2>5 DEF Arrived
<1>2. CASE ~Starts(i)
  <2>1. ~Hole(i) /\ under # NoGeneration /\ under.generation = Sent[i].generation
        /\ Current(i) = under
    BY <1>2 DEF Starts, Held, Current
  <2>2. Latest # 0
    BY <2>1 DEF RowInv
  <2>3. i = Latest + 1 /\ Latest \in Datagram
    BY <2>1, <2>2, HoleIs, FollowsIsNext, StreamFacts DEF RowInv, Latest
  <2>4. PICK lo \in 0..Place : Place - lo < Latest /\ under = Arrived(Latest, lo)
    BY <2>1 DEF RowInv
  <2>5. lo \in 0..Sent[Latest].index
    BY <2>4 DEF Place
  <2>6. Sent[i].generation = Sent[Latest].generation
    BY <2>1, <2>3, <2>4, <2>5, ArrivedFacts
  <2>7. Sent[i].index = Sent[Latest].index + 1
    BY <2>3, <2>6, StreamFacts
  <2>8. Sent[i].count = Sent[Latest].count
    BY <2>1, <2>3, <2>4, <2>5, ArrivedFacts
  <2>9. /\ Sent[Latest].index \in Nat /\ lo \in Nat /\ lo <= Sent[Latest].index
        /\ Latest \in Nat /\ i \in Nat
    BY <2>3, <2>5, StreamFacts
  <2> DEFINE k == Sent[Latest].index
             p == [m \in lo..k |-> Latest - (k - m)]
             q == [m \in lo..(k + 1) |-> (Latest + 1) - ((k + 1) - m)]
             t == [m \in (lo..k) \cup {k + 1} |-> IF m = k + 1 THEN Latest + 1 ELSE p[m]]
  <2>10. t = q
    <3> HIDE DEF k
    <3>1. k \in Nat /\ lo \in 0..k
      BY <2>9 DEF k
    <3>2. QED BY <2>9, <3>1, RowExtends
  <2>11. under = [generation |-> Sent[i].generation, count |-> Sent[i].count,
                  packets |-> p]
    BY <2>4, <2>6, <2>8, Zenon DEF Arrived
  <2>12. DOMAIN p = lo..k
    OBVIOUS
  <2>13. Placed(i) = [generation |-> Sent[i].generation, count |-> Sent[i].count,
                      packets |-> t]
    <3> DEFINE u == [m \in DOMAIN under.packets \cup {Sent[i].index} |->
                       IF m = Sent[i].index THEN i ELSE under.packets[m]]
    <3>1. Placed(i) = [under EXCEPT !.packets = u]
      BY <2>1, Zenon DEF Placed
    <3>2. under.packets = p
      BY <2>11
    <3>3. u = t
      <4> HIDE DEF p
      <4>1. QED BY <2>3, <2>7, <2>12, <3>2, Zenon
    <3> HIDE DEF u, t, p
    <3>4. QED BY <2>11, <3>1, <3>3, PacketsExcept, Zenon
  <2>14. Placed(i) = Arrived(i, lo)
    BY <2>3, <2>7, <2>10, <2>13, Zenon DEF Arrived
  <2>15. QED BY <1>2, <2>1, <2>3, <2>4, <2>7, <2>14 DEF Place
<1>3. QED BY <1>1, <1>2

\* The packet consumed is one of a complete generation, the latest datagram's.
LEMMA PacketIs ==
  ASSUME RowInv, sourceIndex # None
  PROVE  /\ Latest \in Datagram /\ sourceIndex \in 0..Place
         /\ under = Arrived(Latest, 0) /\ Place + 1 = Sent[Latest].count
         /\ under.packets[sourceIndex] = FirstOf(Latest) + sourceIndex
         /\ FirstOf(Latest) \in Datagram /\ FirstOf(Latest) + sourceIndex \in Datagram
         /\ Packet = Sent[FirstOf(Latest) + sourceIndex]
         /\ sourceIndex + 1 < under.count <=> sourceIndex < Place
<1>1. /\ Latest # 0 /\ under # NoGeneration /\ sourceIndex \in 0..Place /\ Complete(under)
  BY DEF RowInv
<1>2. Latest \in Datagram /\ Latest \in Nat
  BY <1>1, StreamFacts DEF RowInv, Latest
<1>3. PICK lo \in 0..Place : Place - lo < Latest /\ under = Arrived(Latest, lo)
  BY <1>1 DEF RowInv
<1>4. lo \in 0..Sent[Latest].index
  BY <1>3 DEF Place
<1>5. lo = 0 /\ Place + 1 = Sent[Latest].count /\ under.count = Sent[Latest].count
  BY <1>1, <1>2, <1>3, <1>4, ArrivedFacts DEF Place
<1>6. under.packets[sourceIndex] = Latest - (Sent[Latest].index - sourceIndex)
  BY <1>1, <1>2, <1>3, <1>4, <1>5, ArrivedFacts DEF Place
<1>7. Place \in Nat /\ sourceIndex \in Nat /\ sourceIndex <= Place
  BY <1>1, <1>2, StreamFacts DEF Place
<1>8. /\ FirstOf(Latest) \in Datagram /\ FirstOf(Latest) + sourceIndex \in Datagram
      /\ under.packets[sourceIndex] = FirstOf(Latest) + sourceIndex
  BY <1>2, <1>3, <1>5, <1>6, <1>7, StreamFacts DEF FirstOf, Place
<1>9. sourceIndex + 1 < under.count <=> sourceIndex < Place
  BY <1>5, <1>7
<1>10. QED BY <1>1, <1>2, <1>3, <1>5, <1>8, <1>9 DEF Packet

\* RowInv holds at the start.
LEMMA RowInit == LspInit => RowInv
<1> SUFFICES ASSUME LspInit PROVE RowInv
  OBVIOUS
<1>1. Len(Sent) \in Nat
  BY StreamFacts
<1>2. QED BY <1>1 DEF LspInit, RowInv, Latest

\* A datagram keeps RowInv.
LEMMA RowHear ==
  ASSUME OneRound, RowInv, NEW i \in Datagram,
         RefuseDatagram(i) \/ PlaceDatagram(i)
  PROVE  RowInv'
<1>1. /\ sourceIndex = None /\ cursor = None /\ frames = << >>
      /\ cursor' = None /\ frames' = << >> /\ previous' = Number(i)
      /\ streak' = [from |-> IF Follows(Latest, i) THEN streak.from ELSE i,
                    upto |-> i]
  BY DEF RefuseDatagram, PlaceDatagram, Hear, Waiting, RowInv, Latest
<1>2. i \in Nat /\ 1 <= i /\ i <= Len(Sent) /\ Sent[i].index \in Nat
  BY StreamFacts
<1>3. /\ streak' \in [from : Nat, upto : Nat] /\ Latest' = i
      /\ 1 <= streak'.from /\ streak'.from <= i + 1
  <2>1. Follows(Latest, i) => i = Latest + 1
    <3>1. Latest # 0 => Latest \in Datagram
      BY StreamFacts DEF RowInv, Latest
    <3>2. QED BY <3>1, FollowsIsNext DEF Follows
  <2>2. QED BY <1>1, <1>2, <2>1 DEF RowInv, Latest
<1>4. Place' = Sent[i].index
  BY <1>3 DEF Place
<1>5. CASE RefuseDatagram(i)
  <2>1. under' = NoGeneration /\ sourceIndex' = None
    BY <1>1, <1>5 DEF RefuseDatagram
  <2>2. QED BY <1>1, <1>2, <1>3, <2>1 DEF RowInv
<1>6. CASE PlaceDatagram(i)
  <2>1. /\ under' = Placed(i) /\ Current(i).count = Sent[i].count
        /\ sourceIndex' = IF Complete(Placed(i)) THEN 0 ELSE None
    BY <1>6 DEF PlaceDatagram
  <2>2. \E lo \in 0..Sent[i].index :
          Sent[i].index - lo < i /\ Placed(i) = Arrived(i, lo)
    <3>1. CASE Placed(i) = Arrived(i, Sent[i].index)
      BY <1>2, <3>1
    <3>2. CASE \E lo \in 0..Place :
                 /\ Place - lo < Latest /\ Latest \in Datagram /\ i = Latest + 1
                 /\ Sent[i].index = Place + 1 /\ Placed(i) = Arrived(i, lo)
      <4>1. PICK lo \in 0..Place :
                 /\ Place - lo < Latest /\ Latest \in Datagram /\ i = Latest + 1
                 /\ Sent[i].index = Place + 1 /\ Placed(i) = Arrived(i, lo)
        BY <3>2
      <4>2. Place \in Nat /\ Latest \in Nat
        BY <4>1, StreamFacts DEF Place
      <4>3. lo \in 0..Sent[i].index /\ Sent[i].index - lo < i
        BY <4>1, <4>2
      <4>4. QED BY <4>1, <4>3
    <3>3. QED BY <2>1, <3>1, <3>2, PlacedIs
  <2>3. PICK lo \in 0..Sent[i].index :
          Sent[i].index - lo < i /\ Placed(i) = Arrived(i, lo)
    BY <2>2
  <2>4. Placed(i) # NoGeneration
    BY <2>3, ArrivedFacts
  <2>5. sourceIndex' = None <=> ~Complete(under')
    BY <2>1, ConstantFacts
  <2>6. sourceIndex' # None => sourceIndex' \in 0..Sent[i].index
    BY <1>2, <2>1
  <2>7. i # 0
    BY <1>2
  <2>8. \E m \in 0..Place' : Place' - m < Latest' /\ under' = Arrived(Latest', m)
    BY <1>3, <1>4, <2>1, <2>3, Zenon
  <2>9. (\E m \in 0..Place : Place - m < Latest /\ under = Arrived(Latest, m))'
    BY <2>8, Zenon DEF Arrived
  <2>10. QED BY <1>1, <1>2, <1>3, <1>4, <2>1, <2>4, <2>5, <2>6, <2>7, <2>9, Zenon
             DEF RowInv, Complete
<1>7. QED BY <1>5, <1>6

\* A step within a packet keeps RowInv.
LEMMA RowWithin ==
  ASSUME RowInv, sourceIndex # None,
         UNCHANGED <<streak, previous, under, sourceIndex>>,
         cursor' = None => frames' = << >>,
         cursor' # None => cursor' \in Nat /\ Packet.from <= cursor'
                           /\ cursor' <= Packet.upto + 1
  PROVE  RowInv'
<1>1. Packet' = Packet /\ Latest' = Latest /\ Place' = Place
  BY DEF Packet, Latest, Place
<1>2. QED BY <1>1, Zenon DEF RowInv, Latest, Arrived, Complete

\* The end of a generation keeps RowInv.
LEMMA RowLeave ==
  ASSUME RowInv, UNCHANGED <<streak, previous>>,
         under' = NoGeneration, sourceIndex' = None, cursor' = None, frames' = << >>
  PROVE  RowInv'
  BY Zenon DEF RowInv, Latest

\* The end of a packet keeps RowInv.
LEMMA RowNext ==
  ASSUME RowInv, sourceIndex # None, UNCHANGED <<streak, previous>>,
         cursor' = None, frames' = << >>, NextPacket
  PROVE  RowInv'
<1>1. CASE sourceIndex + 1 < under.count
  <2>1. sourceIndex' = sourceIndex + 1 /\ under' = under
    BY <1>1 DEF NextPacket
  <2>2. Place \in Nat
    BY PacketIs, StreamFacts DEF Place
  <2>3. sourceIndex' \in 0..Place /\ sourceIndex' # None
    BY <1>1, <2>1, <2>2, PacketIs, ConstantFacts
  <2>4. Latest' = Latest /\ Place' = Place
    BY DEF Latest, Place
  <2>5. QED BY <2>1, <2>3, <2>4, Zenon DEF RowInv, Arrived, Complete
<1>2. CASE ~(sourceIndex + 1 < under.count)
  BY <1>2, RowLeave, Zenon DEF NextPacket
<1>3. QED BY <1>1, <1>2

-----------------------------------------------------------------------------
\* The entry x comes next: of the packet under way, of the packet consumed next,
\* of the packets placed, or of the datagram expected.
AheadIn(x, at, index, g, b) ==
  \/ at # None /\ x = at
  \/ at = None /\ index # None /\ x = Sent[g.packets[index]].from
  \/ /\ at = None /\ index = None /\ b # 0
     /\ \/ g = NoGeneration /\ x = Sent[b].upto + 1
        \/ \E lo \in 0..Sent[b].index :
             g = Arrived(b, lo) /\ x = Sent[b - (Sent[b].index - lo)].from

\* The same of the state.
Ahead(x) == AheadIn(x, cursor, sourceIndex, under, Latest)

\* What the assembler has of a frame once the entries before x are taken.
Begun(h, x) == [total |-> Announced[h], data |-> Run(h, x - 1)]

\* Without a stream header no packet is read and no frame is under way.
SyncInv == ~synchronized => active = NoFrame /\ cursor = None

\* If every datagram has the header, only the packet that synchronizes is read,
\* and a frame it leaves open does not go on behind it.
Continues == active # NoFrame /\ ~(Headed /\ cursor = None)

\* The frame under way is one of the kart's, up to the entry that comes next.
ActiveInv ==
  Continues =>
    \E x \in Nat : \E h \in Header :
      /\ Ahead(x) /\ h < x /\ active = Begun(h, x)
      /\ \A c \in Completing : ~(h < c /\ c < x)

\* What a frame of the kart consists of, and what the assembler has completed.
KartData == {Run(f.first, f.upto) : f \in KartFrame}

WrittenInv == frames \in Seq(KartData) /\ emitted \in Seq(KartData)

\* Rows of entries.
LEMMA RunIsSeq ==
  ASSUME NEW a \in Nat, NEW b \in Int, a <= b + 1
  PROVE  /\ Run(a, b) \in Seq(Nat) /\ Len(Run(a, b)) = b + 1 - a
         /\ \A k \in 1..(b + 1 - a) : Run(a, b)[k] = a + k - 1
<1> DEFINE n == b + 1 - a
<1>1. n \in Nat
  OBVIOUS
<1>2. \A k \in 1..n : a + k - 1 \in Nat
  OBVIOUS
<1>3. Run(a, b) \in [1..n -> Nat] /\ \A k \in 1..n : Run(a, b)[k] = a + k - 1
  BY <1>2 DEF Run
<1> HIDE DEF n
<1>4. Run(a, b) \in Seq(Nat) /\ Len(Run(a, b)) = n
  BY <1>1, <1>3
<1>5. QED BY <1>3, <1>4 DEF n

\* A row with the entry that comes next.
LEMMA RunFacts ==
  ASSUME NEW h \in Nat, NEW x \in Nat, h < x
  PROVE  /\ Run(h, x - 1) \in Seq(Nat) /\ Len(Run(h, x - 1)) = x - h
         /\ Run(h, x - 1)[1] = h
         /\ Append(Run(h, x - 1), x) = Run(h, x)
<1> DEFINE r == Run(h, x - 1)  t == Run(h, x)
<1>1. /\ r \in Seq(Nat) /\ Len(r) = x - h
      /\ \A k \in 1..(x - h) : r[k] = h + k - 1
  <2> DEFINE b == x - 1
  <2>1. b \in Int /\ h <= b + 1 /\ b + 1 - h = x - h
    OBVIOUS
  <2> HIDE DEF b
  <2>2. /\ Run(h, b) \in Seq(Nat) /\ Len(Run(h, b)) = x - h
        /\ \A k \in 1..(x - h) : Run(h, b)[k] = h + k - 1
    BY <2>1, RunIsSeq
  <2>3. QED BY <2>2, Zenon DEF b
<1>2. /\ t \in Seq(Nat) /\ Len(t) = x + 1 - h
      /\ \A k \in 1..(x + 1 - h) : t[k] = h + k - 1
  <2>1. x \in Int /\ h <= x + 1
    OBVIOUS
  <2>2. QED BY <2>1, RunIsSeq, Zenon
<1> HIDE DEF r, t
<1>3. /\ Append(r, x) \in Seq(Nat) /\ Len(Append(r, x)) = Len(r) + 1
      /\ \A k \in 1..Len(r) : Append(r, x)[k] = r[k]
      /\ Append(r, x)[Len(r) + 1] = x
  <2>1. r \in Seq(Nat) /\ x \in Nat
    BY <1>1
  <2>2. QED BY <2>1, AppendProperties
<1>4. ASSUME NEW k \in 1..Len(Append(r, x))
      PROVE  Append(r, x)[k] = t[k]
  <2>1. CASE k = Len(r) + 1
    BY <1>1, <1>2, <1>3, <2>1
  <2>2. CASE k # Len(r) + 1
    <3>1. k \in 1..Len(r) /\ k \in 1..(x - h) /\ k \in 1..(x + 1 - h)
      BY <1>1, <1>3, <2>2
    <3>2. QED BY <1>1, <1>2, <1>3, <3>1
  <2>3. QED BY <2>1, <2>2
<1>5. Append(r, x) = t
  <2>1. Len(Append(r, x)) = Len(t)
    BY <1>1, <1>2, <1>3
  <2>2. QED BY <1>2, <1>3, <1>4, <2>1, SeqEqual
<1>6. r[1] = h
  BY <1>1
<1>7. QED BY <1>1, <1>5, <1>6 DEF r, t

\* A row of one entry.
LEMMA RunOfOne ==
  ASSUME NEW h \in Nat
  PROVE  <<h>> = Run(h, h)
  BY DEF Run

\* What comes next once a datagram was placed.
LEMMA AheadPlaced ==
  ASSUME NEW i \in Datagram, NEW lo \in 0..Sent[i].index, NEW x
  PROVE  LET index == IF Complete(Arrived(i, lo)) THEN 0 ELSE None
         IN  AheadIn(x, None, index, Arrived(i, lo), i)
               <=> x = Sent[i - (Sent[i].index - lo)].from
<1>1. i # 0 /\ Sent[i].index \in Nat /\ i \in Nat
  BY StreamFacts
<1>2. CASE Complete(Arrived(i, lo))
  <2>1. lo = 0 /\ 0 # None
    BY <1>2, ArrivedFacts, ConstantFacts
  <2>2. Arrived(i, lo).packets[0] = i - (Sent[i].index - lo)
    BY <1>1, <2>1, ArrivedFacts
  <2>3. QED BY <1>2, <2>1, <2>2 DEF AheadIn
<1>3. CASE ~Complete(Arrived(i, lo))
  <2>1. ASSUME NEW m \in 0..Sent[i].index, Arrived(i, lo) = Arrived(i, m)
        PROVE  m = lo
    <3>1. lo..Sent[i].index = m..Sent[i].index
      BY <2>1, ArrivedFacts
    <3>2. lo \in lo..Sent[i].index /\ m \in m..Sent[i].index
      BY <1>1
    <3>3. lo \in m..Sent[i].index /\ m \in lo..Sent[i].index
      BY <3>1, <3>2, Zenon
    <3>4. QED BY <3>3
  <2>2. Arrived(i, lo) # NoGeneration
    BY ArrivedFacts
  <2>3. QED BY <1>1, <1>3, <2>1, <2>2 DEF AheadIn
<1>4. QED BY <1>2, <1>3

\* A datagram that is the next and cuts nothing short leaves what comes next.
LEMMA HeardAhead ==
  ASSUME OneRound, RowInv, sourceIndex = None, NEW i \in Datagram,
         Current(i).count = Sent[i].count, ~Hole(i), ~CutShort(i), NEW x, Ahead(x)
  PROVE  /\ Latest \in Datagram /\ i = Latest + 1
         /\ \E lo \in 0..Sent[i].index :
              Placed(i) = Arrived(i, lo) /\ x = Sent[i - (Sent[i].index - lo)].from
<1>1. Latest # 0 /\ cursor = None
  BY DEF Ahead, AheadIn, RowInv
<1>2. Latest \in Datagram /\ i = Latest + 1 /\ Latest \in Nat
  BY <1>1, HoleIs, FollowsIsNext, StreamFacts DEF RowInv, Latest
<1>3. CASE Starts(i)
  <2>1. under = NoGeneration
    BY <1>3 DEF RowInv, CutShort, Held
  <2>2. x = Sent[Latest].upto + 1
    <3>1. ASSUME NEW lo \in 0..Sent[Latest].index, under = Arrived(Latest, lo)
          PROVE  FALSE
      BY <1>2, <2>1, <3>1, ArrivedFacts
    <3>2. QED BY <1>1, <2>1, <3>1 DEF Ahead, AheadIn
  <2>3. x = Sent[i].from
    BY <1>2, <2>2, StreamFacts
  <2>4. Placed(i) = Arrived(i, Sent[i].index)
    BY <1>3, PlacedIs
  <2>5. Sent[i].index \in 0..Sent[i].index /\ i - (Sent[i].index - Sent[i].index) = i
    BY StreamFacts
  <2>6. QED BY <1>2, <2>3, <2>4, <2>5
<1>4. CASE ~Starts(i)
  <2>1. PICK lo \in 0..Place : under = Arrived(Latest, lo) /\ Placed(i) = Arrived(i, lo)
    BY <1>4, PlacedIs
  <2>2. Sent[i].index = Place + 1 /\ Place \in Nat
    BY <1>2, <1>4, PlacedIs, StreamFacts DEF Place
  <2>3. ~Complete(Arrived(Latest, lo)) /\ lo \in 0..Sent[Latest].index
    BY <1>2, <2>1, ArrivedFacts DEF RowInv, Place
  <2>4. AheadIn(x, None, None, Arrived(Latest, lo), Latest)
    BY <1>1, <2>1 DEF Ahead
  <2>5. x = Sent[Latest - (Sent[Latest].index - lo)].from
    BY <1>2, <2>3, <2>4, AheadPlaced
  <2>6. i - (Sent[i].index - lo) = Latest - (Sent[Latest].index - lo)
    BY <1>2, <2>2 DEF Place
  <2>7. lo \in 0..Sent[i].index
    BY <2>1, <2>2
  <2>8. QED BY <1>2, <2>1, <2>5, <2>6, <2>7
<1>5. QED BY <1>3, <1>4

\* The end of a packet leaves what comes next to the next packet or datagram.
LEMMA NextAhead ==
  ASSUME RowInv, sourceIndex # None, UNCHANGED streak, cursor' = None, NextPacket,
         NEW x
  PROVE  Ahead(x)' <=> x = Packet.upto + 1
<1> DEFINE k == FirstOf(Latest) + sourceIndex
<1>1. /\ Latest \in Datagram /\ Latest # 0 /\ Latest' = Latest /\ k \in Datagram
      /\ Packet = Sent[k] /\ sourceIndex \in 0..Place /\ Place \in Nat
      /\ sourceIndex + 1 < under.count <=> sourceIndex < Place
      /\ under = Arrived(Latest, 0) /\ FirstOf(Latest) \in Nat /\ Latest \in Nat
      /\ 0 \in 0..Sent[Latest].index
  BY PacketIs, StreamFacts DEF Latest, Place
<1>2. CASE sourceIndex < Place
  <2>1. sourceIndex' = sourceIndex + 1 /\ under' = under /\ sourceIndex' # None
    BY <1>1, <1>2, ConstantFacts DEF NextPacket
  <2>2. sourceIndex + 1 \in 0..Sent[Latest].index
    BY <1>1, <1>2 DEF Place
  <2>3. under.packets[sourceIndex + 1] = Latest - (Sent[Latest].index - (sourceIndex + 1))
    BY <1>1, <2>2, ArrivedFacts
  <2>4. under.packets[sourceIndex + 1] = k + 1 /\ k + 1 <= Latest
    <3>1. /\ sourceIndex \in Nat /\ Latest \in Nat /\ Sent[Latest].index \in Nat
          /\ sourceIndex < Sent[Latest].index
      BY <1>1, <1>2 DEF Place
    <3>2. QED BY <2>3, <3>1 DEF FirstOf
  <2>5. k + 1 \in Datagram
    BY <1>1, <2>4, StreamFacts
  <2>6. Sent[k + 1].from = Sent[k].upto + 1
    BY <1>1, <2>5, StreamFacts
  <2>7. QED BY <1>1, <2>1, <2>4, <2>6 DEF Ahead, AheadIn
<1>3. CASE ~(sourceIndex < Place)
  <2>1. sourceIndex' = None /\ under' = NoGeneration
    BY <1>1, <1>3 DEF NextPacket
  <2>2. k = Latest
    BY <1>1, <1>3 DEF FirstOf, Place
  <2>3. \A lo \in 0..Sent[Latest].index : under' # Arrived(Latest, lo)
    BY <1>1, <2>1, ArrivedFacts
  <2>4. QED BY <1>1, <2>1, <2>2, <2>3 DEF Ahead, AheadIn
<1>4. QED BY <1>2, <1>3

\* Within a packet the entry at the cursor comes next.
LEMMA AheadCursor ==
  ASSUME cursor # None, NEW x
  PROVE  Ahead(x) <=> x = cursor
  BY DEF Ahead, AheadIn

\* Between packets it is the first of the packet.
LEMMA AheadPacket ==
  ASSUME cursor = None, sourceIndex # None, NEW x
  PROVE  Ahead(x) <=> x = Packet.from
  BY DEF Ahead, AheadIn, Packet

\* A frame begun is not nothing.
LEMMA BegunFacts ==
  ASSUME NEW h \in Header, NEW x \in Nat, h < x
  PROVE  /\ Begun(h, x) # NoFrame
         /\ Begun(h, x).total = Announced[h] /\ Begun(h, x).data = Run(h, x - 1)
         /\ Begun(h, x).data[1] = h /\ Len(Begun(h, x).data) = x - h
<1>1. h \in Nat
  BY ConstantFacts
<1>2. /\ Begun(h, x).total = Announced[h] /\ Begun(h, x).data = Run(h, x - 1)
  BY DEF Begun
<1>3. /\ Begun(h, x).data[1] = h /\ Len(Begun(h, x).data) = x - h
  BY <1>1, <1>2, RunFacts
<1>4. Begun(h, x) # NoFrame
  <2>1. Len(Begun(h, x).data) # 0 /\ Len(<< >>) = 0
    BY <1>1, <1>3
  <2>2. QED BY <2>1 DEF NoFrame
<1>5. QED BY <1>2, <1>3, <1>4

-----------------------------------------------------------------------------
\* What each kind of step leaves of the frame under way.

\* A datagram drops the frame under way or is the next of it.
LEMMA ActiveHear ==
  ASSUME OneRound, RowInv, ActiveInv, NEW i \in Datagram,
         RefuseDatagram(i) \/ PlaceDatagram(i)
  PROVE  ActiveInv'
<1>1. CASE active' = NoFrame
  BY <1>1 DEF ActiveInv, Continues
<1>2. CASE active' # NoFrame /\ Headed
  <2>1. cursor' = None
    BY DEF RefuseDatagram, PlaceDatagram, Hear, Waiting, RowInv
  <2>2. QED BY <1>2, <2>1 DEF ActiveInv, Continues
<1>3. CASE active' # NoFrame /\ ~Headed
  <2>1. PlaceDatagram(i)
    BY <1>3 DEF RefuseDatagram
  <2>2. /\ under' = Placed(i) /\ Current(i).count = Sent[i].count
        /\ sourceIndex' = IF Complete(Placed(i)) THEN 0 ELSE None
        /\ active' = active /\ ~Hole(i) /\ ~CutShort(i)
        /\ sourceIndex = None /\ cursor = None /\ cursor' = None /\ Latest' = i
    BY <1>3, <2>1 DEF PlaceDatagram, Hear, Waiting, RowInv, Latest
  <2>3. PICK x \in Nat, h \in Header :
          /\ Ahead(x) /\ h < x /\ active = Begun(h, x)
          /\ \A c \in Completing : ~(h < c /\ c < x)
    BY <1>3, <2>2 DEF ActiveInv, Continues
  <2>4. PICK lo \in 0..Sent[i].index :
          Placed(i) = Arrived(i, lo) /\ x = Sent[i - (Sent[i].index - lo)].from
    BY <2>2, <2>3, HeardAhead
  <2>5. Ahead(x)'
    BY <2>2, <2>4, AheadPlaced DEF Ahead
  <2>6. (active = Begun(h, x))'
    BY <2>2, <2>3 DEF Begun
  <2>7. QED BY <2>3, <2>5, <2>6 DEF ActiveInv, Continues
<1>4. QED BY <1>1, <1>2, <1>3

\* The first packet is opened, or one of a synchronized stream.
LEMMA ActiveOpen ==
  ASSUME RowInv, ActiveInv, SyncInv, synchronized \in BOOLEAN, OpenPacket
  PROVE  ActiveInv'
<1>1. /\ cursor = None /\ sourceIndex # None /\ active' = active
      /\ cursor' = Packet.from /\ synchronized # Packet.l2
  BY DEF OpenPacket, Consuming
<1>2. PICK k \in Datagram : Packet = Sent[k]
  BY <1>1, PacketIs
<1>3. cursor' # None
  BY <1>1, <1>2, StreamFacts, ConstantFacts
<1>4. CASE Headed
  <2>1. Packet.l2 /\ Packet.l2 \in BOOLEAN
    BY <1>2, <1>4, DatagramClass, Zenon DEF Headed
  <2>2. active' = NoFrame
    BY <1>1, <2>1, Zenon DEF SyncInv
  <2>3. QED BY <2>2 DEF ActiveInv, Continues
<1>5. CASE ~Headed
  <2>1. ASSUME NEW x, Ahead(x) PROVE Ahead(x)'
    BY <1>1, <1>3, <2>1, AheadPacket DEF Ahead, AheadIn
  <2>2. QED BY <1>1, <1>5, <2>1, Zenon DEF ActiveInv, Continues, Begun
<1>6. QED BY <1>4, <1>5

\* No frame is under way before a stream header, where not all have it.
LEMMA NoFrameBeforeL2 ==
  ASSUME RowInv, ActiveInv, cursor = None, sourceIndex # None, Packet.l2, ~Headed
  PROVE  active = NoFrame
<1> SUFFICES ASSUME active # NoFrame PROVE FALSE
  OBVIOUS
<1>1. PICK x \in Nat, h \in Header :
        Ahead(x) /\ h < x /\ \A c \in Completing : ~(h < c /\ c < x)
  BY DEF ActiveInv, Continues
<1>2. x = Packet.from
  BY <1>1, AheadPacket
<1>3. PICK k \in Datagram : Packet = Sent[k]
  BY PacketIs
<1>4. PICK c \in Completing : h < c /\ c < x
  BY <1>1, <1>2, <1>3, ConstantFacts, Zenon
<1>5. QED BY <1>1, <1>4

\* An entry that begins a frame, or none.
LEMMA ActiveFirst ==
  ASSUME RowInv, TakeFirst
  PROVE  ActiveInv'
<1>1. /\ cursor # None /\ cursor' = cursor + 1
      /\ active' = IF cursor \in Header
                   THEN [total |-> Announced[cursor], data |-> <<cursor>>] ELSE NoFrame
  BY DEF TakeFirst, InPacket
<1>2. cursor \in Nat /\ cursor' \in Nat /\ cursor' # None
  BY <1>1, ConstantFacts DEF RowInv
<1>3. CASE cursor \in Header
  <2>1. active' = Begun(cursor, cursor + 1)
    <3>1. (cursor + 1) - 1 = cursor
      BY <1>2
    <3>2. QED BY <1>1, <1>2, <1>3, <3>1, RunOfOne DEF Begun
  <2>2. PICK y \in Nat, h \in Header : y = cursor + 1 /\ h = cursor
    BY <1>2, <1>3
  <2>3. \A c \in Completing : ~(h < c /\ c < y)
    BY <1>2, <2>2, ConstantFacts
  <2>4. Ahead(y)'
    BY <1>1, <1>2, <2>2 DEF Ahead, AheadIn
  <2>5. h < y /\ active' = Begun(h, y)
    BY <1>2, <2>1, <2>2
  <2>6. QED BY <2>3, <2>4, <2>5, Zenon DEF ActiveInv, Continues, Begun
<1>4. CASE cursor \notin Header
  BY <1>1, <1>4 DEF ActiveInv, Continues
<1>5. QED BY <1>3, <1>4

\* The frame under way, told from its first entry.
LEMMA ActiveIs ==
  ASSUME RowInv, ActiveInv, active # NoFrame, cursor # None
  PROVE  \E h \in Header :
           /\ h \in Nat /\ cursor \in Nat /\ h < cursor /\ active = Begun(h, cursor)
           /\ \A c \in Completing : ~(h < c /\ c < cursor)
<1>1. PICK x \in Nat, h \in Header :
        /\ Ahead(x) /\ h < x /\ active = Begun(h, x)
        /\ \A c \in Completing : ~(h < c /\ c < x)
  BY DEF ActiveInv, Continues
<1>2. x = cursor
  BY <1>1, AheadCursor
<1>3. QED BY <1>1, <1>2, ConstantFacts

\* A frame begun grows by the entry that comes next.
LEMMA BegunGrows ==
  ASSUME NEW h \in Header, NEW x \in Nat, h < x
  PROVE  /\ [Begun(h, x) EXCEPT !.data = Append(@, x)] = Begun(h, x + 1)
         /\ Append(Begun(h, x).data, x) = Run(h, x)
         /\ Len(Run(h, x)) = x + 1 - h
<1>1. h \in Nat /\ (x + 1) - 1 = x
  BY ConstantFacts
<1>2. Append(Run(h, x - 1), x) = Run(h, x) /\ Begun(h, x).data = Run(h, x - 1)
  BY <1>1, RunFacts, BegunFacts
<1>3. [Begun(h, x) EXCEPT !.data = Append(@, x)]
      = [total |-> Announced[h], data |-> Append(Run(h, x - 1), x)]
  <2> DEFINE t == Announced[h]  r == Run(h, x - 1)  b == Begun(h, x)
  <2>1. b = [total |-> t, data |-> r]
    BY DEF Begun
  <2> HIDE DEF t, r, b
  <2>2. [b EXCEPT !.data = Append(@, x)] = [total |-> t, data |-> Append(r, x)]
    BY <2>1
  <2>3. QED BY <2>2 DEF t, r, b
<1>4. Len(Run(h, x)) = x + 1 - h
  BY <1>1, RunIsSeq
<1>5. QED BY <1>1, <1>2, <1>3, <1>4 DEF Begun

\* A body entry.
LEMMA ActiveBody ==
  ASSUME RowInv, ActiveInv, TakeBody
  PROVE  ActiveInv'
<1>1. /\ cursor # None /\ cursor' = cursor + 1 /\ cursor \notin Completing
      /\ active # NoFrame
      /\ active' = [active EXCEPT !.data = Append(@, cursor)]
  BY DEF TakeBody, InPacket
<1>2. PICK h \in Header :
        /\ h \in Nat /\ cursor \in Nat /\ h < cursor /\ active = Begun(h, cursor)
        /\ \A c \in Completing : ~(h < c /\ c < cursor)
  BY <1>1, ActiveIs
<1>3. cursor + 1 \in Nat /\ h < cursor + 1 /\ cursor' # None
  BY <1>1, <1>2, ConstantFacts
<1>4. active' = Begun(h, cursor + 1)
  BY <1>1, <1>2, BegunGrows
<1>5. \A c \in Completing : ~(h < c /\ c < cursor + 1)
  <2>1. ASSUME NEW c \in Completing, h < c, c < cursor + 1
        PROVE  FALSE
    <3>1. c \in Nat /\ c # cursor
      BY <1>1, ConstantFacts
    <3>2. QED BY <1>2, <2>1, <3>1
  <2>2. QED BY <2>1
<1>6. PICK y \in Nat : y = cursor + 1
  BY <1>3
<1>7. Ahead(y)'
  BY <1>1, <1>3, <1>6 DEF Ahead, AheadIn
<1>8. QED BY <1>3, <1>4, <1>5, <1>6, <1>7, Zenon DEF ActiveInv, Continues, Begun

\* The end of a packet.
LEMMA ActiveWrite ==
  ASSUME RowInv, ActiveInv, WritePacket
  PROVE  ActiveInv'
<1>1. /\ sourceIndex # None /\ cursor # None /\ cursor > Packet.upto
      /\ UNCHANGED <<streak, active>> /\ cursor' = None /\ NextPacket
  BY DEF WritePacket, EndOfPacket, Consuming, networkVars
<1>2. PICK k \in Datagram : Packet = Sent[k]
  BY <1>1, PacketIs
<1>3. cursor = Packet.upto + 1
  <2>1. Packet.upto \in Nat /\ cursor \in Nat /\ cursor <= Packet.upto + 1
    BY <1>1, <1>2, StreamFacts DEF RowInv
  <2>2. QED BY <1>1, <2>1
<1>4. ASSUME NEW x, Ahead(x) PROVE Ahead(x)'
  BY <1>1, <1>3, <1>4, AheadCursor, NextAhead
<1>5. QED BY <1>1, <1>4, Zenon DEF ActiveInv, Continues, Begun

-----------------------------------------------------------------------------
\* In a clean row nothing of the latest generation is missing.
AlignedInv ==
  \A a \in streak.from..Latest : Clean(a, Latest) =>
    /\ a <= FirstOf(Latest)
    /\ \/ under = Arrived(Latest, 0)
       \/ under = NoGeneration /\ Place + 1 = Sent[Latest].count

\* The frame is among those of s.
In(f, s) == \E k \in DOMAIN s : s[k] = Run(f.first, f.upto)

\* Of the frames that begin at datagram a or later, the one that x is part of is
\* under way, and those of the generation of b that end before x are there.
Reached(a, x, b, taken, done, written) ==
  \A f \in KartFrame : Sent[a].from <= f.first /\ f.first < x =>
    /\ x <= f.upto => taken # NoFrame /\ taken.data[1] = f.first
    /\ /\ f.upto < x /\ Sent[FirstOf(b)].from <= f.upto
       /\ Announced[f.first] = f.upto + 1 - f.first
       => In(f, done) \/ In(f, written)

\* While the assembler is synchronized, that holds of every clean row.
ReachedInv ==
  running /\ synchronized =>
    \A a \in streak.from..Latest : Clean(a, Latest) =>
      \A x : Ahead(x) => Reached(a, x, Latest, active, frames, emitted)

\* A row that is clean with one more datagram is clean.
LEMMA CleanShorter ==
  ASSUME NEW a \in Nat, NEW b \in Nat, a <= b, Clean(a, b + 1)
  PROVE  /\ Clean(a, b)
         /\ IF Sent[b + 1].generation = Sent[b].generation
            THEN Sent[b + 1].count = Sent[b].count ELSE Sent[b].index + 1 = Sent[b].count
<1>1. a..b \subseteq a..(b + 1) /\ a..(b - 1) \subseteq a..((b + 1) - 1)
      /\ b \in a..((b + 1) - 1)
  OBVIOUS
<1>2. QED BY <1>1, Zenon DEF Clean

\* A datagram with which a row is clean belongs where it is placed.
LEMMA CleanHeard ==
  ASSUME OneRound, RowInv, AlignedInv, sourceIndex = None,
         NEW i \in Datagram, NEW a \in Nat, 1 <= a, a <= i, Clean(a, i),
         IF Follows(Latest, i) THEN streak.from <= a ELSE a = i
  PROVE  /\ Current(i).count = Sent[i].count
         /\ a <= FirstOf(i) /\ Placed(i) = Arrived(i, 0)
         /\ a < i => /\ a \in streak.from..Latest /\ Clean(a, Latest)
                     /\ ~Hole(i) /\ ~CutShort(i)
                     /\ Ahead(Sent[FirstOf(i)].from)
<1>1. /\ i \in Nat /\ Sent[a].index = 0 /\ a \in Datagram /\ Sent[i].index \in Nat
      /\ cursor = None
  BY StreamFacts DEF Clean, RowInv
<1>2. CASE a = i
  <2>1. Starts(i)
    <3> SUFFICES ASSUME ~Starts(i) PROVE FALSE
      OBVIOUS
    <3>1. ~Hole(i) /\ under # NoGeneration /\ under.generation = Sent[i].generation
      BY DEF Starts, Held
    <3>2. PICK lo \in 0..Place : Latest # 0 /\ under = Arrived(Latest, lo)
      BY <3>1 DEF RowInv
    <3>3. i = Latest + 1 /\ Latest \in Datagram
      BY <3>1, <3>2, HoleIs, FollowsIsNext, StreamFacts DEF RowInv, Latest
    <3>4. Sent[i].generation = Sent[Latest].generation
      BY <3>1, <3>2, <3>3, ArrivedFacts DEF Place
    <3>5. Sent[i].index = Sent[Latest].index + 1 /\ Sent[Latest].index \in Nat
      BY <3>3, <3>4, StreamFacts
    <3>6. QED BY <1>1, <1>2, <3>5
  <2>2. Current(i).count = Sent[i].count
    BY <2>1 DEF Current
  <2>3. Placed(i) = Arrived(i, 0)
    BY <1>1, <1>2, <2>1, <2>2, PlacedIs
  <2>4. FirstOf(i) = i
    BY <1>1, <1>2 DEF FirstOf
  <2>5. QED BY <1>2, <2>2, <2>3, <2>4
<1>3. CASE a < i
  <2>0. Follows(Latest, i) /\ Latest \in Datagram /\ streak.from <= a
    BY <1>1, <1>3, StreamFacts DEF RowInv, Latest, Follows
  <2>1. i = Latest + 1 /\ Latest \in Nat /\ a <= Latest /\ a \in streak.from..Latest
    BY <1>1, <1>3, <2>0, FollowsIsNext, StreamFacts DEF RowInv
  <2>2. Latest \in Datagram /\ Latest # 0
    BY <1>1, <2>1, StreamFacts
  <2>3. /\ Clean(a, Latest)
        /\ IF Sent[i].generation = Sent[Latest].generation
           THEN Sent[i].count = Sent[Latest].count
           ELSE Sent[Latest].index + 1 = Sent[Latest].count
    BY <2>1, CleanShorter
  <2>4. /\ a <= FirstOf(Latest)
        /\ \/ under = Arrived(Latest, 0)
           \/ under = NoGeneration /\ Place + 1 = Sent[Latest].count
    BY <2>1, <2>3 DEF AlignedInv
  <2>5. ~Hole(i) /\ Held(i) = under
    <3>1. ~Hole(i)
      BY <2>0, HoleIs
    <3>2. QED BY <3>1 DEF Held
  <2>6. /\ Sent[Latest].index \in Nat /\ Sent[Latest].count \in Nat
        /\ Sent[i].count \in Nat /\ Sent[i].index < Sent[i].count
        /\ Sent[i].from = Sent[Latest].upto + 1
        /\ Sent[i].index = IF Sent[i].generation = Sent[Latest].generation
                           THEN Sent[Latest].index + 1 ELSE 0
    BY <2>1, <2>2, StreamFacts
  <2>7. CASE under = NoGeneration
    <3>1. Starts(i)
      BY <2>5, <2>7 DEF Starts
    <3>2. Current(i).count = Sent[i].count
      BY <3>1 DEF Current
    <3>3. Place + 1 = Sent[Latest].count
      BY <2>2, <2>4, <2>6, <2>7, ArrivedFacts
    <3>4. Sent[i].index = 0
      BY <2>3, <2>6, <3>3 DEF Place
    <3>5. Placed(i) = Arrived(i, 0)
      BY <3>1, <3>2, <3>4, PlacedIs
    <3>6. FirstOf(i) = i
      BY <1>1, <3>4 DEF FirstOf
    <3>7. ~CutShort(i)
      BY <2>5, <2>7 DEF CutShort
    <3>8. Ahead(Sent[FirstOf(i)].from)
      BY <1>1, <2>2, <2>6, <2>7, <3>6 DEF Ahead, AheadIn
    <3>9. QED BY <1>3, <2>1, <2>3, <2>5, <3>2, <3>5, <3>6, <3>7, <3>8
  <2>8. CASE under # NoGeneration
    <3>1. under = Arrived(Latest, 0) /\ ~Complete(under) /\ 0 \in 0..Sent[Latest].index
      BY <2>4, <2>6, <2>8 DEF RowInv
    <3>2. Sent[Latest].index + 1 # Sent[Latest].count
      BY <2>2, <3>1, ArrivedFacts
    <3>3. /\ Sent[i].generation = Sent[Latest].generation
          /\ Sent[i].count = Sent[Latest].count
          /\ Sent[i].index = Sent[Latest].index + 1
      BY <2>3, <2>6, <3>2
    <3>4. ~Starts(i)
      BY <2>2, <2>5, <2>8, <3>1, <3>3, ArrivedFacts DEF Starts
    <3>5. Current(i) = under /\ Current(i).count = Sent[i].count
      BY <2>2, <2>5, <3>1, <3>3, <3>4, ArrivedFacts DEF Current
    <3>6. Placed(i) = Arrived(i, 0)
      <4>1. PICK lo \in 0..Place : under = Arrived(Latest, lo) /\ Placed(i) = Arrived(i, lo)
        BY <3>4, <3>5, PlacedIs
      <4>2. lo..Sent[Latest].index = 0..Sent[Latest].index /\ lo \in 0..Sent[Latest].index
        BY <2>2, <3>1, <4>1, ArrivedFacts DEF Place
      <4>3. 0 \in lo..Sent[Latest].index
        BY <3>1, <4>2, Zenon
      <4>4. lo = 0
        BY <4>2, <4>3
      <4>5. QED BY <4>1, <4>4
    <3>7. FirstOf(i) = FirstOf(Latest) /\ FirstOf(i) = Latest - (Sent[Latest].index - 0)
      BY <2>1, <2>6, <3>3 DEF FirstOf
    <3>8. AheadIn(Sent[FirstOf(i)].from, None, None, Arrived(Latest, 0), Latest)
      BY <2>2, <3>1, <3>7, AheadPlaced
    <3>9. Ahead(Sent[FirstOf(i)].from)
      BY <1>1, <3>1, <3>8 DEF Ahead
    <3>10. ~CutShort(i)
      BY <3>4 DEF CutShort
    <3>11. QED BY <1>3, <2>1, <2>3, <2>4, <2>5, <3>5, <3>6, <3>7, <3>9, <3>10
  <2>9. QED BY <2>7, <2>8
<1>4. QED BY <1>1, <1>2, <1>3

\* A datagram keeps the clean rows aligned, and their frames reached.
LEMMA CleanHear ==
  ASSUME OneRound, RowInv, AlignedInv, ReachedInv,
         NEW i \in Datagram, RefuseDatagram(i) \/ PlaceDatagram(i)
  PROVE  AlignedInv' /\ ReachedInv'
<1>1. /\ sourceIndex = None /\ cursor' = None /\ running /\ running' /\ emitted' = << >>
      /\ synchronized' = synchronized /\ frames' = frames
      /\ streak' = [from |-> IF Follows(Latest, i) THEN streak.from ELSE i,
                    upto |-> i]
      /\ cursor = None
  BY DEF RefuseDatagram, PlaceDatagram, Hear, Waiting, RowInv, Latest
<1>2. /\ Latest' = i /\ i \in Nat
      /\ streak'.from = IF Follows(Latest, i) THEN streak.from ELSE i
  BY <1>1, StreamFacts DEF Latest
<1>3. streak.from \in Nat /\ 1 <= streak.from /\ 1 <= i
  BY StreamFacts DEF RowInv
<1> SUFFICES ASSUME NEW a \in streak'.from..i, Clean(a, i)
             PROVE  /\ a <= FirstOf(i)
                    /\ under' = Arrived(i, 0)
                    /\ running' /\ synchronized' =>
                         \A x : Ahead(x)' =>
                           Reached(a, x, i, active', frames', emitted')
  BY <1>2, Zenon DEF AlignedInv, ReachedInv
<1>4. /\ a \in Nat /\ 1 <= a /\ a <= i
      /\ IF Follows(Latest, i) THEN streak.from <= a ELSE a = i
  BY <1>2, <1>3
<1>5. /\ Current(i).count = Sent[i].count
      /\ a <= FirstOf(i) /\ Placed(i) = Arrived(i, 0)
      /\ a < i => /\ a \in streak.from..Latest /\ Clean(a, Latest)
                  /\ ~Hole(i) /\ ~CutShort(i)
                  /\ Ahead(Sent[FirstOf(i)].from)
  BY <1>1, <1>4, CleanHeard
<1>6. /\ PlaceDatagram(i) /\ under' = Arrived(i, 0)
      /\ sourceIndex' = IF Complete(Arrived(i, 0)) THEN 0 ELSE None
  BY <1>5 DEF RefuseDatagram, PlaceDatagram
<1>7. ASSUME synchronized, NEW x, Ahead(x)'
      PROVE  Reached(a, x, i, active', frames', emitted')
  <2>1. Sent[i].index \in Nat /\ 0 \in 0..Sent[i].index
    BY StreamFacts
  <2>2. AheadIn(x, None, IF Complete(Arrived(i, 0)) THEN 0 ELSE None, Arrived(i, 0), i)
    BY <1>1, <1>2, <1>6, <1>7, Zenon DEF Ahead
  <2>3. x = Sent[FirstOf(i)].from
    <3>1. x = Sent[i - (Sent[i].index - 0)].from
      BY <2>1, <2>2, AheadPlaced
    <3>2. i - (Sent[i].index - 0) = FirstOf(i)
      BY <1>2, <2>1 DEF FirstOf
    <3>3. QED BY <3>1, <3>2
  <2>4. FirstOf(i) \in Datagram /\ x \in Nat
    <3>1. FirstOf(i) \in Datagram
      BY <1>2, <1>4, <1>5, <2>1, StreamFacts DEF FirstOf
    <3>2. QED BY <2>3, <3>1, StreamFacts
  <2> SUFFICES ASSUME NEW f \in KartFrame, Sent[a].from <= f.first, f.first < x
               PROVE  /\ x <= f.upto =>
                           active' # NoFrame /\ active'.data[1] = f.first
                      /\ ~(f.upto < x /\ Sent[FirstOf(i)].from <= f.upto)
    BY DEF Reached
  <2>5. f.first \in Nat /\ f.upto \in Nat
    BY ConstantFacts DEF KartFrame
  <2>6. ~(f.upto < x /\ Sent[FirstOf(i)].from <= f.upto)
    BY <2>3, <2>4, <2>5
  <2>7. a < i
    <3> SUFFICES ASSUME a = i PROVE FALSE
      BY <1>2, <1>4
    <3>1. FirstOf(i) = i
      BY <1>2, <1>5, <2>1 DEF FirstOf
    <3>2. QED BY <2>3, <2>4, <2>5, <3>1
  <2>8. active' = active
    BY <1>5, <1>6, <2>7 DEF PlaceDatagram
  <2>9. Reached(a, x, Latest, active, frames, emitted)
    BY <1>1, <1>5, <1>7, <2>3, <2>7 DEF ReachedInv
  <2>10. QED BY <2>6, <2>8, <2>9 DEF Reached
<1>8. QED BY <1>1, <1>5, <1>6, <1>7

\* A packet of a clean row has no header and nothing the parser refuses.
LEMMA PacketClean ==
  ASSUME RowInv, AlignedInv, sourceIndex # None,
         NEW a \in streak.from..Latest, Clean(a, Latest)
  PROVE  ~Packet.l2 /\ \A e \in Foreign : ~(Packet.from <= e /\ e <= Packet.upto)
<1> DEFINE k == FirstOf(Latest) + sourceIndex
<1>1. /\ Latest \in Datagram /\ sourceIndex \in 0..Place /\ Place \in Nat
      /\ Packet = Sent[k] /\ Latest \in Nat
  BY PacketIs, StreamFacts DEF Place
<1>2. a <= FirstOf(Latest) /\ a \in Nat
  BY DEF AlignedInv, RowInv
<1>3. k \in a..Latest
  BY <1>1, <1>2 DEF FirstOf, Place
<1>4. QED BY <1>1, <1>3, Zenon DEF Clean

\* Clean rows stay aligned while the generation is taken, and when it is left.
LEMMA AlignedStays ==
  ASSUME RowInv, AlignedInv, UNCHANGED streak, under' = under \/
         (sourceIndex # None /\ under' = NoGeneration)
  PROVE  AlignedInv'
<1>1. Latest' = Latest /\ Place' = Place /\ streak'.from = streak.from
  BY DEF Latest, Place
<1>2. CASE under' = under
  BY <1>1, <1>2, Zenon DEF AlignedInv, Arrived, Clean, FirstOf
<1>3. CASE sourceIndex # None /\ under' = NoGeneration
  <2>1. Place + 1 = Sent[Latest].count
    BY <1>3, PacketIs
  <2>2. QED BY <1>1, <1>3, <2>1, Zenon DEF AlignedInv, Clean, FirstOf
<1>4. QED BY <1>2, <1>3

\* What a step that leaves the row of datagrams has to keep reached.
LEMMA ReachedStays ==
  ASSUME UNCHANGED streak,
         \A a \in streak.from..Latest : Clean(a, Latest) /\ running' /\ synchronized' =>
           \A y : Ahead(y)' => Reached(a, y, Latest, active', frames', emitted')
  PROVE  ReachedInv'
<1>1. Latest' = Latest /\ streak'.from = streak.from
  BY DEF Latest
<1>2. QED BY <1>1, Zenon DEF ReachedInv

\* A packet is opened.
LEMMA ReachedOpen ==
  ASSUME RowInv, AlignedInv, ReachedInv, synchronized \in BOOLEAN, OpenPacket
  PROVE  ReachedInv'
<1>1. /\ UNCHANGED <<streak, under, sourceIndex, active, frames, emitted, running>>
      /\ cursor = None /\ sourceIndex # None /\ cursor' = Packet.from
      /\ synchronized # Packet.l2
  BY Zenon DEF OpenPacket, Consuming, networkVars, receiverVars, outputVars
<1> SUFFICES ASSUME NEW a \in streak.from..Latest, Clean(a, Latest), running',
                    NEW y, Ahead(y)'
             PROVE  Reached(a, y, Latest, active', frames', emitted')
  BY <1>1, ReachedStays, Zenon
<1>2. cursor' # None
  BY <1>1, PacketIs, StreamFacts, ConstantFacts
<1>3. y = Packet.from
  BY <1>1, <1>2 DEF Ahead, AheadIn
<1>4. Ahead(y)
  BY <1>1, <1>3, AheadPacket
<1>5. Packet.l2 \in BOOLEAN
  BY <1>1, PacketIs, DatagramClass, Zenon
<1>6. ~Packet.l2
  BY <1>1, PacketClean
<1>7. synchronized
  BY <1>1, <1>5, <1>6, Zenon
<1>8. Reached(a, y, Latest, active, frames, emitted)
  BY <1>1, <1>4, <1>7, Zenon DEF ReachedInv
<1>9. QED BY <1>1, <1>8

\* In a clean row no packet is passed over, and nothing is refused.
LEMMA ReachedRefuse ==
  ASSUME RowInv, AlignedInv, PassPacket \/ RefusePacket \/ RefuseEntry
  PROVE  ReachedInv'
<1>1. UNCHANGED <<streak, synchronized>> /\ sourceIndex # None
  BY Zenon DEF PassPacket, RefusePacket, RefuseEntry, InPacket, Abandon, Consuming,
               networkVars, assemblerVars
<1> SUFFICES ASSUME NEW a \in streak.from..Latest, Clean(a, Latest), synchronized
             PROVE  FALSE
  BY <1>1, ReachedStays, Zenon
<1>2. /\ ~Packet.l2
      /\ \A e \in Foreign : ~(Packet.from <= e /\ e <= Packet.upto)
  BY <1>1, PacketClean, Zenon
<1>3. CASE PassPacket
  BY <1>2, <1>3, Zenon DEF PassPacket
<1>4. CASE RefusePacket
  BY <1>2, <1>4, Zenon DEF RefusePacket
<1>5. CASE RefuseEntry
  <2>1. cursor # None /\ cursor <= Packet.upto /\ cursor \in Foreign
    BY <1>5, Zenon DEF RefuseEntry, InPacket
  <2>2. Packet.from <= cursor
    BY <2>1, Zenon DEF RowInv
  <2>3. QED BY <1>2, <2>1, <2>2, Zenon
<1>6. QED BY <1>3, <1>4, <1>5, Zenon

\* What holds of the frames that begin before an entry is taken.
LEMMA ReachedBefore ==
  ASSUME ReachedInv, running, synchronized, cursor # None,
         NEW a \in streak.from..Latest, Clean(a, Latest),
         NEW f \in KartFrame, Sent[a].from <= f.first, f.first < cursor
  PROVE  /\ cursor <= f.upto => active # NoFrame /\ active.data[1] = f.first
         /\ /\ f.upto < cursor /\ Sent[FirstOf(Latest)].from <= f.upto
            /\ Announced[f.first] = f.upto + 1 - f.first
            => In(f, frames) \/ In(f, emitted)
<1>1. Ahead(cursor)
  BY AheadCursor
<1>2. Reached(a, cursor, Latest, active, frames, emitted)
  BY <1>1, Zenon DEF ReachedInv
<1>3. QED BY <1>2, Zenon DEF Reached

\* What an entry taken has to keep reached.
LEMMA ReachedTake ==
  ASSUME RowInv, cursor # None, cursor' = cursor + 1,
         UNCHANGED <<streak, synchronized, running, emitted>>,
         \A a \in streak.from..Latest : Clean(a, Latest) /\ running /\ synchronized =>
           \A f \in KartFrame : Sent[a].from <= f.first /\ f.first <= cursor =>
             /\ cursor < f.upto => active' # NoFrame /\ active'.data[1] = f.first
             /\ /\ f.upto <= cursor /\ Sent[FirstOf(Latest)].from <= f.upto
                /\ Announced[f.first] = f.upto + 1 - f.first
                => In(f, frames') \/ In(f, emitted)
  PROVE  ReachedInv'
<1>1. cursor \in Nat /\ cursor' \in Nat /\ cursor' # None
  BY ConstantFacts DEF RowInv
<1> SUFFICES ASSUME NEW a \in streak.from..Latest, Clean(a, Latest),
                    running, synchronized, NEW y, Ahead(y)'
             PROVE  Reached(a, y, Latest, active', frames', emitted)
  BY ReachedStays, Zenon
<1>2. y = cursor + 1
  BY <1>1 DEF Ahead, AheadIn
<1> SUFFICES ASSUME NEW f \in KartFrame, Sent[a].from <= f.first, f.first < y
             PROVE  /\ y <= f.upto => active' # NoFrame /\ active'.data[1] = f.first
                    /\ /\ f.upto < y /\ Sent[FirstOf(Latest)].from <= f.upto
                       /\ Announced[f.first] = f.upto + 1 - f.first
                       => In(f, frames') \/ In(f, emitted)
  BY Zenon DEF Reached
<1>3. f.first \in Nat /\ f.upto \in Nat
  BY ConstantFacts DEF KartFrame
<1>4. /\ f.first <= cursor /\ (y <= f.upto <=> cursor < f.upto)
      /\ (f.upto < y <=> f.upto <= cursor)
  BY <1>1, <1>2, <1>3
<1>5. QED BY <1>4, Zenon

\* What a frame of the kart is.
LEMMA FrameFacts ==
  ASSUME NEW f \in KartFrame
  PROVE  /\ f.first \in Header /\ f.upto \in Completing /\ f.first \notin Completing
         /\ f.first \in Nat /\ f.upto \in Nat /\ f.first < f.upto
         /\ \A c \in Completing : ~(f.first < c /\ c < f.upto)
<1>1. /\ f.first \in Header /\ f.upto \in Completing /\ f.first < f.upto
      /\ \A c \in Completing : ~(f.first < c /\ c < f.upto)
  BY DEF KartFrame
<1>2. QED BY <1>1, ConstantFacts

\* The entry after a header, or one that is passed over, keeps the frames reached.
LEMMA ReachedFirst ==
  ASSUME RowInv, ReachedInv, TakeFirst
  PROVE  ReachedInv'
<1>1. /\ cursor # None /\ cursor' = cursor + 1 /\ active = NoFrame
      /\ UNCHANGED <<streak, synchronized, running, emitted, frames>>
      /\ cursor \in Nat
  BY Zenon DEF TakeFirst, InPacket, networkVars, outputVars, RowInv
<1>2. active' = IF cursor \in Header THEN Begun(cursor, cursor + 1) ELSE NoFrame
  <2>1. (cursor + 1) - 1 = cursor
    BY <1>1
  <2>2. QED BY <1>1, <2>1, RunOfOne DEF Begun, TakeFirst
<1> SUFFICES ASSUME NEW a \in streak.from..Latest, Clean(a, Latest),
                    running, synchronized,
                    NEW f \in KartFrame, Sent[a].from <= f.first, f.first <= cursor
             PROVE  /\ cursor < f.upto => active' # NoFrame /\ active'.data[1] = f.first
                    /\ /\ f.upto <= cursor /\ Sent[FirstOf(Latest)].from <= f.upto
                       /\ Announced[f.first] = f.upto + 1 - f.first
                       => In(f, frames) \/ In(f, emitted)
  BY <1>1, ReachedTake, Zenon
<1>3. CASE f.first = cursor
  <2>1. f.first \in Header /\ f.first < f.upto /\ f.upto \in Nat
    BY FrameFacts
  <2>2. active' = Begun(f.first, f.first + 1)
    BY <1>2, <1>3, <2>1
  <2>3. f.first + 1 \in Nat /\ f.first < f.first + 1
    BY <1>1, <1>3
  <2>4. active' # NoFrame /\ active'.data[1] = f.first
    BY <2>1, <2>2, <2>3, BegunFacts
  <2>5. ~(f.upto <= cursor)
    BY <1>1, <1>3, <2>1
  <2>6. QED BY <2>4, <2>5
<1>4. CASE f.first < cursor
  <2>1. ~(cursor <= f.upto)
    BY <1>1, <1>4, ReachedBefore, Zenon
  <2>2. f.upto < cursor
    BY <1>1, <2>1, FrameFacts
  <2>3. ~(cursor < f.upto)
    BY <1>1, <2>2, FrameFacts
  <2>4. QED BY <1>1, <1>4, <2>2, <2>3, ReachedBefore, Zenon
<1>5. QED BY <1>1, <1>3, <1>4, FrameFacts

\* An entry of the frame under way does not begin another.
LEMMA NoFrameWithin ==
  ASSUME RowInv, ActiveInv, active # NoFrame, cursor # None, NEW f \in KartFrame
  PROVE  f.first # cursor
<1>1. PICK h \in Header :
        /\ h \in Nat /\ cursor \in Nat /\ h < cursor
        /\ \A c \in Completing : ~(h < c /\ c < cursor)
  BY ActiveIs
<1> SUFFICES ASSUME f.first = cursor PROVE FALSE
  OBVIOUS
<1>2. cursor \in Header
  BY FrameFacts
<1>3. PICK c \in Completing : h < c /\ c < cursor
  BY <1>1, <1>2, ConstantFacts, Zenon
<1>4. QED BY <1>1, <1>3

\* A body entry keeps the frames reached.
LEMMA ReachedBody ==
  ASSUME RowInv, ActiveInv, ReachedInv, TakeBody
  PROVE  ReachedInv'
<1>1. /\ cursor # None /\ cursor' = cursor + 1 /\ active # NoFrame
      /\ cursor \notin Completing
      /\ active' = [active EXCEPT !.data = Append(@, cursor)]
      /\ UNCHANGED <<streak, synchronized, running, emitted, frames>>
      /\ cursor \in Nat
  BY DEF TakeBody, InPacket, networkVars, outputVars, RowInv
<1>2. PICK h \in Header :
        h \in Nat /\ cursor \in Nat /\ h < cursor /\ active = Begun(h, cursor)
  BY <1>1, ActiveIs
<1>3. active' = Begun(h, cursor + 1)
  BY <1>1, <1>2, BegunGrows
<1>4. active' # NoFrame /\ active'.data[1] = active.data[1]
  <2>1. h < cursor + 1 /\ cursor + 1 \in Nat
    BY <1>2
  <2>2. active' # NoFrame /\ active'.data[1] = h
    BY <1>3, <2>1, BegunFacts
  <2>3. active.data[1] = h
    BY <1>2, BegunFacts
  <2>4. QED BY <2>2, <2>3
<1> SUFFICES ASSUME NEW a \in streak.from..Latest, Clean(a, Latest),
                    running, synchronized,
                    NEW f \in KartFrame, Sent[a].from <= f.first, f.first <= cursor
             PROVE  /\ cursor < f.upto => active' # NoFrame /\ active'.data[1] = f.first
                    /\ /\ f.upto <= cursor /\ Sent[FirstOf(Latest)].from <= f.upto
                       /\ Announced[f.first] = f.upto + 1 - f.first
                       => In(f, frames) \/ In(f, emitted)
  BY <1>1, ReachedTake, Zenon
<1>5. f.first < cursor /\ f.upto # cursor
  BY <1>1, NoFrameWithin, FrameFacts
<1>6. /\ cursor < f.upto => cursor <= f.upto
      /\ f.upto <= cursor => f.upto < cursor
  BY <1>1, <1>5, FrameFacts
<1>7. QED BY <1>1, <1>4, <1>5, <1>6, ReachedBefore, Zenon

\* What is appended is in a sequence, and what was there stays.
LEMMA InAppend ==
  ASSUME NEW s \in Seq(KartData), NEW d \in KartData, NEW f
  PROVE  /\ In(f, s) => In(f, Append(s, d))
         /\ d = Run(f.first, f.upto) => In(f, Append(s, d))
<1>1. /\ Len(s) \in Nat /\ DOMAIN s = 1..Len(s)
      /\ DOMAIN Append(s, d) = 1..(Len(s) + 1)
      /\ \A k \in 1..Len(s) : Append(s, d)[k] = s[k]
      /\ Append(s, d)[Len(s) + 1] = d
  BY AppendProperties, LenProperties
<1>2. 1..Len(s) \subseteq 1..(Len(s) + 1) /\ Len(s) + 1 \in 1..(Len(s) + 1)
  BY <1>1
<1>3. QED BY <1>1, <1>2, Zenon DEF In

\* What is in one of two sequences is in the two together.
LEMMA InConcat ==
  ASSUME NEW s \in Seq(KartData), NEW t \in Seq(KartData), NEW f, In(f, s) \/ In(f, t)
  PROVE  In(f, s \o t)
<1>1. /\ Len(s) \in Nat /\ DOMAIN s = 1..Len(s)
      /\ Len(t) \in Nat /\ DOMAIN t = 1..Len(t)
      /\ DOMAIN (s \o t) = 1..(Len(s) + Len(t))
      /\ \A k \in 1..(Len(s) + Len(t)) :
           (s \o t)[k] = IF k <= Len(s) THEN s[k] ELSE t[k - Len(s)]
  BY ConcatProperties, LenProperties
<1>2. CASE In(f, s)
  <2>1. PICK k \in 1..Len(s) : s[k] = Run(f.first, f.upto)
    BY <1>1, <1>2 DEF In
  <2>2. k \in 1..(Len(s) + Len(t)) /\ k <= Len(s)
    BY <1>1, <2>1
  <2>3. QED BY <1>1, <2>1, <2>2 DEF In
<1>3. CASE In(f, t)
  <2>1. PICK k \in 1..Len(t) : t[k] = Run(f.first, f.upto)
    BY <1>1, <1>3 DEF In
  <2>2. /\ Len(s) + k \in 1..(Len(s) + Len(t)) /\ ~(Len(s) + k <= Len(s))
        /\ (Len(s) + k) - Len(s) = k
    BY <1>1, <2>1
  <2>3. (s \o t)[Len(s) + k] = t[k]
    BY <1>1, <2>2
  <2>4. QED BY <1>1, <2>1, <2>2, <2>3 DEF In
<1>4. QED BY <1>2, <1>3

\* The frame that an entry completes.
LEMMA LastFrame ==
  ASSUME RowInv, ActiveInv, TakeLast
  PROVE  \E g \in KartFrame :
           /\ g.upto = cursor /\ cursor \in Nat /\ active.data[1] = g.first
           /\ frames' = IF g.upto + 1 - g.first = Announced[g.first]
                        THEN Append(frames, Run(g.first, g.upto)) ELSE frames
<1>1. /\ cursor # None /\ active # NoFrame /\ cursor \in Completing
      /\ LET data == Append(active.data, cursor)
         IN  frames' = IF Len(data) = active.total THEN Append(frames, data) ELSE frames
  BY DEF TakeLast, InPacket
<1>2. PICK h \in Header :
        /\ h \in Nat /\ cursor \in Nat /\ h < cursor /\ active = Begun(h, cursor)
        /\ \A c \in Completing : ~(h < c /\ c < cursor)
  BY <1>1, ActiveIs
<1> DEFINE g == [first |-> h, upto |-> cursor]
<1>3. g \in KartFrame /\ g.first = h /\ g.upto = cursor
  BY <1>1, <1>2 DEF KartFrame
<1>4. /\ Append(active.data, cursor) = Run(h, cursor)
      /\ Len(Run(h, cursor)) = cursor + 1 - h
      /\ active.total = Announced[h] /\ active.data[1] = h
  BY <1>2, BegunGrows, BegunFacts
<1>5. frames' = IF cursor + 1 - h = Announced[h]
                THEN Append(frames, Run(h, cursor)) ELSE frames
  BY <1>1, <1>4
<1> HIDE DEF g
<1>6. QED BY <1>2, <1>3, <1>4, <1>5

\* The entry that completes a frame keeps the frames reached.
LEMMA ReachedLast ==
  ASSUME RowInv, ActiveInv, ReachedInv, WrittenInv, TakeLast
  PROVE  ReachedInv'
<1>1. /\ cursor # None /\ cursor' = cursor + 1 /\ active # NoFrame
      /\ cursor \in Completing
      /\ UNCHANGED <<streak, synchronized, running, emitted>>
  BY DEF TakeLast, InPacket, networkVars, outputVars
<1>2. PICK g \in KartFrame :
        /\ g.upto = cursor /\ cursor \in Nat /\ active.data[1] = g.first
        /\ frames' = IF g.upto + 1 - g.first = Announced[g.first]
                     THEN Append(frames, Run(g.first, g.upto)) ELSE frames
  BY LastFrame
<1>3. frames \in Seq(KartData) /\ Run(g.first, g.upto) \in KartData
  BY DEF WrittenInv, KartData
<1> SUFFICES ASSUME NEW a \in streak.from..Latest, Clean(a, Latest),
                    running, synchronized,
                    NEW f \in KartFrame, Sent[a].from <= f.first, f.first <= cursor
             PROVE  /\ ~(cursor < f.upto)
                    /\ /\ f.upto <= cursor /\ Sent[FirstOf(Latest)].from <= f.upto
                       /\ Announced[f.first] = f.upto + 1 - f.first
                       => In(f, frames') \/ In(f, emitted)
  BY <1>1, ReachedTake, Zenon
<1>4. f.first < cursor
  BY <1>1, <1>2, FrameFacts
<1>5. ~(cursor < f.upto)
  BY <1>1, <1>4, FrameFacts, Zenon
<1>6. CASE f.upto = cursor
  <2>1. cursor <= f.upto
    BY <1>2, <1>6
  <2>2. f.first = g.first
    BY <1>1, <1>2, <1>4, <2>1, ReachedBefore, Zenon
  <2>3. ASSUME Announced[f.first] = f.upto + 1 - f.first
        PROVE  In(f, frames')
    <3>1. /\ frames' = Append(frames, Run(g.first, g.upto))
          /\ Run(g.first, g.upto) = Run(f.first, f.upto)
      BY <1>2, <1>6, <2>2, <2>3
    <3>2. QED BY <1>3, <3>1, InAppend, Zenon
  <2>4. QED BY <1>5, <2>3
<1>7. CASE f.upto < cursor
  <2>1. In(f, frames) => In(f, frames')
    BY <1>2, <1>3, InAppend, Zenon
  <2>2. QED BY <1>1, <1>4, <1>5, <1>7, <2>1, ReachedBefore, Zenon
<1>8. f.upto = cursor \/ f.upto < cursor
  BY <1>2, <1>5, FrameFacts
<1>9. QED BY <1>6, <1>7, <1>8

\* Writing the frames of a packet keeps them reached.
LEMMA ReachedWrite ==
  ASSUME RowInv, ReachedInv, WrittenInv, WritePacket
  PROVE  ReachedInv'
<1>1. /\ sourceIndex # None /\ cursor # None /\ cursor > Packet.upto
      /\ UNCHANGED <<streak, active, synchronized, running>>
      /\ emitted' = emitted \o frames
      /\ cursor' = None /\ NextPacket
  BY DEF WritePacket, EndOfPacket, Consuming, networkVars
<1>2. cursor = Packet.upto + 1
  <2>1. PICK k \in Datagram : Packet = Sent[k]
    BY <1>1, PacketIs
  <2>2. Packet.upto \in Nat /\ cursor \in Nat /\ cursor <= Packet.upto + 1
    BY <1>1, <2>1, StreamFacts DEF RowInv
  <2>3. QED BY <1>1, <2>2
<1> SUFFICES ASSUME NEW a \in streak.from..Latest, Clean(a, Latest),
                    running, synchronized, NEW y, Ahead(y)'
             PROVE  Reached(a, y, Latest, active, frames', emitted')
  BY <1>1, ReachedStays, Zenon
<1>3. Ahead(y)
  BY <1>1, <1>2, AheadCursor, NextAhead
<1>4. Reached(a, y, Latest, active, frames, emitted)
  BY <1>3, Zenon DEF ReachedInv
<1>5. \A f : In(f, frames) \/ In(f, emitted) => In(f, emitted')
  BY <1>1, InConcat, Zenon DEF WrittenInv
<1>6. QED BY <1>4, <1>5, Zenon DEF Reached

-----------------------------------------------------------------------------
(* LspVideo: every action, put together from the lemmas.                   *)

\* The inductive invariant: the row, the frame under way, what is written, and
\* what a clean row has reached.
LspInv ==
  /\ synchronized \in BOOLEAN
  /\ RowInv /\ ActiveInv /\ WrittenInv /\ AlignedInv /\ ReachedInv

\* Nothing has come yet.
LEMMA LspStarts == LspInit => LspInv
<1> SUFFICES ASSUME LspInit PROVE LspInv
  OBVIOUS
<1>1. RowInv
  BY RowInit
<1>2. synchronized \in BOOLEAN /\ ActiveInv /\ ReachedInv
  BY DEF LspInit, ActiveInv, Continues, ReachedInv
<1>3. WrittenInv
  BY EmptySeq DEF LspInit, WrittenInv
<1>4. AlignedInv
  <2>1. streak.from..Latest = {}
    BY DEF LspInit, Latest
  <2>2. QED BY <2>1 DEF AlignedInv
<1>5. QED BY <1>1, <1>2, <1>3, <1>4 DEF LspInv

\* A step that changes nothing of these keeps the invariant.
LEMMA LspStutter ==
  ASSUME LspInv,
         UNCHANGED <<streak, receiverVars, assemblerVars, emitted>>,
         running' => running
  PROVE  LspInv'
<1>1. /\ UNCHANGED <<streak, previous, under, sourceIndex, synchronized, active,
                     cursor, frames, emitted>>
  BY DEF receiverVars, assemblerVars
<1>2. Packet' = Packet /\ Latest' = Latest /\ Place' = Place
  BY <1>1 DEF Packet, Latest, Place
<1>3. RowInv'
  BY <1>1, <1>2, Zenon DEF LspInv, RowInv, Arrived, Complete
<1>4. ActiveInv' /\ WrittenInv' /\ (synchronized \in BOOLEAN)'
  BY <1>1, <1>2, Zenon DEF LspInv, ActiveInv, Continues, WrittenInv, Ahead, AheadIn, Begun, Arrived
<1>5. AlignedInv'
  BY <1>1, AlignedStays, Zenon DEF LspInv
<1>6. ReachedInv'
  <2> SUFFICES ASSUME running', synchronized', NEW a \in (streak.from..Latest)',
                      Clean(a, Latest'), NEW x, Ahead(x)'
               PROVE  Reached(a, x, Latest', active', frames', emitted')
    BY Zenon DEF ReachedInv
  <2>1. Ahead(x)
    BY <1>1, <1>2, Zenon DEF Ahead, AheadIn, Arrived
  <2>2. running /\ synchronized /\ a \in streak.from..Latest /\ Clean(a, Latest)
    BY <1>1, <1>2, Zenon
  <2>3. Reached(a, x, Latest, active, frames, emitted)
    BY <2>1, <2>2, Zenon DEF LspInv, ReachedInv
  <2>4. QED BY <1>1, <1>2, <2>3, Zenon
<1>7. QED BY <1>3, <1>4, <1>5, <1>6, Zenon DEF LspInv

\* A datagram.
LEMMA LspHear ==
  ASSUME OneRound, LspInv, NEW i \in Datagram,
         RefuseDatagram(i) \/ PlaceDatagram(i)
  PROVE  LspInv'
<1>1. /\ emitted' = << >> /\ frames' = frames /\ synchronized' = synchronized
  BY Zenon DEF RefuseDatagram, PlaceDatagram, Hear
<1>2. WrittenInv' /\ (synchronized \in BOOLEAN)'
  BY <1>1, EmptySeq DEF LspInv, WrittenInv
<1>3. QED BY <1>2, RowHear, ActiveHear, CleanHear, Zenon DEF LspInv

\* A datagram that does not parse.
LEMMA LspMalformed ==
  ASSUME LspInv, ReceiveMalformed
  PROVE  LspInv'
<1>1. /\ previous' = previous /\ under' = NoGeneration /\ sourceIndex' = None
      /\ synchronized' = FALSE /\ active' = NoFrame /\ emitted' = << >>
      /\ cursor = None /\ cursor' = None /\ frames' = << >>
      /\ streak' = [streak EXCEPT !.from = streak.upto + 1]
  BY DEF ReceiveMalformed, Waiting, LspInv, RowInv
<1>2. streak \in [from : Nat, upto : Nat] /\ Latest <= Len(Sent)
  BY DEF LspInv, RowInv
<1>3. /\ Latest' = Latest /\ streak'.from = Latest + 1 /\ Latest \in Nat
      /\ streak' \in [from : Nat, upto : Nat] /\ 1 <= streak'.from
  BY <1>1, <1>2 DEF Latest
<1>4. RowInv'
  BY <1>1, <1>2, <1>3 DEF LspInv, RowInv
<1>5. streak'.from..Latest' = {}
  BY <1>3
<1>6. AlignedInv' /\ ReachedInv' /\ ActiveInv' /\ (synchronized \in BOOLEAN)'
  BY <1>1, <1>5, Zenon DEF AlignedInv, ReachedInv, ActiveInv, Continues
<1>7. WrittenInv'
  BY <1>1, EmptySeq DEF WrittenInv
<1>8. QED BY <1>4, <1>6, <1>7 DEF LspInv

\* A packet is opened.
LEMMA LspOpen ==
  ASSUME LspInv, SyncInv, OpenPacket
  PROVE  LspInv'
<1>1. /\ UNCHANGED <<streak, previous, under, sourceIndex, frames, emitted>>
      /\ cursor = None /\ sourceIndex # None /\ cursor' = Packet.from
      /\ synchronized' = TRUE
  BY Zenon DEF OpenPacket, Consuming, networkVars, receiverVars, outputVars
<1>2. PICK k \in Datagram : Packet = Sent[k]
  BY <1>1, PacketIs DEF LspInv
<1>3. cursor' \in Nat /\ cursor' <= Packet.upto + 1 /\ Packet.from <= cursor'
      /\ cursor' # None
  BY <1>1, <1>2, StreamFacts, ConstantFacts
<1>4. RowInv'
  BY <1>1, <1>3, RowWithin, Zenon DEF LspInv
<1>5. WrittenInv' /\ (synchronized \in BOOLEAN)'
  BY <1>1, Zenon DEF LspInv, WrittenInv
<1>6. QED BY <1>1, <1>4, <1>5, ActiveOpen, AlignedStays, ReachedOpen, Zenon DEF LspInv

\* A packet is passed over.
LEMMA LspPass ==
  ASSUME LspInv, PassPacket
  PROVE  LspInv'
<1>1. /\ UNCHANGED <<streak, previous, synchronized, active, cursor, frames, emitted>>
      /\ cursor = None /\ sourceIndex # None /\ frames = << >>
      /\ NextPacket /\ Packet.l2
  BY Zenon DEF PassPacket, Consuming, networkVars, assemblerVars, outputVars,
               LspInv, RowInv
<1>2. RowInv'
  BY <1>1, RowNext, Zenon DEF LspInv
<1>3. active' = NoFrame \/ (Headed /\ cursor' = None)
  BY <1>1, NoFrameBeforeL2, Zenon DEF LspInv
<1>4. WrittenInv' /\ ActiveInv' /\ (synchronized \in BOOLEAN)'
  BY <1>1, <1>3, Zenon DEF LspInv, WrittenInv, ActiveInv, Continues
<1>5. AlignedInv'
  BY <1>1, AlignedStays, Zenon DEF LspInv, NextPacket
<1>6. QED BY <1>2, <1>4, <1>5, ReachedRefuse, Zenon DEF LspInv

\* A packet, or an entry, is refused.
LEMMA LspRefuse ==
  ASSUME LspInv, RefusePacket \/ RefuseEntry
  PROVE  LspInv'
<1>1. sourceIndex # None /\ Abandon
  BY Zenon DEF RefusePacket, RefuseEntry, InPacket, Consuming
<1>2. /\ UNCHANGED <<streak, previous, synchronized, emitted>>
      /\ under' = NoGeneration /\ sourceIndex' = None
      /\ active' = NoFrame /\ cursor' = None /\ frames' = << >>
  BY <1>1, Zenon DEF Abandon, networkVars, outputVars
<1>3. RowInv'
  BY <1>2, RowLeave, Zenon DEF LspInv
<1>4. WrittenInv' /\ ActiveInv' /\ (synchronized \in BOOLEAN)'
  BY <1>2, EmptySeq DEF LspInv, WrittenInv, ActiveInv, Continues
<1>5. AlignedInv'
  BY <1>1, <1>2, AlignedStays, Zenon DEF LspInv
<1>6. QED BY <1>3, <1>4, <1>5, ReachedRefuse, Zenon DEF LspInv

\* An entry is taken.
LEMMA LspTake ==
  ASSUME LspInv, TakeFirst \/ TakeBody \/ TakeLast
  PROVE  LspInv'
<1>1. /\ UNCHANGED <<streak, previous, under, sourceIndex, synchronized, emitted>>
      /\ sourceIndex # None /\ cursor # None /\ cursor <= Packet.upto
      /\ cursor' = cursor + 1
  BY Zenon DEF TakeFirst, TakeBody, TakeLast, InPacket, Consuming, networkVars,
               receiverVars, outputVars
<1>2. PICK k \in Datagram : Packet = Sent[k]
  BY <1>1, PacketIs DEF LspInv
<1>3. Packet.upto \in Nat /\ Packet.from \in Nat /\ cursor \in Nat /\ Packet.from <= cursor
  BY <1>1, <1>2, StreamFacts DEF LspInv, RowInv
<1>4. cursor' \in Nat /\ cursor' <= Packet.upto + 1 /\ Packet.from <= cursor'
      /\ cursor' # None
  BY <1>1, <1>3, ConstantFacts
<1>5. RowInv'
  BY <1>1, <1>4, RowWithin, Zenon DEF LspInv
<1>6. AlignedInv' /\ (synchronized \in BOOLEAN)' /\ (emitted \in Seq(KartData))'
  BY <1>1, AlignedStays, Zenon DEF LspInv, WrittenInv
<1>7. CASE TakeFirst
  <2>1. frames' = frames
    BY <1>7, Zenon DEF TakeFirst
  <2>2. QED BY <1>5, <1>6, <1>7, <2>1, ActiveFirst, ReachedFirst, Zenon
            DEF LspInv, WrittenInv
<1>8. CASE TakeBody
  <2>1. frames' = frames
    BY <1>8, Zenon DEF TakeBody
  <2>2. QED BY <1>5, <1>6, <1>8, <2>1, ActiveBody, ReachedBody, Zenon
            DEF LspInv, WrittenInv
<1>9. CASE TakeLast
  <2>1. PICK g \in KartFrame :
          frames' = frames \/ frames' = Append(frames, Run(g.first, g.upto))
    BY <1>9, LastFrame DEF LspInv
  <2>2. Run(g.first, g.upto) \in KartData
    BY DEF KartData
  <2>3. (frames \in Seq(KartData))'
    BY <2>1, <2>2, AppendProperties DEF LspInv, WrittenInv
  <2>4. active' = NoFrame
    BY <1>9, Zenon DEF TakeLast
  <2>5. QED BY <1>5, <1>6, <1>9, <2>3, <2>4, ReachedLast, Zenon
            DEF LspInv, WrittenInv, ActiveInv, Continues
<1>10. QED BY <1>7, <1>8, <1>9

\* The frames of a packet are written.
LEMMA LspWrite ==
  ASSUME LspInv, WritePacket
  PROVE  LspInv'
<1>1. /\ UNCHANGED <<streak, previous, synchronized>>
      /\ sourceIndex # None /\ cursor' = None /\ frames' = << >> /\ NextPacket
      /\ emitted' = emitted \o frames
  BY Zenon DEF WritePacket, EndOfPacket, Consuming, networkVars
<1>2. RowInv'
  BY <1>1, RowNext, Zenon DEF LspInv
<1>3. WrittenInv' /\ (synchronized \in BOOLEAN)'
  BY <1>1, ConcatProperties, EmptySeq DEF LspInv, WrittenInv
<1>4. AlignedInv'
  BY <1>1, AlignedStays, Zenon DEF LspInv, NextPacket
<1>5. QED BY <1>2, <1>3, <1>4, ActiveWrite, ReachedWrite, Zenon DEF LspInv

\* A write fails.
LEMMA LspFail ==
  ASSUME LspInv, FailWrite
  PROVE  LspInv'
<1>1. /\ UNCHANGED <<streak, previous, under, sourceIndex, synchronized, active,
                     cursor, frames>>
      /\ running' = FALSE
  BY Zenon DEF FailWrite, networkVars, receiverVars, assemblerVars
<1>2. PICK k \in 0..(Len(frames) - 1) : emitted' = emitted \o SubSeq(frames, 1, k)
  BY DEF FailWrite
<1>3. emitted' \in Seq(KartData)
  <2>1. frames \in Seq(KartData) /\ emitted \in Seq(KartData) /\ Len(frames) \in Nat
    BY LenProperties DEF LspInv, WrittenInv
  <2>2. \A m \in 1..k : frames[m] \in KartData
    <3>1. \A m \in 1..k : m \in 1..Len(frames)
      BY <2>1
    <3>2. QED BY <2>1, <3>1, ElementOfSeq
  <2>3. SubSeq(frames, 1, k) \in Seq(KartData)
    BY <2>2, SubSeqProperties
  <2>4. QED BY <1>2, <2>1, <2>3, ConcatProperties
<1>4. Packet' = Packet /\ Latest' = Latest /\ Place' = Place
  BY <1>1 DEF Packet, Latest, Place
<1>5. RowInv'
  BY <1>1, <1>4, Zenon DEF LspInv, RowInv, Arrived, Complete
<1>6. ActiveInv' /\ (synchronized \in BOOLEAN)' /\ WrittenInv'
  BY <1>1, <1>3, <1>4, Zenon
     DEF LspInv, ActiveInv, Continues, WrittenInv, Ahead, AheadIn, Begun, Arrived
<1>7. AlignedInv'
  BY <1>1, AlignedStays, Zenon DEF LspInv
<1>8. ReachedInv'
  BY <1>1, Zenon DEF ReachedInv
<1>9. QED BY <1>5, <1>6, <1>7, <1>8, Zenon DEF LspInv

\* Every step keeps the assembler idle until it is synchronized.
LEMMA SyncSteps ==
  ASSUME RowInv, SyncInv, [LspNext]_lspVars
  PROVE  SyncInv'
<1>1. CASE \E i \in Datagram : RefuseDatagram(i) \/ PlaceDatagram(i)
  <2>1. /\ synchronized' = synchronized /\ cursor' = cursor
        /\ active' = active \/ active' = NoFrame
    BY <1>1, Zenon DEF RefuseDatagram, PlaceDatagram, Hear
  <2>2. QED BY <2>1, Zenon DEF SyncInv
<1>2. CASE ReceiveMalformed
  <2>1. active' = NoFrame /\ cursor' = cursor /\ cursor = None
    BY <1>2, Zenon DEF ReceiveMalformed, Waiting, RowInv
  <2>2. QED BY <2>1, Zenon DEF SyncInv
<1>3. CASE OpenPacket
  BY <1>3, Zenon DEF OpenPacket, SyncInv
<1>4. CASE PassPacket \/ FailWrite \/ CloseMedia \/ Return \/ UNCHANGED lspVars
  <2>1. UNCHANGED assemblerVars
    BY <1>4, Zenon DEF PassPacket, FailWrite, CloseMedia, Return, lspVars
  <2>2. QED BY <2>1, Zenon DEF SyncInv, assemblerVars
<1>5. CASE RefusePacket \/ RefuseEntry
  BY <1>5, Zenon DEF RefusePacket, RefuseEntry, Abandon, SyncInv
<1>6. CASE TakeFirst \/ TakeBody \/ TakeLast
  <2>1. synchronized' = synchronized /\ cursor # None
    BY <1>6, Zenon DEF TakeFirst, TakeBody, TakeLast, InPacket
  <2>2. QED BY <2>1, Zenon DEF SyncInv
<1>7. CASE WritePacket
  <2>1. synchronized' = synchronized /\ active' = active /\ cursor' = None
    BY <1>7, Zenon DEF WritePacket
  <2>2. QED BY <2>1, Zenon DEF SyncInv
<1>8. QED BY <1>1, <1>2, <1>3, <1>4, <1>5, <1>6, <1>7, Zenon DEF LspNext

\* With fewer datagrams than sequence numbers, every step keeps the invariant.
LEMMA LspSteps ==
  ASSUME OneRound, LspInv, SyncInv, [LspNext]_lspVars
  PROVE  LspInv'
<1>1. CASE \E i \in Datagram : RefuseDatagram(i) \/ PlaceDatagram(i)
  BY <1>1, LspHear
<1>2. CASE ReceiveMalformed
  BY <1>2, LspMalformed
<1>3. CASE OpenPacket
  BY <1>3, LspOpen
<1>4. CASE PassPacket
  BY <1>4, LspPass
<1>5. CASE RefusePacket \/ RefuseEntry
  BY <1>5, LspRefuse
<1>6. CASE TakeFirst \/ TakeBody \/ TakeLast
  BY <1>6, LspTake
<1>7. CASE WritePacket
  BY <1>7, LspWrite
<1>8. CASE FailWrite
  BY <1>8, LspFail
<1>9. CASE CloseMedia
  <2>1. UNCHANGED <<streak, receiverVars, assemblerVars, emitted, running>>
    BY <1>9 DEF CloseMedia, networkVars
  <2>2. UNCHANGED <<streak, receiverVars, assemblerVars, emitted>> /\ running' = running
    BY <2>1
  <2>3. QED BY <2>2, LspStutter, Zenon
<1>10. CASE Return
  <2>1. UNCHANGED <<streak, receiverVars, assemblerVars, emitted>> /\ running' = FALSE
    BY <1>10 DEF Return, networkVars
  <2>2. ~running'
    BY <2>1
  <2>3. QED BY <2>1, <2>2, LspStutter, Zenon
<1>11. CASE UNCHANGED lspVars
  BY <1>11, LspStutter, Zenon DEF lspVars, networkVars, outputVars
<1>12. QED BY <1>1, <1>2, <1>3, <1>4, <1>5, <1>6, <1>7, <1>8, <1>9, <1>10, <1>11, Zenon
           DEF LspNext

\* The invariant gives the two properties.
LEMMA LspImplies == LspInv => WholeFrames /\ CleanRunDelivered
<1> SUFFICES ASSUME LspInv PROVE WholeFrames /\ CleanRunDelivered
  OBVIOUS
<1>1. WholeFrames
  <2>1. DOMAIN emitted = 1..Len(emitted) /\ \A k \in 1..Len(emitted) : emitted[k] \in KartData
    BY LenProperties, ElementOfSeq DEF LspInv, WrittenInv
  <2>2. QED BY <2>1 DEF WholeFrames, KartData
<1>2. CleanRunDelivered
  <2> SUFFICES ASSUME running, synchronized, sourceIndex = None,
                      NEW a \in streak.from..Latest, NEW f \in KartFrame,
                      Clean(a, Latest), Sent[Latest].index + 1 = Sent[Latest].count,
                      Sent[a].from <= f.first,
                      Announced[f.first] = f.upto + 1 - f.first,
                      Sent[FirstOf(Latest)].from <= f.upto, f.upto <= Sent[Latest].upto
               PROVE  In(f, emitted)
    BY Zenon DEF CleanRunDelivered, In, Latest
  <2>1. RowInv /\ AlignedInv /\ ReachedInv
    BY DEF LspInv
  <2>2. Latest \in Datagram /\ Latest # 0 /\ cursor = None /\ frames = << >>
    BY <2>1, StreamFacts DEF RowInv, Latest
  <2>3. 0 \in 0..Sent[Latest].index
    BY <2>2, StreamFacts
  <2>4. under = NoGeneration
    <3>1. under = Arrived(Latest, 0) => Complete(under)
      BY <2>2, <2>3, ArrivedFacts
    <3>2. QED BY <2>1, <3>1, Zenon DEF AlignedInv, RowInv
  <2> DEFINE x == Sent[Latest].upto + 1
  <2>5. Ahead(x)
    BY <2>2, <2>4 DEF Ahead, AheadIn
  <2>6. Reached(a, x, Latest, active, frames, emitted)
    BY <2>1, <2>5, Zenon DEF ReachedInv
  <2>7. f.first < x /\ f.upto < x
    BY <2>2, StreamFacts, FrameFacts
  <2>8. In(f, frames) \/ In(f, emitted)
    BY <2>6, <2>7, Zenon DEF Reached
  <2>9. ~In(f, frames)
    BY <2>2 DEF In
  <2>10. QED BY <2>8, <2>9
<1>3. QED BY <1>1, <1>2

\* What goes to the transcoder is whole frames of the kart, for any stream with
\* fewer datagrams, parity counted, than there are sequence numbers, any loss,
\* repetition and reordering (serveLSPVideo, consumeMediaEntries).
THEOREM FramesAreWhole ==
  ASSUME OneRound
  PROVE  LspSpec => []WholeFrames
<1>1. LspInit => LspInv /\ SyncInv
  BY LspStarts DEF LspInit, SyncInv
<1>2. LspInv /\ SyncInv /\ [LspNext]_lspVars => LspInv' /\ SyncInv'
  BY LspSteps, SyncSteps DEF LspInv
<1>3. LspInv => WholeFrames
  BY LspImplies
<1>4. QED BY <1>1, <1>2, <1>3, PTL DEF LspSpec

\* Whole generations that come to a synchronized assembler in an unbroken row of
\* sequence numbers, with no parity datagram between them, deliver every frame that
\* ends in the last of them, for the same streams (serveLSPVideo's checks drop
\* nothing of such a row).
THEOREM CleanRunsAreDelivered ==
  ASSUME OneRound
  PROVE  LspSpec => []CleanRunDelivered
<1>1. LspInit => LspInv /\ SyncInv
  BY LspStarts DEF LspInit, SyncInv
<1>2. LspInv /\ SyncInv /\ [LspNext]_lspVars => LspInv' /\ SyncInv'
  BY LspSteps, SyncSteps DEF LspInv
<1>3. LspInv => CleanRunDelivered
  BY LspImplies
<1>4. QED BY <1>1, <1>2, <1>3, PTL DEF LspSpec

=============================================================================
