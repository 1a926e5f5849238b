----------------------------- MODULE Handshake -----------------------------
(***************************************************************************)
(* The handshake server: one accept loop of the daemon with its limited    *)
(* number of slots, and for each connection it takes on a goroutine in     *)
(* Server.Serve with a HandshakeService (internal/rcd/rcd.go).             *)
(*                                                                         *)
(* A peer may pipeline requests, in any order, right and wrong ones; read  *)
(* its answers late; end the connection; or say nothing.  A request and an *)
(* answer are their command and what the handshake tells apart: whether    *)
(* the payload is well formed, how many protocol versions it offers (the   *)
(* only length that varies), whether the pairing id is the expected one,   *)
(* and, for a digest, which answers its sender had read.                   *)
(***************************************************************************)
EXTENDS Integers, Sequences, FiniteSets

CONSTANTS
  Conn,       \* connections, each used once
  MaxConns,   \* maxHandshakeConns: the slots of an accept loop
  Says,       \* the requests the peer of each connection may send
  MaxAsked    \* bound: requests a peer has sent without reading the answer

Command == 0..4        \* 0 stands for an unroutable message or command
Request == [cmd : Command, sound : BOOLEAN, offers : 1..255,
            known : BOOLEAN, knew : SUBSET Command]

ASSUME HandshakeAssumption ==
  /\ IsFiniteSet(Conn)
  /\ MaxConns \in Nat \ {0}
  /\ Says \in [Conn -> SUBSET Request]
  /\ MaxAsked \in Nat

VARIABLES
  pairing,     \* the mode of the accept loop
  loop,        \* the accept loop: "accepting", "draining", "ended"
  listening,   \* its listener is open
  cancelled,   \* the base context is cancelled
  used,        \* slots taken
  serve,       \* the goroutine of each connection
  shut,        \* connections closed by the daemon
  timed,       \* connections whose last read has a deadline
  ended,       \* peers that closed, or sent what is not a message
  requests,    \* sent and not yet read by the daemon
  reply,       \* the answer about to be written
  answers,     \* written and not yet read by the peer
  asked,       \* commands of the requests whose answer the peer awaits
  read,        \* commands whose success the peer has read
  next,        \* nextCmd, with done when it is back at 0
  transcript,  \* the requests that succeeded
  bytes,       \* the length of what was appended to the transcript
  handler,     \* the DeviceConnected goroutine
  left         \* connections with a DeviceDisconnected call

peerVars == <<ended, requests, answers, asked, read>>
loopVars == <<pairing, loop, listening, cancelled, used>>
stepVars == <<next, transcript, bytes, handler>>
vars == <<loopVars, serve, shut, timed, peerVars, reply, stepVars, left>>

InServe == {"top", "reading", "writing"}
Serving == InServe \cup {"returning", "releasing"}
Answer  == [cmd : Command, ok : BOOLEAN]
NoReply == [cmd |-> 0, ok |-> FALSE]

\* HandshakeService.done: finalize sets it where it sets nextCmd to 0.
done(c) == next[c] = 0

TypeOK ==
  /\ pairing \in BOOLEAN /\ listening \in BOOLEAN /\ cancelled \in BOOLEAN
  /\ loop \in {"accepting", "draining", "ended"}
  /\ used \in 0..MaxConns
  /\ serve \in [Conn -> Serving \cup {"new", "gone"}]
  /\ shut \in SUBSET Conn /\ timed \in SUBSET Conn
  /\ ended \in SUBSET Conn /\ left \in SUBSET Conn
  /\ requests \in [Conn -> Seq(Request)]
  /\ reply \in [Conn -> Answer]
  /\ answers \in [Conn -> Seq(Answer)]
  /\ asked \in [Conn -> Seq(Command)]
  /\ read \in [Conn -> SUBSET Command]
  /\ next \in [Conn -> Command]
  /\ transcript \in [Conn -> Seq(Request)]
  /\ bytes \in [Conn -> Nat]
  /\ handler \in [Conn -> {"none", "spawned", "done"}]

Init ==
  /\ pairing \in BOOLEAN
  /\ loop = "accepting" /\ listening = TRUE /\ cancelled = FALSE
  /\ used = 0
  /\ serve = [c \in Conn |-> "new"]
  /\ shut = {} /\ timed = {} /\ ended = {} /\ left = {}
  /\ requests = [c \in Conn |-> <<>>]
  /\ reply = [c \in Conn |-> NoReply]
  /\ answers = [c \in Conn |-> <<>>]
  /\ asked = [c \in Conn |-> <<>>]
  /\ read = [c \in Conn |-> {}]
  /\ next = [c \in Conn |-> 1]
  /\ transcript = [c \in Conn |-> <<>>]
  /\ bytes = [c \in Conn |-> 0]
  /\ handler = [c \in Conn |-> "none"]

-----------------------------------------------------------------------------
(* The accept loop.                                                        *)

Accept(c) ==
  /\ loop = "accepting" /\ listening /\ serve[c] = "new"
  /\ used < MaxConns
  /\ used' = used + 1
  /\ serve' = [serve EXCEPT ![c] = "top"]
  /\ UNCHANGED <<pairing, loop, listening, cancelled, shut, timed, peerVars,
                 reply, stepVars, left>>

Drop(c) ==
  /\ loop = "accepting" /\ listening /\ serve[c] = "new"
  /\ used = MaxConns
  /\ serve' = [serve EXCEPT ![c] = "gone"]
  /\ shut' = shut \cup {c}
  /\ UNCHANGED <<loopVars, timed, peerVars, reply, stepVars, left>>

\* The manager closes the listener, when the mode changes or at the end; in
\* the latter case it then cancels the base context.
CloseListener ==
  /\ listening
  /\ listening' = FALSE
  /\ UNCHANGED <<pairing, loop, cancelled, used, serve, shut, timed, peerVars,
                 reply, stepVars, left>>

Cancel ==
  /\ ~listening /\ ~cancelled
  /\ cancelled' = TRUE
  /\ UNCHANGED <<pairing, loop, listening, used, serve, shut, timed, peerVars,
                 reply, stepVars, left>>

StopAccepting ==
  /\ loop = "accepting" /\ ~listening
  /\ loop' = "draining"
  /\ UNCHANGED <<pairing, listening, cancelled, used, serve, shut, timed,
                 peerVars, reply, stepVars, left>>

\* The deferred wg.Wait.
EndLoop ==
  /\ loop = "draining"
  /\ \A c \in Conn : serve[c] \notin Serving
  /\ loop' = "ended"
  /\ UNCHANGED <<pairing, listening, cancelled, used, serve, shut, timed,
                 peerVars, reply, stepVars, left>>

-----------------------------------------------------------------------------
(* The peer.  What it does when Serve has returned concerns nobody.        *)

Ask(c) ==
  /\ serve[c] \in InServe /\ c \notin ended
  /\ Len(asked[c]) < MaxAsked
  /\ \E r \in Says[c] :
       /\ requests' = [requests EXCEPT
                        ![c] = Append(@,
             [r EXCEPT !.knew = IF r.cmd = 4 THEN read[c] ELSE {}])]
       /\ asked' = [asked EXCEPT ![c] = Append(@, r.cmd)]
  /\ UNCHANGED <<loopVars, serve, shut, timed, ended, answers, read, reply,
                 stepVars, left>>

ReadAnswer(c) ==
  /\ serve[c] \in InServe /\ answers[c] # <<>>
  /\ answers' = [answers EXCEPT ![c] = Tail(@)]
  /\ asked' = [asked EXCEPT ![c] = Tail(@)]
  /\ read' = [read EXCEPT ![c] = IF Head(answers[c]).ok
                                   THEN @ \cup {Head(answers[c]).cmd} ELSE @]
  /\ UNCHANGED <<loopVars, serve, shut, timed, ended, requests, reply,
                 stepVars, left>>

EndPeer(c) ==
  /\ serve[c] \in InServe /\ c \notin ended
  /\ ended' = ended \cup {c}
  /\ UNCHANGED <<loopVars, serve, shut, timed, requests, answers, asked, read,
                 reply, stepVars, left>>

-----------------------------------------------------------------------------
(* The transcript.  Its hash has taken in whole blocks only: FlushedDigest *)
(* leaves out the bytes still in the buffer.  A peer computes the same     *)
(* digest only if it has read every answer that has unpredictable bytes in *)
(* those blocks: the nonce, the last 0x20 bytes of the first exchange, and *)
(* the secret key, the last 0x40 of the third.                             *)

Block == 64

\* The bytes of a request and its answer.
Length(r) == IF r.cmd = 1 THEN 160
             ELSE IF r.cmd = 2 THEN 81 + r.offers
             ELSE IF r.cmd = 3 THEN 96
             ELSE 64

Flushed(n) == n - (n % Block)

\* Where they begin; finalize comes right after the third exchange.
NonceAt  == 128
KeyAt(c) == bytes[c] - 64

Secrets(c) == (IF NonceAt < Flushed(bytes[c]) THEN {1} ELSE {})
                \cup (IF /\ \E i \in DOMAIN transcript[c] :
                                 transcript[c][i].cmd = 3
                         /\ KeyAt(c) < Flushed(bytes[c])
                      THEN {3} ELSE {})

DigestMatches(c, r) == Secrets(c) \subseteq r.knew

-----------------------------------------------------------------------------
(* One message of Serve: read, handle, write.                              *)

\* Mutants: reads are never bounded; reads are always bounded.
AwaitUntimed(c) ==
  /\ serve[c] = "top"
  /\ serve' = [serve EXCEPT ![c] = IF cancelled \/ c \in shut
                                     THEN "returning" ELSE "reading"]
  /\ UNCHANGED <<loopVars, shut, timed, peerVars, reply, stepVars, left>>

AwaitTimed(c) ==
  /\ serve[c] = "top"
  /\ IF cancelled \/ c \in shut
     THEN serve' = [serve EXCEPT ![c] = "returning"] /\ UNCHANGED timed
     ELSE /\ serve' = [serve EXCEPT ![c] = "reading"]
          /\ timed' = timed \cup {c}
  /\ UNCHANGED <<loopVars, shut, peerVars, reply, stepVars, left>>

Await(c) ==
  /\ serve[c] = "top"
  /\ IF cancelled \/ c \in shut
     THEN serve' = [serve EXCEPT ![c] = "returning"] /\ UNCHANGED timed
     ELSE /\ serve' = [serve EXCEPT ![c] = "reading"]
          /\ timed' = IF done(c) THEN timed \ {c} ELSE timed \cup {c}
  /\ UNCHANGED <<loopVars, shut, peerVars, reply, stepVars, left>>

\* Take the request r, leaving the answer to be written.
Take(c, r, ok) ==
  /\ serve[c] = "reading" /\ c \notin shut
  /\ requests' = [requests EXCEPT ![c] = Tail(@)]
  /\ reply' = [reply EXCEPT ![c] = [cmd |-> r.cmd, ok |-> ok]]
  /\ serve' = [serve EXCEPT ![c] = "writing"]
  /\ UNCHANGED <<loopVars, shut, timed, ended, answers, asked, read, left>>

\* A step of the handshake that succeeds enters the transcript.
Advance(c, r, cmd) ==
  /\ Take(c, r, TRUE)
  /\ next' = [next EXCEPT ![c] = cmd]
  /\ transcript' = [transcript EXCEPT ![c] = Append(@, r)]
  /\ bytes' = [bytes EXCEPT ![c] = @ + Length(r)]

\* Mutant: a command is taken whatever came before it.
AcceptsAnyOrder(c, r) ==
  /\ r.cmd # 0 /\ r.sound
  /\ r.cmd = 2 => r.known \/ pairing
  /\ r.cmd = 4 => DigestMatches(c, r)

\* What the four commands ask beside their place in the sequence.
Accepts(c, r) ==
  /\ r.cmd # 0 /\ r.cmd = next[c] /\ r.sound
  /\ r.cmd = 2 => r.known \/ pairing
  /\ r.cmd = 4 => DigestMatches(c, r)

Begin(c, r) ==
  /\ r.cmd = 1 /\ Accepts(c, r)
  /\ Advance(c, r, 2)
  /\ UNCHANGED handler

\* A recognised kart has the key already and goes on to finalize.
NegotiateVersion(c, r) ==
  /\ r.cmd = 2 /\ Accepts(c, r)
  /\ Advance(c, r, IF r.known THEN 4 ELSE 3)
  /\ UNCHANGED handler

GetSecretKey(c, r) ==
  /\ r.cmd = 3 /\ Accepts(c, r)
  /\ Advance(c, r, 4)
  /\ UNCHANGED handler

\* The announcement is on its way before the answer is written.
Finalize(c, r) ==
  /\ r.cmd = 4 /\ Accepts(c, r)
  /\ Advance(c, r, 0)
  /\ handler' = [handler EXCEPT ![c] = "spawned"]

\* Mutant: a refused request gets no answer.
RefuseSilently(c, r) ==
  /\ ~Accepts(c, r)
  /\ serve[c] = "reading" /\ c \notin shut
  /\ requests' = [requests EXCEPT ![c] = Tail(@)]
  /\ serve' = [serve EXCEPT ![c] = "top"]
  /\ UNCHANGED <<loopVars, shut, timed, ended, answers, asked, read, reply,
                 stepVars, left>>

\* A protocol error, or a message no service takes, is answered as well; it
\* leaves the handshake where it was.
Refuse(c, r) ==
  /\ ~Accepts(c, r)
  /\ Take(c, r, FALSE)
  /\ UNCHANGED stepVars

Handle(c) ==
  /\ requests[c] # <<>>
  /\ LET r == Head(requests[c]) IN
       \/ Begin(c, r) \/ NegotiateVersion(c, r) \/ GetSecretKey(c, r)
       \/ Finalize(c, r) \/ Refuse(c, r)

Write(c) ==
  /\ serve[c] = "writing" /\ c \notin shut
  /\ answers' = [answers EXCEPT ![c] = Append(@, reply[c])]
  /\ reply' = [reply EXCEPT ![c] = NoReply]
  /\ serve' = [serve EXCEPT ![c] = "top"]
  /\ UNCHANGED <<loopVars, shut, timed, ended, requests, asked, read, stepVars,
                 left>>

\* The connection is closed, or the write deadline passes because the peer
\* does not read.
WriteFails(c) ==
  /\ serve[c] = "writing"
  /\ c \in shut \/ c \in ended \/ answers[c] # <<>>
  /\ reply' = [reply EXCEPT ![c] = NoReply]
  /\ serve' = [serve EXCEPT ![c] = "returning"]
  /\ UNCHANGED <<loopVars, shut, timed, peerVars, stepVars, left>>

ReadFails(c) ==
  /\ serve[c] = "reading"
  /\ c \in shut \/ c \in ended
  /\ serve' = [serve EXCEPT ![c] = "returning"]
  /\ UNCHANGED <<loopVars, shut, timed, peerVars, reply, stepVars, left>>

\* IdleTimeout.
TimesOut(c) ==
  /\ serve[c] = "reading" /\ c \in timed
  /\ serve' = [serve EXCEPT ![c] = "returning"]
  /\ UNCHANGED <<loopVars, shut, timed, peerVars, reply, stepVars, left>>

\* Mutant: the context is looked at between two messages only.
CancelBetween(c) ==
  /\ cancelled /\ serve[c] = "top"
  /\ c \notin shut
  /\ shut' = shut \cup {c}
  /\ UNCHANGED <<loopVars, serve, timed, peerVars, reply, stepVars, left>>

\* The goroutine that watches the base context.
CancelCloses(c) ==
  /\ cancelled /\ serve[c] \in InServe
  /\ c \notin shut
  /\ shut' = shut \cup {c}
  /\ UNCHANGED <<loopVars, serve, timed, peerVars, reply, stepVars, left>>

-----------------------------------------------------------------------------
(* The deferred calls of Serve and of the goroutine that made it.          *)

\* conn.Close, with whatever was under way in either direction.
Disconnect(c) ==
  /\ shut' = shut \cup {c}
  /\ requests' = [requests EXCEPT ![c] = <<>>]
  /\ answers' = [answers EXCEPT ![c] = <<>>]
  /\ asked' = [asked EXCEPT ![c] = <<>>]

\* Mutant: a departure is reported of every connection.
CloseAlways(c) ==
  /\ serve[c] = "returning"
  /\ left' = left \cup {c}
  /\ Disconnect(c)
  /\ serve' = [serve EXCEPT ![c] = "releasing"]
  /\ UNCHANGED <<loopVars, timed, ended, read, reply, stepVars>>

CloseService(c) ==
  /\ serve[c] = "returning"
  /\ left' = IF done(c) THEN left \cup {c} ELSE left
  /\ Disconnect(c)
  /\ serve' = [serve EXCEPT ![c] = "releasing"]
  /\ UNCHANGED <<loopVars, timed, ended, read, reply, stepVars>>

\* Mutant: the slot is not given back.
ReleaseNothing(c) ==
  /\ serve[c] = "releasing"
  /\ serve' = [serve EXCEPT ![c] = "gone"]
  /\ UNCHANGED <<loopVars, shut, timed, peerVars, reply, stepVars, left>>

Release(c) ==
  /\ serve[c] = "releasing"
  /\ used' = used - 1
  /\ serve' = [serve EXCEPT ![c] = "gone"]
  /\ UNCHANGED <<pairing, loop, listening, cancelled, shut, timed, peerVars,
                 reply, stepVars, left>>

-----------------------------------------------------------------------------
(* The manager's side of an established connection.                        *)

RunHandler(c) ==
  /\ handler[c] = "spawned"
  /\ handler' = [handler EXCEPT ![c] = "done"]
  /\ UNCHANGED <<loopVars, serve, shut, timed, peerVars, reply, next,
                 transcript, bytes, left>>

\* Device.Close: a device refused in DOWN, or a pairing that is over.
CloseDevice(c) ==
  /\ handler[c] = "done" /\ c \notin shut
  /\ shut' = shut \cup {c}
  /\ UNCHANGED <<loopVars, serve, timed, peerVars, reply, stepVars, left>>

\* The loop and its connections are over; nothing is left to do.
Stopped ==
  /\ loop = "ended"
  /\ UNCHANGED vars

Next ==
  \/ CloseListener \/ Cancel \/ StopAccepting \/ EndLoop \/ Stopped
  \/ \E c \in Conn :
       \/ Accept(c) \/ Drop(c)
       \/ Ask(c) \/ ReadAnswer(c) \/ EndPeer(c)
       \/ Await(c) \/ Handle(c) \/ Write(c) \/ WriteFails(c)
       \/ ReadFails(c) \/ TimesOut(c) \/ CancelCloses(c)
       \/ CloseService(c) \/ Release(c)
       \/ RunHandler(c) \/ CloseDevice(c)

Spec == Init /\ [][Next]_vars

\* A goroutine that can go on does; a deadline passes; a cancelled context
\* closes its connections.  A read that has a request may take it rather
\* than run into its deadline, but not for ever do neither.
FairSpec ==
  /\ Spec
  /\ WF_vars(StopAccepting) /\ WF_vars(EndLoop)
  /\ \A c \in Conn :
       /\ WF_vars(Await(c)) /\ WF_vars(Write(c) \/ WriteFails(c))
       /\ WF_vars(Handle(c) \/ ReadFails(c) \/ TimesOut(c))
       /\ WF_vars(CancelCloses(c))
       /\ WF_vars(CloseService(c)) /\ WF_vars(Release(c))

-----------------------------------------------------------------------------
(* Properties.                                                             *)

commands(c) == [i \in DOMAIN transcript[c] |-> transcript[c][i].cmd]

\* finalize sets done at the end of one of two courses: a recognised kart's,
\* or that of one that was handed the key in pairing mode.  Refused and
\* repeated commands in between change nothing.
EstablishedProperly == \A c \in Conn : done(c) =>
  \/ commands(c) = <<1, 2, 4>> /\ transcript[c][2].known
  \/ commands(c) = <<1, 2, 3, 4>> /\ pairing

\* The partial digest of finalize still proves what it is for: the peer of an
\* established connection has read the nonce, and the key if it was sent one,
\* whatever the length of the version list made the last block.
PeerHasAnswers == \A c \in Conn : done(c) =>
  \A i \in DOMAIN transcript[c] : transcript[c][i].cmd \in {1, 3}
     => transcript[c][i].cmd \in read[c]

\* Serve answers every request it reads, routable or not, once and in order,
\* which is all a peer has to tell the answers apart.
AnswersInOrder == \A c \in Conn : serve[c] \in InServe =>
  asked[c] = [i \in DOMAIN answers[c] |-> answers[c][i].cmd]
               \o (IF serve[c] = "writing" THEN <<reply[c].cmd>> ELSE <<>>)
               \o [i \in DOMAIN requests[c] |-> requests[c][i].cmd]

\* What a peer has read is what it was sent, in the order in which it asked;
\* the digest, and the peer's own pairing of answers with requests, rest on it.
AnswersMatch == AnswersInOrder /\ PeerHasAnswers

\* acceptLoop: a slot is taken exactly while a connection is served, and
\* nothing is served once the loop has returned.
SlotsAreHeld ==
  /\ used = Cardinality({c \in Conn : serve[c] \in Serving})
  /\ used \in 0..MaxConns
  /\ loop = "ended" => used = 0

\* IdleTimeout: "an established channel must be allowed to sit idle".
EstablishedStays == [][\A c \in Conn :
  done(c) /\ serve[c] = "reading" /\ serve'[c] = "returning"
     => c \in shut \cup ended]_vars

\* What the Manager's model relies on; see ConnLife.
Life == INSTANCE ConnLife WITH
  stage <- [c \in Conn |-> IF serve[c] = "new" THEN "new"
                           ELSE IF serve[c] \in {"releasing", "gone"} THEN "down"
                           ELSE IF done(c) THEN "up" ELSE "open"],
  arrival <- [c \in Conn |-> IF handler[c] = "spawned" THEN "due"
                             ELSE IF handler[c] = "done" THEN "told" ELSE "none"],
  departed <- left
LifeSpec == Life!Spec

\* A peer that stops asking loses its connection or has established one.
SilentPeersGo == \A c \in Conn :
  <>[](requests[c] = <<>>)
     => (serve[c] \in Serving ~> serve[c] = "gone" \/ done(c))

\* Manager.Close waits for the loop, which must end whatever the peers do.
LoopEnds == cancelled ~> loop = "ended"

=============================================================================
