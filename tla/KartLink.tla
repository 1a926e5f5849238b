------------------------------ MODULE KartLink ------------------------------
(***************************************************************************)
(* The daemon's session with a kart (internal/fuji) and the RCD client it  *)
(* calls it with (internal/rcd, Client).  Connect dials the control and    *)
(* the event port at the same time and keeps both or neither; any number   *)
(* of callers then make one exchange at a time on the control channel.     *)
(*                                                                         *)
(* An answer comes in two parts, the header and the payload, and a call    *)
(* may give up between them.  An answer is taken by its command alone, so  *)
(* one that comes late may be taken for the answer to a later call.        *)
(***************************************************************************)
EXTENDS Naturals, Sequences

CONSTANTS
  Caller,
  Command,      \* the service and command of a request
  DialAttempts, \* dialAttempts
  MaxCalls,     \* bound: requests sent in one session
  None

ASSUME KartLinkAssumption ==
  /\ DialAttempts \in Nat \ {0} /\ MaxCalls \in Nat
  /\ None \notin Caller

Port == {"control", "event"}
Part == [of : Nat, part : {"head", "body"}]

VARIABLES
  phase,   \* of the session: connecting, open, failed, closed
  tries,   \* failed attempts to dial each port
  channel, \* dialing, open, refused or closed, for each port
  pc,      \* where each caller is in Invoke
  bound,   \* its context may end by itself
  cmd,     \* the command it sends
  mine,    \* the number of its request
  got,     \* the number of the answer whose header it has read
  holder,  \* who holds Client.mu
  sent,    \* the requests written so far: the command of each
  inbox,   \* those the kart has not answered
  half,    \* it has sent the header of its answer to the first of them
  stream,  \* the parts of answers on their way: [of, part]
  taken,   \* the request of each caller's last call that was answered, and
           \* the request the answer it took was for
  gaveUp,  \* numbers of the requests whose call ended without an answer
  late     \* watchers of calls that have returned

dialVars == <<phase, tries, channel>>
callVars == <<pc, bound, cmd, mine, got, holder, taken, gaveUp>>
wireVars == <<sent, inbox, half, stream>>
vars == <<dialVars, callVars, wireVars, late>>

TypeOK ==
  /\ phase \in {"connecting", "open", "failed", "closed"}
  /\ tries \in [Port -> Nat]
  /\ channel \in [Port -> {"dialing", "open", "refused", "closed"}]
  /\ pc \in [Caller -> {"idle", "lock", "write", "head", "body"}]
  /\ bound \in [Caller -> BOOLEAN]
  /\ cmd \in [Caller -> Command \cup {None}]
  /\ mine \in [Caller -> Nat] /\ got \in [Caller -> Nat]
  /\ holder \in Caller \cup {None}
  /\ sent \in Seq(Command \cup {None}) /\ inbox \in Seq(Nat)
  /\ half \in BOOLEAN
  /\ stream \in Seq(Part)
  /\ taken \in [Caller -> [request : Nat, answer : Nat] \cup {None}]
  /\ gaveUp \subseteq Nat
  /\ late \in BOOLEAN

Init ==
  /\ phase = "connecting"
  /\ tries = [p \in Port |-> 0]
  /\ channel = [p \in Port |-> "dialing"]
  /\ pc = [c \in Caller |-> "idle"]
  /\ bound = [c \in Caller |-> FALSE]
  /\ cmd = [c \in Caller |-> None]
  /\ mine = [c \in Caller |-> 0]
  /\ got = [c \in Caller |-> 0]
  /\ holder = None
  /\ sent = << >> /\ inbox = << >> /\ half = FALSE /\ stream = << >>
  /\ taken = [c \in Caller |-> None]
  /\ gaveUp = {}
  /\ late = FALSE

-----------------------------------------------------------------------------
(* Connect.                                                                *)

Dialed(p) ==
  /\ channel[p] = "dialing"
  /\ channel' = [channel EXCEPT ![p] = "open"]
  /\ tries' = [tries EXCEPT ![p] = 0]
  /\ UNCHANGED <<phase, callVars, wireVars, late>>

\* A refused attempt is made again after a pause, the last one is not.
DialFails(p) ==
  /\ channel[p] = "dialing"
  /\ IF tries[p] + 1 < DialAttempts
     THEN tries' = [tries EXCEPT ![p] = @ + 1] /\ UNCHANGED channel
     ELSE /\ tries' = [tries EXCEPT ![p] = 0]
          /\ channel' = [channel EXCEPT ![p] = "refused"]
  /\ UNCHANGED <<phase, callVars, wireVars, late>>

\* The context of the connection's setup ends while a port is being dialed.
DialCancelled(p) ==
  /\ channel[p] = "dialing"
  /\ channel' = [channel EXCEPT ![p] = "refused"]
  /\ tries' = [tries EXCEPT ![p] = 0]
  /\ UNCHANGED <<phase, callVars, wireVars, late>>

\* Both goroutines have reported.
\* Mutant: the first failure is returned at once.
JoinEarly ==
  /\ phase = "connecting"
  /\ channel["control"] # "dialing"
  /\ channel["event"] # "dialing" \/ channel["control"] = "refused"
  /\ IF \A p \in Port : channel[p] = "open"
     THEN phase' = "open" /\ UNCHANGED channel
     ELSE /\ phase' = "failed"
          /\ channel' = [p \in Port |-> IF channel[p] = "open" THEN "closed" ELSE channel[p]]
  /\ UNCHANGED <<tries, callVars, wireVars, late>>

Join ==
  /\ phase = "connecting"
  /\ \A p \in Port : channel[p] # "dialing"
  /\ IF \A p \in Port : channel[p] = "open"
     THEN phase' = "open" /\ UNCHANGED channel
     ELSE /\ phase' = "failed"
          /\ channel' = [p \in Port |-> IF channel[p] = "open" THEN "closed" ELSE channel[p]]
  /\ UNCHANGED <<tries, callVars, wireVars, late>>

\* Session.Close.
Close ==
  /\ phase = "open"
  /\ phase' = "closed"
  /\ channel' = [p \in Port |-> "closed"]
  /\ UNCHANGED <<tries, callVars, wireVars, late>>

-----------------------------------------------------------------------------
(* Invoke.                                                                 *)

Up == channel["control"] = "open"

\* A caller that has been given the session may call at any time, also after
\* Close.  b: its context has a deadline or may be cancelled.
Invoke(c, m, b) ==
  /\ phase \in {"open", "closed"} /\ pc[c] = "idle"
  /\ Len(sent) < MaxCalls
  /\ pc' = [pc EXCEPT ![c] = "lock"]
  /\ cmd' = [cmd EXCEPT ![c] = m]
  /\ bound' = [bound EXCEPT ![c] = b]
  /\ UNCHANGED <<dialVars, mine, got, holder, taken, gaveUp, wireVars, late>>

\* Mutant: exchanges are not one at a time.
LockAny(c) ==
  /\ pc[c] = "lock"
  /\ holder' = c
  /\ pc' = [pc EXCEPT ![c] = "write"]
  /\ UNCHANGED <<dialVars, bound, cmd, mine, got, taken, gaveUp, wireVars, late>>

Lock(c) ==
  /\ pc[c] = "lock" /\ holder = None
  /\ holder' = c
  /\ pc' = [pc EXCEPT ![c] = "write"]
  /\ UNCHANGED <<dialVars, bound, cmd, mine, got, taken, gaveUp, wireVars, late>>

\* The call returns, with an answer or without.  The watcher of its context is
\* told to stop, but it may look at the context first.
Return(c) ==
  /\ pc' = [pc EXCEPT ![c] = "idle"]
  /\ holder' = None
  /\ mine' = [mine EXCEPT ![c] = 0]
  /\ got' = [got EXCEPT ![c] = 0]
  /\ late' = (late \/ bound[c])
  /\ bound' = [bound EXCEPT ![c] = FALSE]
  /\ cmd' = [cmd EXCEPT ![c] = None]
  /\ UNCHANGED dialVars

Take(c) ==
  /\ taken' = [taken EXCEPT ![c] = [request |-> mine[c], answer |-> got[c]]]
  /\ UNCHANGED gaveUp
  /\ Return(c)

GiveUp(c) ==
  /\ gaveUp' = IF mine[c] > 0 THEN gaveUp \cup {mine[c]} ELSE gaveUp
  /\ UNCHANGED taken
  /\ Return(c)

Write(c) ==
  /\ pc[c] = "write" /\ Up /\ Len(sent) < MaxCalls
  /\ sent' = Append(sent, cmd[c])
  /\ inbox' = Append(inbox, Len(sent) + 1)
  /\ mine' = [mine EXCEPT ![c] = Len(sent) + 1]
  /\ pc' = [pc EXCEPT ![c] = "head"]
  /\ UNCHANGED <<dialVars, bound, cmd, got, holder, taken, gaveUp, half, stream, late>>

\* ReadMessage: a header, then the payload it announces.
ReadHead(c) ==
  /\ pc[c] = "head" /\ Up
  /\ stream # << >> /\ Head(stream).part = "head"
  /\ got' = [got EXCEPT ![c] = Head(stream).of]
  /\ stream' = Tail(stream)
  /\ pc' = [pc EXCEPT ![c] = "body"]
  /\ UNCHANGED <<dialVars, bound, cmd, mine, holder, taken, gaveUp, sent, inbox, half, late>>

\* The payload of an answer whose reader gave up is read as a header: its
\* length is refused, or it is not the message expected, with as much of what
\* follows as that length says.
ReadJunk(c) ==
  /\ pc[c] = "head" /\ Up
  /\ stream # << >> /\ Head(stream).part = "body"
  /\ \E k \in 1..Len(stream) : stream' = SubSeq(stream, k + 1, Len(stream))
  /\ GiveUp(c)
  /\ UNCHANGED <<sent, inbox, half>>

\* The answer is taken, whatever status it reports, when its command is the
\* one that was sent.
ReadBody(c) ==
  /\ pc[c] = "body" /\ Up /\ stream # << >>
  /\ stream' = Tail(stream)
  /\ IF sent[got[c]] = cmd[c] THEN Take(c) ELSE GiveUp(c)
  /\ UNCHANGED <<sent, inbox, half>>

InExchange(c) == pc[c] \in {"write", "head", "body"}

\* The deadline of the exchange: the context's, or five seconds.
\* Mutant: only the context's.
ExpireBound(c) ==
  /\ InExchange(c) /\ bound[c]
  /\ GiveUp(c)
  /\ UNCHANGED wireVars

Expire(c) ==
  /\ InExchange(c)
  /\ GiveUp(c)
  /\ UNCHANGED wireVars

\* Reading or writing on a closed connection fails.
Broken(c) ==
  /\ InExchange(c) /\ ~Up
  /\ GiveUp(c)
  /\ UNCHANGED wireVars

\* The context ends during the exchange: its watcher closes the connection.
CloseControl ==
  /\ Up
  /\ channel' = [channel EXCEPT !["control"] = "closed"]
  /\ UNCHANGED <<phase, tries, callVars, wireVars>>

ContextEnds(c) ==
  /\ InExchange(c) /\ bound[c]
  /\ CloseControl
  /\ UNCHANGED late

\* The watcher of a call that has returned, which had not yet begun to wait,
\* finds both its context done and the order to stop, and may pick the first.
LateWatcher ==
  /\ late
  /\ late' = FALSE
  /\ CloseControl

-----------------------------------------------------------------------------
(* The kart answers requests in order and may stop at any point.           *)

AnswerHead ==
  /\ Up /\ inbox # << >> /\ ~half
  /\ stream' = Append(stream, [of |-> Head(inbox), part |-> "head"])
  /\ half' = TRUE
  /\ UNCHANGED <<dialVars, callVars, sent, inbox, late>>

AnswerBody ==
  /\ Up /\ half
  /\ stream' = Append(stream, [of |-> Head(inbox), part |-> "body"])
  /\ half' = FALSE
  /\ inbox' = Tail(inbox)
  /\ UNCHANGED <<dialVars, callVars, sent, late>>

-----------------------------------------------------------------------------
Next ==
  \/ \E p \in Port : Dialed(p) \/ DialFails(p) \/ DialCancelled(p)
  \/ Join \/ Close
  \/ \E c \in Caller :
       \/ \E m \in Command, b \in BOOLEAN : Invoke(c, m, b)
       \/ Lock(c) \/ Write(c)
       \/ ReadHead(c) \/ ReadJunk(c) \/ ReadBody(c)
       \/ Expire(c) \/ Broken(c) \/ ContextEnds(c)
  \/ LateWatcher
  \/ AnswerHead \/ AnswerBody

\* A dial attempt ends, a deadline passes, and a mutex that is free again and
\* again is given to each that waits for it.  Nothing is asked of the kart.
Fairness ==
  /\ \A p \in Port : WF_vars(Dialed(p) \/ DialFails(p) \/ DialCancelled(p))
  /\ WF_vars(Join)
  /\ \A c \in Caller : WF_vars(Expire(c)) /\ SF_vars(Lock(c))

Spec == Init /\ [][Next]_vars /\ Fairness

-----------------------------------------------------------------------------
\* An answer is taken for another request only after some request was given
\* up whose answer was still to come, and then for one of the same command.
OwnUnlessAbandoned ==
  \A c \in Caller : taken[c] # None =>
    LET t == taken[c] IN
      /\ sent[t.answer] = sent[t.request]
      /\ t.answer # t.request => \E n \in gaveUp : n <= t.answer /\ t.answer < t.request

\* Connect gives both channels or leaves none behind, and Close closes both:
\* the kart resets its connection when either is missing.
BothOrNone ==
  phase \in {"failed", "closed"} =>
    \A p \in Port : channel[p] \notin {"open", "dialing"}

\* Every call ends, whatever the kart does and without a deadline of its own.
CallsEnd == \A c \in Caller : pc[c] # "idle" ~> pc[c] = "idle"

\* session.go:19, "a Session must stay open for the lifetime of the
\* connection": no call drops a channel of an open session.
HeldOpen == phase = "open" => \A p \in Port : channel[p] = "open"

=============================================================================
