-------------------------- MODULE HandshakeProofs --------------------------
(***************************************************************************)
(* Proofs about Handshake for every finite set of connections, every limit *)
(* of the accept loop and whatever the peers say: its types, the slots,    *)
(* the courses on which a connection is established, what its peer has     *)
(* read by then, and that the Manager sees connections as in ConnLife.     *)
(***************************************************************************)
EXTENDS Handshake, SequenceTheorems, FiniteSetTheorems, TLAPS

-----------------------------------------------------------------------------
(* Types.                                                                  *)

\* The set of connections that hold a slot.
Served == {c \in Conn : serve[c] \in Serving}

\* A request that is handled leaves well-typed state.
LEMMA TakeTypes ==
  ASSUME TypeOK, NEW c \in Conn, NEW r \in Request, NEW ok \in BOOLEAN,
         requests[c] # <<>>, Take(c, r, ok)
  PROVE  /\ requests' \in [Conn -> Seq(Request)]
         /\ reply' \in [Conn -> Answer]
         /\ serve' = [serve EXCEPT ![c] = "writing"]
         /\ serve' \in [Conn -> Serving \cup {"new", "gone"}]
         /\ UNCHANGED <<loopVars, shut, timed, ended, answers, asked, read, left>>
<1>1. Tail(requests[c]) \in Seq(Request)
  BY HeadTailProperties DEF TypeOK
<1>2. [cmd |-> r.cmd, ok |-> ok] \in Answer
  BY DEF Request, Answer
<1> QED
  BY <1>1, <1>2 DEF TypeOK, Take, Serving, InServe

\* The length of an exchange.
LEMMA LengthType ==
  ASSUME NEW r \in Request
  PROVE  Length(r) \in Nat
  BY DEF Request, Length

\* A command that succeeds has a length, and its exchange a place.
LEMMA AdvanceTypes ==
  ASSUME TypeOK, NEW c \in Conn, NEW r \in Request, NEW cmd \in Command,
         requests[c] # <<>>, Advance(c, r, cmd)
  PROVE  /\ next' \in [Conn -> Command]
         /\ transcript' \in [Conn -> Seq(Request)]
         /\ bytes' \in [Conn -> Nat]
<1>1. Append(transcript[c], r) \in Seq(Request)
  BY AppendProperties DEF TypeOK
<1>2. Length(r) \in Nat
  BY LengthType
<1>3. bytes[c] + Length(r) \in Nat
  BY <1>2 DEF TypeOK
<1> QED
  BY <1>1, <1>3 DEF TypeOK, Advance

\* The five outcomes of Handle.
LEMMA HandleTypes ==
  ASSUME TypeOK, NEW c \in Conn, Handle(c)
  PROVE  TypeOK'
<1> DEFINE r == Head(requests[c])
<1>1. requests[c] # <<>> /\ r \in Request
  BY HeadTailProperties DEF TypeOK, Handle
<1> HIDE DEF r
<1>2. ASSUME NEW cmd \in Command, Advance(c, r, cmd),
             handler' \in [Conn -> {"none", "spawned", "done"}]
      PROVE  TypeOK'
  <2>1. Take(c, r, TRUE)
    BY <1>2 DEF Advance
  <2> QED
    BY <1>1, <1>2, <2>1, TakeTypes, AdvanceTypes DEF TypeOK, loopVars
<1>3. CASE Begin(c, r) \/ NegotiateVersion(c, r) \/ GetSecretKey(c, r)
  <2>1. \E cmd \in Command : Advance(c, r, cmd)
    BY <1>3 DEF Begin, NegotiateVersion, GetSecretKey, Command
  <2>2. handler' = handler
    BY <1>3 DEF Begin, NegotiateVersion, GetSecretKey
  <2> QED
    BY <1>2, <2>1, <2>2 DEF TypeOK
<1>4. CASE Finalize(c, r)
  <2>1. Advance(c, r, 0) /\ 0 \in Command
    BY <1>4 DEF Finalize, Command
  <2>2. handler' \in [Conn -> {"none", "spawned", "done"}]
    BY <1>4 DEF Finalize, TypeOK
  <2> QED
    BY <1>2, <2>1, <2>2
<1>5. CASE Refuse(c, r)
  <2>1. Take(c, r, FALSE) /\ UNCHANGED stepVars
    BY <1>5 DEF Refuse
  <2> QED
    BY <1>1, <2>1, TakeTypes DEF TypeOK, loopVars, stepVars
<1> QED
  BY <1>1, <1>3, <1>4, <1>5 DEF Handle, r

\* The slots: as many are taken as there are connections served, and none
\* once the loop has returned.
Slots ==
  /\ used = Cardinality(Served)
  /\ loop = "ended" => Served = {}

\* A step that moves one connection within Serve moves no slot.
LEMMA ServedSame ==
  ASSUME TypeOK, Slots, NEW c \in Conn, serve[c] \in Serving,
         NEW x \in Serving, serve' = [serve EXCEPT ![c] = x],
         used' = used, loop' = loop
  PROVE  Slots'
<1>1. Served' = Served
  BY DEF Served, TypeOK
<1> QED
  BY <1>1 DEF Slots

\* So does one that moves none.
LEMMA ServedUnchanged ==
  ASSUME Slots, serve' = serve, used' = used, loop' = loop
  PROVE  Slots'
BY DEF Slots, Served

\* Accept adds a connection to those served and Release takes one away.
LEMMA ServedChanges ==
  ASSUME TypeOK, Slots, NEW c \in Conn
  PROVE  /\ Accept(c) => Slots' /\ used' \in 0..MaxConns
         /\ Release(c) => Slots' /\ used' \in 0..MaxConns
<1>1. IsFiniteSet(Served)
  BY HandshakeAssumption, FS_Subset DEF Served
<1>2. ASSUME Accept(c)
      PROVE  Slots' /\ used' \in 0..MaxConns
  <2>1. c \notin Served /\ Served' = Served \cup {c}
    BY <1>2 DEF Accept, Served, TypeOK, Serving, InServe
  <2>2. Cardinality(Served') = Cardinality(Served) + 1
    BY <1>1, <2>1, FS_AddElement
  <2>3. loop' # "ended"
    BY <1>2 DEF Accept
  <2>4. used' \in 0..MaxConns
    BY <1>2, HandshakeAssumption DEF Accept, TypeOK
  <2> QED
    BY <1>2, <2>2, <2>3, <2>4 DEF Slots, Accept
<1>3. ASSUME Release(c)
      PROVE  Slots' /\ used' \in 0..MaxConns
  <2>1. c \in Served /\ Served' = Served \ {c}
    BY <1>3 DEF Release, Served, TypeOK, Serving, InServe
  <2>2. Cardinality(Served') = Cardinality(Served) - 1
    BY <1>1, <2>1, FS_RemoveElement
  <2>3. used # 0
    BY <1>1, <2>1, FS_EmptySet DEF Slots
  <2>4. used' \in 0..MaxConns
    BY <1>3, <2>3, HandshakeAssumption DEF Release, TypeOK
  <2>5. loop' # "ended"
    BY <1>3, <2>1 DEF Release, Slots
  <2> QED
    BY <1>3, <2>2, <2>4, <2>5 DEF Slots, Release
<1> QED
  BY <1>2, <1>3

-----------------------------------------------------------------------------
(* Answers in order: what the peer waits for is what is on its way to it,   *)
(* then what the daemon is writing, then what it has not read.              *)

\* The commands s of the unanswered requests, when the answers a are on their
\* way, the answer to x is being written if w = 1, and q are to be read.
Fits(s, a, w, x, q) ==
  /\ Len(s) = Len(a) + w + Len(q)
  /\ \A i \in 1..Len(a) : s[i] = a[i].cmd
  /\ w = 1 => s[Len(a) + 1] = x
  /\ \A i \in 1..Len(q) : s[Len(a) + w + i] = q[i].cmd

\* Nothing asked, nothing on its way.
LEMMA FitsEmpty ==
  ASSUME NEW x
  PROVE  Fits(<<>>, <<>>, 0, x, <<>>)
BY DEF Fits

\* A request is appended to both ends.
LEMMA FitsAsk ==
  ASSUME NEW s \in Seq(Command), NEW a \in Seq(Answer), NEW w \in {0, 1}, NEW x,
         NEW q \in Seq(Request), NEW r \in Request, Fits(s, a, w, x, q)
  PROVE  Fits(Append(s, r.cmd), a, w, x, Append(q, r))
<1> DEFINE t == Append(s, r.cmd)
           p == Append(q, r)
<1>1. r.cmd \in Command
  BY DEF Request
<1>2. /\ Len(t) = Len(s) + 1 /\ t[Len(s) + 1] = r.cmd
      /\ \A i \in 1..Len(s) : t[i] = s[i]
      /\ Len(p) = Len(q) + 1 /\ p[Len(q) + 1] = r
      /\ \A i \in 1..Len(q) : p[i] = q[i]
  BY <1>1, AppendProperties
<1>3. Len(s) \in Nat /\ Len(a) \in Nat /\ Len(q) \in Nat
  BY LenProperties
<1> HIDE DEF t, p
<1>4. ASSUME NEW i \in 1..Len(p)
      PROVE  t[Len(a) + w + i] = p[i].cmd
  <2>1. CASE i = Len(q) + 1
    BY <1>2, <1>3, <2>1 DEF Fits
  <2>2. CASE i # Len(q) + 1
    <3>1. i \in 1..Len(q) /\ Len(a) + w + i \in 1..Len(s)
      BY <1>2, <1>3, <2>2 DEF Fits
    <3> QED
      BY <1>2, <3>1 DEF Fits
  <2> QED
    BY <2>1, <2>2
<1>5. \A i \in 1..Len(a) : t[i] = a[i].cmd
  BY <1>2, <1>3 DEF Fits
<1>6. w = 1 => t[Len(a) + 1] = x
  BY <1>2, <1>3 DEF Fits
<1>7. Len(t) = Len(a) + w + Len(p)
  BY <1>2, <1>3 DEF Fits
<1>8. Fits(t, a, w, x, p)
  BY <1>4, <1>5, <1>6, <1>7 DEF Fits
<1> QED
  BY <1>8 DEF t, p

\* The first answer is read.
LEMMA FitsRead ==
  ASSUME NEW s \in Seq(Command), NEW a \in Seq(Answer), NEW w \in {0, 1}, NEW x,
         NEW q \in Seq(Request), a # <<>>, Fits(s, a, w, x, q)
  PROVE  s # <<>> /\ Fits(Tail(s), Tail(a), w, x, q)
<1> DEFINE t == Tail(s)
           b == Tail(a)
<1>1. Len(s) \in Nat /\ Len(a) \in Nat \ {0} /\ Len(q) \in Nat
  BY LenProperties, EmptySeq
<1>2. s # <<>>
  BY <1>1, EmptySeq DEF Fits
<1>3. /\ Len(t) = Len(s) - 1 /\ \A i \in 1..Len(t) : t[i] = s[i + 1]
      /\ Len(b) = Len(a) - 1 /\ \A i \in 1..Len(b) : b[i] = a[i + 1]
  BY <1>1, <1>2, HeadTailProperties
<1> HIDE DEF t, b
<1>4. Len(t) = Len(b) + w + Len(q)
  BY <1>1, <1>3 DEF Fits
<1>5. ASSUME NEW i \in 1..Len(b)
      PROVE  t[i] = b[i].cmd
  <2>1. i \in 1..Len(t) /\ i + 1 \in 1..Len(a)
    BY <1>1, <1>3, <1>4
  <2> QED
    BY <1>3, <2>1 DEF Fits
<1>6. ASSUME w = 1
      PROVE  t[Len(b) + 1] = x
  <2>1. Len(b) + 1 \in 1..Len(t) /\ (Len(b) + 1) + 1 = Len(a) + 1
    BY <1>1, <1>3, <1>4, <1>6
  <2> QED
    BY <1>3, <1>6, <2>1 DEF Fits
<1>7. ASSUME NEW i \in 1..Len(q)
      PROVE  t[Len(b) + w + i] = q[i].cmd
  <2>1. /\ Len(b) + w + i \in 1..Len(t)
        /\ (Len(b) + w + i) + 1 = Len(a) + w + i
    BY <1>1, <1>3, <1>4
  <2> QED
    BY <1>3, <2>1 DEF Fits
<1> QED
  BY <1>2, <1>4, <1>5, <1>6, <1>7 DEF Fits, t, b

\* The first request is taken, and its answer is the next to be written.
LEMMA FitsTake ==
  ASSUME NEW s \in Seq(Command), NEW a \in Seq(Answer), NEW x,
         NEW q \in Seq(Request), q # <<>>, Fits(s, a, 0, x, q)
  PROVE  Fits(s, a, 1, Head(q).cmd, Tail(q))
<1> DEFINE p == Tail(q)
<1>1. Len(s) \in Nat /\ Len(a) \in Nat /\ Len(q) \in Nat \ {0}
  BY LenProperties, EmptySeq
<1>2. /\ Len(p) = Len(q) - 1 /\ \A i \in 1..Len(p) : p[i] = q[i + 1]
      /\ Head(q) = q[1]
  BY <1>1, HeadTailProperties
<1> HIDE DEF p
<1>3. s[Len(a) + 1] = Head(q).cmd
  <2>1. 1 \in 1..Len(q) /\ Len(a) + 0 + 1 = Len(a) + 1
    BY <1>1
  <2> QED
    BY <1>2, <2>1 DEF Fits
<1>4. ASSUME NEW i \in 1..Len(p)
      PROVE  s[Len(a) + 1 + i] = p[i].cmd
  <2>1. i + 1 \in 1..Len(q) /\ Len(a) + 0 + (i + 1) = Len(a) + 1 + i
    BY <1>1, <1>2
  <2> QED
    BY <1>2, <2>1 DEF Fits
<1>5. Len(s) = Len(a) + 1 + Len(p)
  BY <1>1, <1>2 DEF Fits
<1> QED
  BY <1>3, <1>4, <1>5 DEF Fits, p

\* The answer is written.
LEMMA FitsWrite ==
  ASSUME NEW s \in Seq(Command), NEW a \in Seq(Answer), NEW m \in Answer, NEW x,
         NEW q \in Seq(Request), Fits(s, a, 1, m.cmd, q)
  PROVE  Fits(s, Append(a, m), 0, x, q)
<1> DEFINE b == Append(a, m)
<1>1. Len(s) \in Nat /\ Len(a) \in Nat /\ Len(q) \in Nat
  BY LenProperties
<1>2. /\ Len(b) = Len(a) + 1 /\ b[Len(a) + 1] = m
      /\ \A i \in 1..Len(a) : b[i] = a[i]
  BY AppendProperties
<1> HIDE DEF b
<1>3. ASSUME NEW i \in 1..Len(b)
      PROVE  s[i] = b[i].cmd
  <2>1. i = Len(a) + 1 \/ i \in 1..Len(a)
    BY <1>1, <1>2
  <2> QED
    BY <1>2, <2>1 DEF Fits
<1>4. ASSUME NEW i \in 1..Len(q)
      PROVE  s[Len(b) + 0 + i] = q[i].cmd
  <2>1. Len(b) + 0 + i = Len(a) + 1 + i
    BY <1>1, <1>2
  <2> QED
    BY <2>1 DEF Fits
<1>5. Len(s) = Len(b) + 0 + Len(q)
  BY <1>1, <1>2 DEF Fits
<1> QED
  BY <1>3, <1>4, <1>5 DEF Fits, b

Writing(c) == IF serve[c] = "writing" THEN 1 ELSE 0

Matched(c) ==
  Fits(asked[c], answers[c], Writing(c), reply[c].cmd, requests[c])

InOrder == \A c \in Conn : serve[c] \in InServe \cup {"new"} => Matched(c)

\* The types of the queues of a connection.
LEMMA QueueTypes ==
  ASSUME TypeOK, NEW c \in Conn
  PROVE  /\ asked[c] \in Seq(Command) /\ answers[c] \in Seq(Answer)
         /\ requests[c] \in Seq(Request) /\ reply[c] \in Answer
         /\ Writing(c) \in {0, 1}
BY DEF TypeOK, Writing

\* A peer that asks.
LEMMA MatchedAsk ==
  ASSUME TypeOK, NEW c \in Conn, Ask(c), Matched(c)
  PROVE  Matched(c)'
<1>1. PICK r \in Says[c] :
        /\ requests' = [requests EXCEPT
             ![c] = Append(@,
               [r EXCEPT !.knew = IF r.cmd = 4 THEN read[c] ELSE {}])]
        /\ asked' = [asked EXCEPT ![c] = Append(@, r.cmd)]
  BY DEF Ask
<1> DEFINE q == [r EXCEPT !.knew = IF r.cmd = 4 THEN read[c] ELSE {}]
<1>2. q \in Request /\ q.cmd = r.cmd
  <2>1. r \in Request
    BY HandshakeAssumption
  <2>2. (IF r.cmd = 4 THEN read[c] ELSE {}) \in SUBSET Command
    BY DEF TypeOK
  <2> QED
    BY <2>1, <2>2 DEF Request
<1>3. requests'[c] = Append(requests[c], q) /\ asked'[c] = Append(asked[c], q.cmd)
  BY <1>1, <1>2 DEF TypeOK
<1> HIDE DEF q
<1>4. answers' = answers /\ reply' = reply /\ Writing(c)' = Writing(c)
  BY DEF Ask, Writing
<1> QED
  BY <1>2, <1>3, <1>4, QueueTypes, FitsAsk DEF Matched

\* A peer that reads.
LEMMA MatchedRead ==
  ASSUME TypeOK, NEW c \in Conn, ReadAnswer(c), Matched(c)
  PROVE  Matched(c)' /\ asked[c] # <<>>
<1>1. /\ answers[c] # <<>> /\ requests' = requests /\ reply' = reply
      /\ answers'[c] = Tail(answers[c]) /\ asked'[c] = Tail(asked[c])
      /\ Writing(c)' = Writing(c)
  BY DEF ReadAnswer, TypeOK, Writing
<1> QED
  BY <1>1, QueueTypes, FitsRead DEF Matched

\* A request that is taken and whose answer is about to be written.
LEMMA MatchedTake ==
  ASSUME TypeOK, NEW c \in Conn, requests[c] # <<>>, NEW ok \in BOOLEAN,
         Take(c, Head(requests[c]), ok), Matched(c)
  PROVE  Matched(c)'
<1>1. /\ answers' = answers /\ asked' = asked
      /\ reply'[c].cmd = Head(requests[c]).cmd
      /\ requests'[c] = Tail(requests[c])
  BY DEF Take, TypeOK
<1>2. Writing(c) = 0 /\ Writing(c)' = 1
  BY DEF Take, Writing, TypeOK
<1> QED
  BY <1>1, <1>2, QueueTypes, FitsTake DEF Matched

\* An answer that is written.
LEMMA MatchedWrite ==
  ASSUME TypeOK, NEW c \in Conn, Write(c), Matched(c)
  PROVE  Matched(c)'
<1>1. /\ requests' = requests /\ asked' = asked
      /\ answers'[c] = Append(answers[c], reply[c])
  BY DEF Write, TypeOK
<1>2. Writing(c) = 1 /\ Writing(c)' = 0
  BY DEF Write, Writing, TypeOK
<1> QED
  BY <1>1, <1>2, QueueTypes, FitsWrite DEF Matched

\* The rest of Next leaves the queues of a connection alone, or it leaves
\* Serve.
LEMMA InOrderStep ==
  ASSUME TypeOK, InOrder, [Next]_vars
  PROVE  InOrder'
<1> SUFFICES ASSUME NEW d \in Conn, serve'[d] \in InServe \cup {"new"}
             PROVE  Matched(d)'
  BY DEF InOrder
<1> DEFINE Kept == /\ answers'[d] = answers[d] /\ requests'[d] = requests[d]
                   /\ asked'[d] = asked[d] /\ reply'[d] = reply[d]
                   /\ serve'[d] = "writing" <=> serve[d] = "writing"
                   /\ serve[d] \in InServe \cup {"new"}
<1>1. ASSUME Kept PROVE Matched(d)'
  <2>1. Matched(d) /\ Writing(d)' = Writing(d)
    BY <1>1 DEF InOrder, Writing
  <2> QED
    BY <1>1, <2>1 DEF Matched
<1> USE DEF loopVars, peerVars, stepVars
<1>2. CASE CloseListener \/ Cancel \/ StopAccepting \/ EndLoop \/ UNCHANGED vars
  <2>1. Kept
    BY <1>2 DEF CloseListener, Cancel, StopAccepting, EndLoop, vars
  <2> QED
    BY <1>1, <2>1
<1>3. ASSUME NEW c \in Conn, Ask(c) \/ ReadAnswer(c) \/ Handle(c) \/ Write(c)
      PROVE  Matched(d)'
  <2>1. \/ Ask(c) \/ ReadAnswer(c) \/ Write(c)
        \/ /\ requests[c] # <<>>
           /\ \E ok \in BOOLEAN : Take(c, Head(requests[c]), ok)
    BY <1>3 DEF Handle, Begin, NegotiateVersion, GetSecretKey, Finalize,
                Refuse, Advance
  <2>2. CASE c = d
    <3>1. serve[d] \in InServe
      BY <2>1, <2>2 DEF Ask, ReadAnswer, Write, Take, InServe
    <3>2. Matched(d)
      BY <3>1 DEF InOrder
    <3> QED
      BY <2>1, <2>2, <3>2, MatchedAsk, MatchedRead, MatchedTake, MatchedWrite
  <2>3. CASE c # d
    <3>1. Kept
      BY <2>1, <2>3 DEF Ask, ReadAnswer, Write, Take, TypeOK
    <3> QED
      BY <1>1, <3>1
  <2> QED
    BY <2>2, <2>3
<1>4. ASSUME NEW c \in Conn,
             \/ Accept(c) \/ EndPeer(c) \/ Await(c) \/ CancelCloses(c)
             \/ RunHandler(c) \/ CloseDevice(c)
      PROVE  Matched(d)'
  <2>1. Kept
    BY <1>4 DEF Accept, EndPeer, Await, CancelCloses, RunHandler, CloseDevice,
                TypeOK, InServe
  <2> QED
    BY <1>1, <2>1
<1>5. ASSUME NEW c \in Conn,
             \/ Drop(c) \/ WriteFails(c) \/ ReadFails(c) \/ TimesOut(c)
             \/ CloseService(c) \/ Release(c)
      PROVE  Matched(d)'
  <2>1. c # d
    BY <1>5 DEF Drop, WriteFails, ReadFails, TimesOut, CloseService, Release,
                TypeOK, InServe
  <2>2. Kept
    BY <1>5, <2>1 DEF Drop, WriteFails, ReadFails, TimesOut, CloseService,
                      Disconnect, Release, TypeOK
  <2> QED
    BY <1>1, <2>2
<1> QED
  BY <1>2, <1>3, <1>4, <1>5 DEF Next, Stopped

-----------------------------------------------------------------------------
(* The types with the slots and the order of the answers.                   *)

\* The types and the slots, in which used is bounded, are inductive together.
LEMMA TypeStep ==
  ASSUME TypeOK, Slots, InOrder, [Next]_vars
  PROVE  TypeOK' /\ Slots'
<1> USE DEF loopVars, peerVars, stepVars
<1>1. CASE CloseListener \/ Cancel \/ StopAccepting
  <2>1. TypeOK'
    BY <1>1 DEF CloseListener, Cancel, StopAccepting, TypeOK
  <2>2. Served' = Served /\ used' = used /\ (loop' = "ended" => loop = "ended")
    BY <1>1 DEF CloseListener, Cancel, StopAccepting, Served
  <2> QED
    BY <2>1, <2>2 DEF Slots
<1>2. CASE EndLoop
  <2>1. TypeOK'
    BY <1>2 DEF EndLoop, TypeOK
  <2>2. Served' = {} /\ Served = {}
    BY <1>2 DEF EndLoop, Served
  <2> QED
    BY <1>2, <2>1, <2>2 DEF Slots, EndLoop
<1>3. CASE UNCHANGED vars
  BY <1>3, ServedUnchanged DEF vars, TypeOK
<1>4. ASSUME NEW c \in Conn, Accept(c) \/ Release(c)
      PROVE  TypeOK' /\ Slots'
  <2>1. used' \in 0..MaxConns /\ Slots'
    BY <1>4, ServedChanges
  <2> QED
    BY <1>4, <2>1 DEF Accept, Release, TypeOK, Serving, InServe
<1>5. ASSUME NEW c \in Conn, Drop(c)
      PROVE  TypeOK' /\ Slots'
  <2>1. TypeOK'
    BY <1>5 DEF Drop, TypeOK
  <2>2. Served' = Served
    BY <1>5 DEF Drop, Served, TypeOK, Serving, InServe
  <2> QED
    BY <1>5, <2>1, <2>2 DEF Drop, Slots
<1>6. ASSUME NEW c \in Conn, Ask(c)
      PROVE  TypeOK' /\ Slots'
  <2>1. PICK r \in Says[c] :
          /\ requests' = [requests EXCEPT
               ![c] = Append(@,
                 [r EXCEPT !.knew = IF r.cmd = 4 THEN read[c] ELSE {}])]
          /\ asked' = [asked EXCEPT ![c] = Append(@, r.cmd)]
    BY <1>6 DEF Ask
  <2>2. r \in Request /\ r.cmd \in Command
    BY HandshakeAssumption DEF Request
  <2>3. [r EXCEPT !.knew = IF r.cmd = 4 THEN read[c] ELSE {}] \in Request
    BY <2>2 DEF Request, TypeOK
  <2>4. /\ requests' \in [Conn -> Seq(Request)]
        /\ asked' \in [Conn -> Seq(Command)]
    BY <2>1, <2>2, <2>3, AppendProperties DEF TypeOK
  <2> QED
    BY <1>6, <2>4, ServedUnchanged DEF Ask, TypeOK
<1>7. ASSUME NEW c \in Conn, ReadAnswer(c)
      PROVE  TypeOK' /\ Slots'
  <2>1. /\ Tail(answers[c]) \in Seq(Answer)
        /\ Head(answers[c]) \in Answer
    BY <1>7, HeadTailProperties DEF ReadAnswer, TypeOK
  <2>5. asked[c] # <<>>
    BY <1>7, MatchedRead DEF InOrder, ReadAnswer
  <2>2. Tail(asked[c]) \in Seq(Command)
    BY <2>5, HeadTailProperties DEF TypeOK
  <2>3. read[c] \cup {Head(answers[c]).cmd} \in SUBSET Command
    BY <2>1 DEF TypeOK, Answer
  <2>4. /\ answers' \in [Conn -> Seq(Answer)]
        /\ asked' \in [Conn -> Seq(Command)]
        /\ read' \in [Conn -> SUBSET Command]
    BY <1>7, <2>1, <2>2, <2>3 DEF ReadAnswer, TypeOK
  <2> QED
    BY <1>7, <2>4, ServedUnchanged DEF ReadAnswer, TypeOK
<1>8. ASSUME NEW c \in Conn, EndPeer(c) \/ RunHandler(c) \/ CloseDevice(c)
                               \/ CancelCloses(c)
      PROVE  TypeOK' /\ Slots'
  <2>1. TypeOK'
    BY <1>8 DEF EndPeer, RunHandler, CloseDevice, CancelCloses, TypeOK
  <2> QED
    BY <1>8, <2>1, ServedUnchanged
    DEF EndPeer, RunHandler, CloseDevice, CancelCloses
<1>9. ASSUME NEW c \in Conn,
             Await(c) \/ WriteFails(c) \/ ReadFails(c) \/ TimesOut(c)
      PROVE  TypeOK' /\ Slots'
  <2>0. NoReply \in Answer
    BY DEF NoReply, Answer, Command
  <2>1. TypeOK'
    <3>1. CASE Await(c)
      BY <3>1 DEF Await, TypeOK, Serving, InServe
    <3>2. CASE WriteFails(c)
      BY <3>2, <2>0 DEF WriteFails, TypeOK, Serving, InServe
    <3>3. CASE ReadFails(c) \/ TimesOut(c)
      BY <3>3 DEF ReadFails, TimesOut, TypeOK, Serving, InServe
    <3> QED
      BY <1>9, <3>1, <3>2, <3>3
  <2>2. serve[c] \in Serving /\ \E x \in Serving : serve' = [serve EXCEPT ![c] = x]
    BY <1>9 DEF Await, WriteFails, ReadFails, TimesOut, Serving, InServe
  <2> QED
    BY <1>9, <2>1, <2>2, ServedSame DEF Await, WriteFails, ReadFails, TimesOut
<1>10. ASSUME NEW c \in Conn, Handle(c)
       PROVE  TypeOK' /\ Slots'
  <2>1. \E r : \E ok \in BOOLEAN : Take(c, r, ok)
    BY <1>10 DEF Handle, Begin, NegotiateVersion, GetSecretKey, Finalize,
                 Refuse, Advance
  <2>2. /\ serve[c] \in Serving /\ "writing" \in Serving
        /\ serve' = [serve EXCEPT ![c] = "writing"]
        /\ used' = used /\ loop' = loop
    BY <2>1 DEF Take, Serving, InServe
  <2> QED
    BY <1>10, <2>2, HandleTypes, ServedSame
<1>11. ASSUME NEW c \in Conn, Write(c)
       PROVE  TypeOK' /\ Slots'
  <2>1. Append(answers[c], reply[c]) \in Seq(Answer)
    BY AppendProperties DEF TypeOK
  <2>2. TypeOK'
    BY <1>11, <2>1 DEF Write, TypeOK, Serving, InServe, Answer, NoReply, Command
  <2>3. serve[c] \in Serving /\ "top" \in Serving
    BY <1>11 DEF Write, Serving, InServe
  <2> QED
    BY <1>11, <2>2, <2>3, ServedSame DEF Write
<1>12. ASSUME NEW c \in Conn, CloseService(c)
       PROVE  TypeOK' /\ Slots'
  <2>1. <<>> \in Seq(Request) /\ <<>> \in Seq(Answer) /\ <<>> \in Seq(Command)
    BY EmptySeq
  <2>2. TypeOK'
    BY <1>12, <2>1 DEF CloseService, Disconnect, TypeOK, Serving, InServe
  <2>3. serve[c] \in Serving /\ "releasing" \in Serving
    BY <1>12 DEF CloseService, Serving, InServe
  <2> QED
    BY <1>12, <2>2, <2>3, ServedSame DEF CloseService
<1> QED
  BY <1>1, <1>2, <1>3, <1>4, <1>5, <1>6, <1>7, <1>8, <1>9, <1>10, <1>11,
     <1>12 DEF Next, Stopped

LEMMA TypeInvariant == Spec => [](TypeOK /\ Slots /\ InOrder)
<1>1. Init => TypeOK /\ Slots
  <2> SUFFICES ASSUME Init PROVE TypeOK /\ Slots
    OBVIOUS
  <2>1. Served = {}
    BY DEF Init, Served, Serving, InServe
  <2>2. Slots
    BY <2>1, FS_EmptySet DEF Init, Slots
  <2>3. /\ <<>> \in Seq(Request) /\ <<>> \in Seq(Answer) /\ <<>> \in Seq(Command)
        /\ NoReply \in Answer
    BY EmptySeq DEF NoReply, Answer, Command
  <2>4. /\ requests \in [Conn -> Seq(Request)]
        /\ reply \in [Conn -> Answer]
        /\ answers \in [Conn -> Seq(Answer)]
        /\ asked \in [Conn -> Seq(Command)]
        /\ transcript \in [Conn -> Seq(Request)]
    BY <2>3 DEF Init
  <2>7. pairing \in BOOLEAN /\ listening \in BOOLEAN /\ cancelled \in BOOLEAN
    BY Zenon DEF Init
  <2>5. /\ loop \in {"accepting", "draining", "ended"}
        /\ used \in 0..MaxConns
        /\ serve \in [Conn -> Serving \cup {"new", "gone"}]
        /\ handler \in [Conn -> {"none", "spawned", "done"}]
    BY HandshakeAssumption DEF Init
  <2>6. /\ shut \in SUBSET Conn /\ timed \in SUBSET Conn
        /\ ended \in SUBSET Conn /\ left \in SUBSET Conn
        /\ read \in [Conn -> SUBSET Command]
        /\ next \in [Conn -> Command]
        /\ bytes \in [Conn -> Nat]
    BY DEF Init, Command
  <2> QED
    BY <2>2, <2>4, <2>5, <2>6, <2>7 DEF TypeOK
<1>2. Init => InOrder
  <2> SUFFICES ASSUME Init, NEW c \in Conn PROVE Matched(c)
    BY DEF InOrder
  <2>1. /\ asked[c] = <<>> /\ answers[c] = <<>> /\ requests[c] = <<>>
        /\ Writing(c) = 0
    BY DEF Init, Writing
  <2> QED
    BY <2>1, FitsEmpty DEF Matched
<1>3. /\ TypeOK /\ Slots /\ InOrder /\ [Next]_vars
      => (TypeOK /\ Slots /\ InOrder)'
  BY TypeStep, InOrderStep
<1> QED
  BY <1>1, <1>2, <1>3, PTL DEF Spec

\* Every variable keeps its type; nextCmd stays among the commands and the
\* limit of the accept loop is kept.
THEOREM TypeCorrect == Spec => []TypeOK
BY TypeInvariant, PTL

\* acceptLoop's slots: one for each connection that is served, none left when
\* the loop has returned.
THEOREM SlotsAreGivenBack == Spec => []SlotsAreHeld
<1>1. TypeOK /\ Slots => SlotsAreHeld
  <2> SUFFICES ASSUME TypeOK, Slots PROVE SlotsAreHeld
    OBVIOUS
  <2>1. loop = "ended" => used = 0
    BY FS_EmptySet DEF Slots
  <2> QED
    BY <2>1 DEF TypeOK, Slots, Served, SlotsAreHeld
<1> QED
  BY <1>1, TypeInvariant, PTL

Cmds(a) == [i \in DOMAIN a |-> a[i].cmd]
Last(w, x) == IF w = 1 THEN <<x>> ELSE <<>>

\* What fits is a concatenation.
LEMMA FitsConcat ==
  ASSUME NEW s \in Seq(Command), NEW a \in Seq(Answer), NEW w \in {0, 1},
         NEW x \in Command, NEW q \in Seq(Request), Fits(s, a, w, x, q)
  PROVE  s = Cmds(a) \o Last(w, x) \o Cmds(q)
<1> DEFINE b == Cmds(a)
           p == Cmds(q)
           y == Last(w, x)
<1>1. /\ Len(s) \in Nat /\ Len(a) \in Nat /\ Len(q) \in Nat
      /\ DOMAIN a = 1..Len(a) /\ DOMAIN q = 1..Len(q)
  BY LenProperties
<1>2. b \in Seq(Command) /\ Len(b) = Len(a) /\ \A i \in 1..Len(b) : b[i] = a[i].cmd
  <2>1. ASSUME NEW i \in 1..Len(a) PROVE a[i].cmd \in Command
    <3>1. a[i] \in Answer
      BY ElementOfSeq
    <3> QED
      BY <3>1 DEF Answer
  <2> QED
    BY <1>1, <2>1, IsASeq DEF Cmds
<1>3. p \in Seq(Command) /\ Len(p) = Len(q) /\ \A i \in 1..Len(p) : p[i] = q[i].cmd
  <2>1. ASSUME NEW i \in 1..Len(q) PROVE q[i].cmd \in Command
    <3>1. q[i] \in Request
      BY ElementOfSeq
    <3> QED
      BY <3>1 DEF Request
  <2> QED
    BY <1>1, <2>1, IsASeq DEF Cmds
<1>4. y \in Seq(Command) /\ Len(y) = w /\ (w = 1 => y[1] = x)
  BY DEF Last
<1> HIDE DEF b, p, y
<1>5. /\ b \o y \in Seq(Command) /\ Len(b \o y) = Len(b) + Len(y)
      /\ \A i \in 1..(Len(b) + Len(y)) :
           (b \o y)[i] = IF i <= Len(b) THEN b[i] ELSE y[i - Len(b)]
  BY <1>2, <1>4, ConcatProperties
<1>6. PICK e : e = b \o y
  OBVIOUS
<1>7. e \in Seq(Command) /\ Len(e) = Len(a) + w
  BY <1>2, <1>4, <1>5, <1>6
<1>8. \A i \in 1..Len(e) : e[i] = s[i]
  <2> SUFFICES ASSUME NEW i \in 1..Len(e) PROVE e[i] = s[i]
    OBVIOUS
  <2>1. CASE i <= Len(b)
    <3>1. i \in 1..Len(b) /\ i \in 1..Len(a) /\ e[i] = b[i]
      BY <1>1, <1>2, <1>4, <1>5, <1>6, <1>7, <2>1
    <3> QED
      BY <1>2, <3>1 DEF Fits
  <2>2. CASE ~(i <= Len(b))
    <3>1. w = 1 /\ i = Len(a) + 1 /\ e[i] = y[i - Len(b)] /\ i - Len(b) = 1
      BY <1>1, <1>2, <1>4, <1>5, <1>6, <1>7, <2>2
    <3> QED
      BY <1>4, <3>1 DEF Fits
  <2> QED
    BY <2>1, <2>2
<1>9. /\ e \o p \in Seq(Command) /\ Len(e \o p) = Len(e) + Len(p)
       /\ \A i \in 1..(Len(e) + Len(p)) :
            (e \o p)[i] = IF i <= Len(e) THEN e[i] ELSE p[i - Len(e)]
  BY <1>3, <1>7, ConcatProperties
<1>10. Len(e \o p) = Len(s)
  BY <1>1, <1>3, <1>7, <1>9 DEF Fits
<1>11. ASSUME NEW i \in 1..Len(s) PROVE s[i] = (e \o p)[i]
  <2>1. CASE i <= Len(e)
    BY <1>1, <1>7, <1>8, <1>9, <1>10, <2>1
  <2>2. CASE ~(i <= Len(e))
    <3>1. /\ (e \o p)[i] = p[i - Len(e)] /\ i - Len(e) \in 1..Len(q)
          /\ Len(a) + w + (i - Len(e)) = i
      BY <1>1, <1>3, <1>7, <1>9, <1>10, <2>2
    <3> QED
      BY <1>3, <3>1 DEF Fits
  <2> QED
    BY <2>1, <2>2
<1>12. s = e \o p
  BY <1>9, <1>10, <1>11, SeqEqual
<1> QED
  BY <1>12, <1>6 DEF b, p, y

\* Serve answers every request once and in the order of the requests.
THEOREM AnswersKeepOrder == Spec => []AnswersInOrder
<1>1. TypeOK /\ InOrder => AnswersInOrder
  <2> SUFFICES ASSUME TypeOK, NEW c \in Conn, Matched(c)
               PROVE  asked[c] = [i \in DOMAIN answers[c] |-> answers[c][i].cmd]
                        \o (IF serve[c] = "writing" THEN <<reply[c].cmd>> ELSE <<>>)
                        \o [i \in DOMAIN requests[c] |-> requests[c][i].cmd]
    BY DEF InOrder, AnswersInOrder
  <2>1. reply[c].cmd \in Command /\ (Writing(c) = 1 <=> serve[c] = "writing")
    BY QueueTypes DEF Answer, Writing
  <2>2. asked[c] = Cmds(answers[c]) \o Last(Writing(c), reply[c].cmd)
                     \o Cmds(requests[c])
    <3>1. /\ asked[c] \in Seq(Command) /\ answers[c] \in Seq(Answer)
          /\ requests[c] \in Seq(Request) /\ Writing(c) \in {0, 1}
      BY QueueTypes DEF Writing
    <3>2. Fits(asked[c], answers[c], Writing(c), reply[c].cmd, requests[c])
      BY DEF Matched
    <3>3. PICK s \in Seq(Command), a \in Seq(Answer), w \in {0, 1}, x \in Command,
               q \in Seq(Request) :
            s = asked[c] /\ a = answers[c] /\ w = Writing(c)
            /\ x = reply[c].cmd /\ q = requests[c]
      BY <2>1, <3>1
    <3>4. Fits(s, a, w, x, q)
      BY <3>2, <3>3
    <3>5. s = Cmds(a) \o Last(w, x) \o Cmds(q)
      BY <3>4, FitsConcat
    <3> QED
      BY <3>3, <3>5
  <2>3. Last(Writing(c), reply[c].cmd)
          = IF serve[c] = "writing" THEN <<reply[c].cmd>> ELSE <<>>
    BY <2>1 DEF Last
  <2> QED
    BY <2>2, <2>3, Zenon DEF Cmds
<1> QED
  BY <1>1, TypeInvariant, PTL

-----------------------------------------------------------------------------
(* The courses of a handshake: what has succeeded before each command, how   *)
(* many bytes that put into the transcript, and what the peer had read when   *)
(* its digest was accepted.                                                   *)

\* A transcript begins with the first two exchanges.
Opened(t) == t[1].cmd = 1 /\ t[2].cmd = 2

\* The transcript t of b bytes when command n is expected in mode p, where k
\* is what the peer has read.
Course(n, t, b, k, p) ==
  \/ n = 1 /\ Len(t) = 0 /\ b = 0
  \/ n = 2 /\ Len(t) = 1 /\ t[1].cmd = 1 /\ b = 160
  \/ n = 3 /\ Len(t) = 2 /\ Opened(t) /\ p = TRUE /\ b = 241 + t[2].offers
  \/ /\ n = 4 /\ Len(t) = 2 /\ Opened(t) /\ t[2].known = TRUE
     /\ b = 241 + t[2].offers
  \/ /\ n = 4 /\ Len(t) = 3 /\ Opened(t) /\ t[3].cmd = 3 /\ p = TRUE
     /\ b = 337 + t[2].offers
  \/ /\ n = 0 /\ Len(t) = 3 /\ Opened(t) /\ t[2].known = TRUE /\ t[3].cmd = 4
     /\ 1 \in k
  \/ /\ n = 0 /\ Len(t) = 4 /\ Opened(t) /\ t[3].cmd = 3 /\ t[4].cmd = 4
     /\ p = TRUE /\ 1 \in k /\ 3 \in k

\* At least the last block but one has been hashed.
LEMMA FlushedBound ==
  ASSUME NEW n \in Nat
  PROVE  n - 63 <= Flushed(n)
BY DEF Flushed, Block

\* The digest of finalize takes in the nonce, and the key if one was sent:
\* no more than 63 bytes are left in the buffer, and the key alone has 64.
LEMMA DigestHasSecrets ==
  ASSUME TypeOK, NEW c \in Conn, next[c] = 4,
         Course(next[c], transcript[c], bytes[c], read[c], pairing)
  PROVE  1 \in Secrets(c) /\ (Len(transcript[c]) = 3 => 3 \in Secrets(c))
<1>1. PICK t \in Seq(Request), b \in Nat : t = transcript[c] /\ b = bytes[c]
  BY DEF TypeOK
<1>2. \/ Len(t) = 2 /\ b = 241 + t[2].offers
      \/ Len(t) = 3 /\ t[3].cmd = 3 /\ b = 337 + t[2].offers
  BY <1>1 DEF Course
<1>3. t[2].offers \in 1..255
  <2>1. Len(t) \in Nat /\ 2 \in 1..Len(t)
    BY <1>2, LenProperties
  <2>2. t[2] \in Request
    BY <2>1, ElementOfSeq
  <2> QED
    BY <2>2 DEF Request
<1>4. 242 <= b
  <2>1. PICK o \in 1..255 : o = t[2].offers
    BY <1>3
  <2>2. b = 241 + o \/ b = 337 + o
    BY <1>2, <2>1
  <2> QED
    BY <2>2
<1>5. Flushed(b) \in Int /\ b - 63 <= Flushed(b)
  BY FlushedBound DEF Flushed, Block
<1>6. 128 < Flushed(b) /\ b - 64 < Flushed(b)
  BY <1>4, <1>5
<1>7. 1 \in Secrets(c)
  BY <1>1, <1>6 DEF Secrets, NonceAt
<1>8. ASSUME Len(t) = 3
      PROVE  3 \in Secrets(c)
  <2>1. 3 \in DOMAIN t /\ t[3].cmd = 3
    BY <1>2, <1>8, LenProperties
  <2> QED
    BY <1>1, <1>6, <2>1 DEF Secrets, KeyAt
<1> QED
  BY <1>1, <1>7, <1>8

\* The command after n, when r succeeds.
After(n, r) == IF n = 1 THEN 2
               ELSE IF n = 2 THEN (IF r.known THEN 4 ELSE 3)
               ELSE IF n = 3 THEN 4 ELSE 0

\* A command that succeeds goes on along its course.
LEMMA CourseNext ==
  ASSUME NEW t \in Seq(Request), NEW r \in Request, NEW n \in 1..4,
         NEW b \in Nat, NEW k \in SUBSET Command, NEW p \in BOOLEAN,
         Course(n, t, b, k, p), r.cmd = n,
         n = 2 => (r.known = TRUE \/ p = TRUE),
         n = 4 => 1 \in k /\ (Len(t) = 3 => 3 \in k)
  PROVE  Course(After(n, r), Append(t, r), b + Length(r), k, p)
<1>1. /\ Len(Append(t, r)) = Len(t) + 1
      /\ Append(t, r)[Len(t) + 1] = r
      /\ \A i \in 1..Len(t) : Append(t, r)[i] = t[i]
      /\ Len(t) \in Nat
  BY AppendProperties, LenProperties
<1>2. PICK u \in Seq(Request) : u = Append(t, r)
  BY AppendProperties
<1>3. r.offers \in 1..255 /\ r.known \in BOOLEAN
  BY DEF Request
<1>4. CASE n = 1
  <2>1. Len(t) = 0 /\ b = 0
    BY <1>4 DEF Course
  <2>2. Len(u) = 1 /\ u[1] = r /\ b + Length(r) = 160
    BY <1>1, <1>2, <1>4, <2>1 DEF Length
  <2> QED
    BY <1>2, <1>4, <2>2 DEF Course, After
<1>5. CASE n = 2
  <2>1. Len(t) = 1 /\ t[1].cmd = 1 /\ b = 160
    BY <1>5 DEF Course
  <2>2. Len(u) = 2 /\ Opened(u) /\ u[2] = r
    BY <1>1, <1>2, <1>5, <2>1 DEF Opened
  <2>3. b + Length(r) = 241 + u[2].offers
    <3>1. PICK o \in 1..255 : o = r.offers
      BY <1>3
    <3>2. Length(r) = 81 + o
      BY <1>5, <3>1 DEF Length
    <3>3. b + Length(r) = 241 + o
      BY <2>1, <3>2
    <3> QED
      BY <2>2, <3>1, <3>3
  <2>4. CASE r.known = TRUE
    BY <1>2, <1>5, <2>2, <2>3, <2>4 DEF Course, After
  <2>5. CASE r.known = FALSE
    BY <1>2, <1>5, <2>2, <2>3, <2>5 DEF Course, After
  <2> QED
    BY <1>3, <2>4, <2>5
<1>6. CASE n = 3
  <2>1. Len(t) = 2 /\ Opened(t) /\ p = TRUE /\ b = 241 + t[2].offers
    BY <1>6 DEF Course
  <2>2. PICK o \in 1..255 : o = t[2].offers
    <3>1. 2 \in 1..Len(t)
      BY <2>1
    <3>2. t[2] \in Request
      BY <3>1, ElementOfSeq
    <3> QED
      BY <3>2 DEF Request
  <2>3. /\ Len(u) = 3 /\ u[1] = t[1] /\ u[2] = t[2] /\ u[3] = r
        /\ Length(r) = 96
    BY <1>1, <1>2, <1>6, <2>1 DEF Length
  <2>4. b + Length(r) = 337 + u[2].offers
    <3>1. b = 241 + o /\ u[2].offers = o
      BY <2>1, <2>2, <2>3
    <3>2. PICK l \in Nat : l = Length(r) /\ l = 96
      BY <2>3
    <3>3. b + l = 337 + o
      BY <3>1, <3>2
    <3> QED
      BY <3>1, <3>2, <3>3
  <2> QED
    BY <1>2, <1>6, <2>1, <2>3, <2>4 DEF Course, After, Opened
<1>7. CASE n = 4
  <2>1. \/ Len(t) = 2 /\ Opened(t) /\ t[2].known = TRUE
        \/ Len(t) = 3 /\ Opened(t) /\ t[3].cmd = 3 /\ p = TRUE
    BY <1>7 DEF Course
  <2>2. After(n, r) = 0
    BY <1>7 DEF After
  <2>3. CASE Len(t) = 2
    <3>1. Len(u) = 3 /\ u[1] = t[1] /\ u[2] = t[2] /\ u[3] = r
      BY <1>1, <1>2, <2>3
    <3> QED
      BY <1>2, <1>7, <2>1, <2>2, <2>3, <3>1 DEF Course, Opened
  <2>4. CASE Len(t) = 3
    <3>1. Len(u) = 4 /\ u[1] = t[1] /\ u[2] = t[2] /\ u[3] = t[3] /\ u[4] = r
      BY <1>1, <1>2, <2>4
    <3> QED
      BY <1>2, <1>7, <2>1, <2>2, <2>4, <3>1 DEF Course, Opened
  <2> QED
    BY <2>1, <2>3, <2>4
<1> QED
  BY <1>4, <1>5, <1>6, <1>7

\* What a peer reads later takes nothing away.
LEMMA CourseGrows ==
  ASSUME NEW n, NEW t, NEW b, NEW k, NEW l, NEW p,
         Course(n, t, b, k, p), k \subseteq l
  PROVE  Course(n, t, b, l, p)
BY DEF Course

\* Of a connection: its course; the requests on their way claim no more than
\* their sender has read; nothing has happened to it before it is accepted;
\* and a read with a deadline is one before the handshake is done.
Sane(c) ==
  /\ Course(next[c], transcript[c], bytes[c], read[c], pairing)
  /\ \A i \in 1..Len(requests[c]) : requests[c][i].knew \subseteq read[c]
  /\ serve[c] = "new" => next[c] = 1
  /\ serve[c] = "reading" /\ c \in timed => next[c] # 0

Sanity == \A c \in Conn : Sane(c)

\* A request that is taken.
LEMMA SaneTake ==
  ASSUME TypeOK, NEW c \in Conn, Sane(c), requests[c] # <<>>,
         NEW ok \in BOOLEAN, Take(c, Head(requests[c]), ok)
  PROVE  /\ \A i \in 1..Len(requests'[c]) :
              requests'[c][i].knew \subseteq read'[c]
         /\ serve'[c] = "writing" /\ read'[c] = read[c] /\ pairing' = pairing
         /\ Head(requests[c]).knew \subseteq read[c]
<1>1. /\ requests'[c] = Tail(requests[c]) /\ read' = read /\ pairing' = pairing
      /\ serve'[c] = "writing"
  BY DEF Take, TypeOK, loopVars
<1>2. PICK q \in Seq(Request) : q = requests[c]
  BY DEF TypeOK
<1>3. /\ Len(q) \in Nat /\ 1 \in 1..Len(q) /\ Head(q) = q[1]
      /\ Len(Tail(q)) = Len(q) - 1
      /\ \A i \in 1..(Len(q) - 1) : Tail(q)[i] = q[i + 1] /\ i + 1 \in 1..Len(q)
  BY <1>2, HeadTailProperties, EmptySeq, LenProperties
<1>4. \A i \in 1..Len(q) : q[i].knew \subseteq read[c]
  BY <1>2 DEF Sane
<1>5. \A i \in 1..Len(Tail(q)) : Tail(q)[i].knew \subseteq read[c]
  BY <1>3, <1>4
<1> QED
  BY <1>1, <1>2, <1>3, <1>4, <1>5

\* A step of the handshake.
LEMMA SaneHandle ==
  ASSUME TypeOK, NEW c \in Conn, Sane(c), Handle(c)
  PROVE  Sane(c)'
<1>1. PICK r \in Request : r = Head(requests[c])
  BY HeadTailProperties DEF Handle, TypeOK
<1>2. requests[c] # <<>>
  BY DEF Handle
<1>3. CASE Refuse(c, r)
  <2>1. Take(c, Head(requests[c]), FALSE) /\ UNCHANGED stepVars
    BY <1>1, <1>3 DEF Refuse
  <2> QED
    BY <1>2, <2>1, SaneTake DEF Sane, stepVars
<1>4. ASSUME Accepts(c, r), Advance(c, r, After(next[c], r))
      PROVE  Sane(c)'
  <2>1. /\ next[c] \in 1..4 /\ r.cmd = next[c]
        /\ next[c] = 2 => (r.known = TRUE \/ pairing = TRUE)
    BY <1>4 DEF Accepts, TypeOK, Command
  <2>2. Take(c, Head(requests[c]), TRUE)
    BY <1>1, <1>4 DEF Advance
  <2>3. r.knew \subseteq read[c]
    BY <1>1, <1>2, <2>2, SaneTake
  <2>4. ASSUME next[c] = 4
        PROVE  1 \in read[c] /\ (Len(transcript[c]) = 3 => 3 \in read[c])
    <3>1. Secrets(c) \subseteq r.knew
      BY <1>4, <2>1, <2>4 DEF Accepts, DigestMatches
    <3> QED
      BY <2>3, <2>4, <3>1, DigestHasSecrets DEF Sane
  <2>5. Course(After(next[c], r), Append(transcript[c], r),
               bytes[c] + Length(r), read[c], pairing)
    <3>1. /\ transcript[c] \in Seq(Request) /\ bytes[c] \in Nat
          /\ read[c] \in SUBSET Command /\ pairing \in BOOLEAN
      BY DEF TypeOK
    <3>2. Course(next[c], transcript[c], bytes[c], read[c], pairing)
      BY DEF Sane
    <3> QED
      BY <2>1, <2>4, <3>1, <3>2, CourseNext
  <2>6. /\ next'[c] = After(next[c], r)
        /\ transcript'[c] = Append(transcript[c], r)
        /\ bytes'[c] = bytes[c] + Length(r)
    BY <1>4 DEF Advance, TypeOK
  <2> QED
    BY <1>2, <2>2, <2>5, <2>6, SaneTake DEF Sane
<1>5. ASSUME Begin(c, r) \/ NegotiateVersion(c, r) \/ GetSecretKey(c, r)
             \/ Finalize(c, r)
      PROVE  Accepts(c, r) /\ Advance(c, r, After(next[c], r))
  BY <1>5 DEF Begin, NegotiateVersion, GetSecretKey, Finalize, Accepts, After
<1> QED
  BY <1>1, <1>3, <1>4, <1>5 DEF Handle

\* The rest of Next leaves the handshake alone.
LEMMA SanityStep ==
  ASSUME TypeOK, Sanity, [Next]_vars
  PROVE  Sanity'
<1> SUFFICES ASSUME NEW d \in Conn PROVE Sane(d)'
  BY DEF Sanity
<1>1. Sane(d) /\ requests[d] \in Seq(Request)
  BY DEF Sanity, TypeOK
<1> DEFINE Kept == /\ next'[d] = next[d] /\ transcript'[d] = transcript[d]
                   /\ bytes'[d] = bytes[d] /\ pairing' = pairing
                   /\ read[d] \subseteq read'[d]
                   /\ requests'[d] = requests[d] \/ requests'[d] = <<>>
                   /\ serve'[d] = "new" => serve[d] = "new"
                   /\ serve'[d] = "reading" /\ d \in timed' =>
                        \/ serve[d] = "reading" /\ d \in timed
                        \/ next[d] # 0
<1>2. ASSUME Kept PROVE Sane(d)'
  <2>1. Course(next[d], transcript[d], bytes[d], read'[d], pairing)
    BY <1>1, <1>2, CourseGrows DEF Sane
  <2>2. \A i \in 1..Len(requests'[d]) : requests'[d][i].knew \subseteq read'[d]
    <3>1. CASE requests'[d] = requests[d]
      BY <1>1, <1>2, <3>1 DEF Sane
    <3>2. CASE requests'[d] = <<>>
      BY <3>2, EmptySeq
    <3> QED
      BY <1>2, <3>1, <3>2
  <2> QED
    BY <1>1, <1>2, <2>1, <2>2 DEF Sane
<1> USE DEF loopVars, peerVars, stepVars
<1>3. CASE CloseListener \/ Cancel \/ StopAccepting \/ EndLoop \/ UNCHANGED vars
  <2>1. Kept
    BY <1>3 DEF CloseListener, Cancel, StopAccepting, EndLoop, vars
  <2> QED
    BY <1>2, <2>1
<1>4. ASSUME NEW c \in Conn,
             \/ Accept(c) \/ Drop(c) \/ EndPeer(c) \/ CancelCloses(c)
             \/ RunHandler(c) \/ CloseDevice(c) \/ Write(c) \/ WriteFails(c)
             \/ ReadFails(c) \/ TimesOut(c) \/ Release(c)
      PROVE  Sane(d)'
  <2>1. Kept
    BY <1>4 DEF Accept, Drop, EndPeer, CancelCloses, RunHandler, CloseDevice,
                Write, WriteFails, ReadFails, TimesOut, Release, TypeOK
  <2> QED
    BY <1>2, <2>1
<1>5. ASSUME NEW c \in Conn, Await(c)
      PROVE  Sane(d)'
  <2>1. Kept
    BY <1>5 DEF Await, done, TypeOK
  <2> QED
    BY <1>2, <2>1
<1>6. ASSUME NEW c \in Conn, CloseService(c)
      PROVE  Sane(d)'
  <2>1. Kept
    BY <1>6 DEF CloseService, Disconnect, TypeOK
  <2> QED
    BY <1>2, <2>1
<1>7. ASSUME NEW c \in Conn, ReadAnswer(c)
      PROVE  Sane(d)'
  <2>1. read[d] \subseteq read'[d]
    BY <1>7 DEF ReadAnswer, TypeOK
  <2>2. Kept
    BY <1>7, <2>1 DEF ReadAnswer
  <2> QED
    BY <1>2, <2>2
<1>8. ASSUME NEW c \in Conn, Handle(c)
      PROVE  Sane(d)'
  <2>1. CASE c = d
    BY <1>1, <1>8, <2>1, SaneHandle
  <2>2. CASE c # d
    <3>1. Kept
      BY <1>8, <2>2 DEF Handle, Begin, NegotiateVersion, GetSecretKey, Finalize,
                        Refuse, Advance, Take, TypeOK
    <3> QED
      BY <1>2, <3>1
  <2> QED
    BY <2>1, <2>2
<1>9. ASSUME NEW c \in Conn, Ask(c)
      PROVE  Sane(d)'
  <2>1. CASE c # d
    <3>1. Kept
      BY <1>9, <2>1 DEF Ask, TypeOK
    <3> QED
      BY <1>2, <3>1
  <2>2. CASE c = d
    <3>1. PICK q \in Request :
            requests'[d] = Append(requests[d], q) /\ q.knew \subseteq read[d]
      <4>1. PICK r \in Says[d] :
              requests' = [requests EXCEPT
                ![d] = Append(@,
                  [r EXCEPT !.knew = IF r.cmd = 4 THEN read[d] ELSE {}])]
        BY <1>9, <2>2 DEF Ask
      <4>2. r \in Request
        BY HandshakeAssumption
      <4>3. (IF r.cmd = 4 THEN read[d] ELSE {}) \in SUBSET read[d]
        OBVIOUS
      <4>4. /\ [r EXCEPT !.knew = IF r.cmd = 4 THEN read[d] ELSE {}] \in Request
            /\ [r EXCEPT !.knew = IF r.cmd = 4 THEN read[d] ELSE {}].knew
                 \subseteq read[d]
        BY <4>2, <4>3 DEF Request, TypeOK
      <4> QED
        BY <4>1, <4>4 DEF TypeOK
    <3>2. \A i \in 1..Len(requests'[d]) : requests'[d][i].knew \subseteq read[d]
      BY <1>1, <3>1, AppendProperties DEF Sane
    <3>3. /\ read' = read /\ next' = next /\ transcript' = transcript
          /\ bytes' = bytes /\ pairing' = pairing /\ serve' = serve
          /\ timed' = timed
      BY <1>9 DEF Ask
    <3> QED
      BY <1>1, <3>2, <3>3 DEF Sane
  <2> QED
    BY <2>1, <2>2
<1> QED
  BY <1>3, <1>4, <1>5, <1>6, <1>7, <1>8, <1>9 DEF Next, Stopped

LEMMA SanityInvariant == Spec => [](TypeOK /\ Sanity)
<1>1. Init => Sanity
  <2> SUFFICES ASSUME Init, NEW c \in Conn PROVE Sane(c)
    BY DEF Sanity
  <2>1. /\ next[c] = 1 /\ transcript[c] = <<>> /\ bytes[c] = 0
        /\ requests[c] = <<>> /\ serve[c] = "new"
    BY DEF Init
  <2> QED
    BY <2>1, EmptySeq DEF Sane, Course
<1>2. TypeOK /\ Sanity /\ [Next]_vars => Sanity'
  BY SanityStep
<1> QED
  BY <1>1, <1>2, TypeInvariant, PTL DEF Spec

\* finalize ends one of the two courses.
THEOREM Establishment == Spec => []EstablishedProperly
<1>1. TypeOK /\ Sanity => EstablishedProperly
  <2> SUFFICES ASSUME TypeOK, Sanity, NEW c \in Conn, next[c] = 0
               PROVE  \/ commands(c) = <<1, 2, 4>> /\ transcript[c][2].known
                      \/ commands(c) = <<1, 2, 3, 4>> /\ pairing
    BY DEF EstablishedProperly, done
  <2>1. PICK t \in Seq(Request) : t = transcript[c]
    BY DEF TypeOK
  <2>2. /\ DOMAIN t = 1..Len(t)
        /\ commands(c) = [i \in DOMAIN t |-> t[i].cmd]
    BY <2>1, LenProperties DEF commands
  <2>3. \/ /\ Len(t) = 3 /\ t[1].cmd = 1 /\ t[2].cmd = 2 /\ t[3].cmd = 4
           /\ t[2].known = TRUE
        \/ /\ Len(t) = 4 /\ t[1].cmd = 1 /\ t[2].cmd = 2 /\ t[3].cmd = 3
           /\ t[4].cmd = 4 /\ pairing = TRUE
    BY <2>1 DEF Sanity, Sane, Course, Opened
  <2>4. \/ commands(c) = <<1, 2, 4>> /\ t[2].known = TRUE
        \/ commands(c) = <<1, 2, 3, 4>> /\ pairing = TRUE
    <3>1. CASE Len(t) = 3
      <4>1. DOMAIN t = {1, 2, 3}
        BY <2>2, <3>1
      <4>2. /\ commands(c) = [i \in {1, 2, 3} |-> <<1, 2, 4>>[i]]
            /\ t[2].known = TRUE
        BY <2>2, <2>3, <3>1, <4>1
      <4>3. <<1, 2, 4>> = [i \in {1, 2, 3} |-> <<1, 2, 4>>[i]]
        OBVIOUS
      <4> QED
        BY <4>2, <4>3
    <3>2. CASE Len(t) = 4
      <4>1. DOMAIN t = {1, 2, 3, 4}
        BY <2>2, <3>2
      <4>2. /\ commands(c) = [i \in {1, 2, 3, 4} |-> <<1, 2, 3, 4>>[i]]
            /\ pairing = TRUE
        BY <2>2, <2>3, <3>2, <4>1
      <4>3. <<1, 2, 3, 4>> = [i \in {1, 2, 3, 4} |-> <<1, 2, 3, 4>>[i]]
        OBVIOUS
      <4> QED
        BY <4>2, <4>3
    <3> QED
      BY <2>3, <3>1, <3>2
  <2> QED
    BY <2>1, <2>4
<1> QED
  BY <1>1, SanityInvariant, PTL

\* Whatever the versions offered, who finalizes has read the nonce, and the
\* key if it was sent.
THEOREM DigestProvesReading == Spec => []PeerHasAnswers
<1>1. TypeOK /\ Sanity => PeerHasAnswers
  <2> SUFFICES ASSUME TypeOK, Sanity, NEW c \in Conn, next[c] = 0,
                      NEW i \in DOMAIN transcript[c],
                      transcript[c][i].cmd \in {1, 3}
               PROVE  transcript[c][i].cmd \in read[c]
    BY DEF PeerHasAnswers, done
  <2>1. PICK t \in Seq(Request) : t = transcript[c]
    BY DEF TypeOK
  <2>2. i \in 1..Len(t)
    BY <2>1, LenProperties
  <2>3. \/ /\ Len(t) = 3 /\ t[1].cmd = 1 /\ t[2].cmd = 2 /\ t[3].cmd = 4
           /\ 1 \in read[c]
        \/ /\ Len(t) = 4 /\ t[1].cmd = 1 /\ t[2].cmd = 2 /\ t[3].cmd = 3
           /\ t[4].cmd = 4 /\ 1 \in read[c] /\ 3 \in read[c]
    BY <2>1 DEF Sanity, Sane, Course, Opened
  <2> QED
    BY <2>1, <2>2, <2>3
<1> QED
  BY <1>1, SanityInvariant, PTL

\* What a peer reads is what it was sent, in the order of its requests, and
\* an accepted digest shows that it has read it.
THEOREM AnswersArrive == Spec => []AnswersMatch
<1>1. AnswersInOrder /\ PeerHasAnswers => AnswersMatch
  BY DEF AnswersMatch
<1> QED
  BY <1>1, AnswersKeepOrder, DigestProvesReading, PTL

\* No deadline ends a connection whose handshake is done.
THEOREM EstablishedMayIdle == Spec => EstablishedStays
<1> DEFINE Stays == \A c \in Conn :
             done(c) /\ serve[c] = "reading" /\ serve'[c] = "returning"
               => c \in shut \cup ended
<1>1. TypeOK /\ Sanity /\ [Next]_vars => [Stays]_vars
  <2> SUFFICES ASSUME TypeOK, Sanity, Next, NEW d \in Conn, next[d] = 0,
                      serve[d] = "reading", serve'[d] = "returning"
               PROVE  d \in shut \cup ended
    BY DEF done
  <2>1. d \notin timed
    BY DEF Sanity, Sane
  <2>2. CASE CloseListener \/ Cancel \/ StopAccepting \/ EndLoop \/ Stopped
    BY <2>2 DEF CloseListener, Cancel, StopAccepting, EndLoop, Stopped, vars
  <2>3. ASSUME NEW c \in Conn,
               \/ Accept(c) \/ Drop(c) \/ Ask(c) \/ ReadAnswer(c) \/ EndPeer(c)
               \/ Await(c) \/ Write(c) \/ WriteFails(c) \/ CancelCloses(c)
               \/ CloseService(c) \/ Release(c) \/ RunHandler(c)
               \/ CloseDevice(c)
        PROVE  FALSE
    BY <2>3 DEF Accept, Drop, Ask, ReadAnswer, EndPeer, Await, Write, WriteFails,
                CancelCloses, CloseService, Release, RunHandler, CloseDevice,
                TypeOK
  <2>4. ASSUME NEW c \in Conn, Handle(c)
        PROVE  FALSE
    BY <2>4 DEF Handle, Begin, NegotiateVersion, GetSecretKey, Finalize, Refuse,
                Advance, Take, TypeOK
  <2>5. ASSUME NEW c \in Conn, ReadFails(c) \/ TimesOut(c)
        PROVE  d \in shut \cup ended
    BY <2>1, <2>5 DEF ReadFails, TimesOut, TypeOK
  <2> QED
    BY <2>2, <2>3, <2>4, <2>5 DEF Next
<1> QED
  BY <1>1, SanityInvariant, PTL DEF Spec, EstablishedStays

-----------------------------------------------------------------------------
(* What the Manager sees of a connection.                                    *)

\* The stage and the arrival of ConnLife, as Handshake maps them.
Stage(c) == IF serve[c] = "new" THEN "new"
            ELSE IF serve[c] \in {"releasing", "gone"} THEN "down"
            ELSE IF done(c) THEN "up" ELSE "open"
Arrival(c) == IF handler[c] = "spawned" THEN "due"
              ELSE IF handler[c] = "done" THEN "told" ELSE "none"
stages == [c \in Conn |-> Stage(c)]
arrivals == [c \in Conn |-> Arrival(c)]

\* The steps of ConnLife, in these terms.
LEMMA LifeSteps ==
  ASSUME NEW c \in Conn
  PROVE  /\ /\ Stage(c) = "new" /\ stages' = [stages EXCEPT ![c] = "open"]
            /\ arrivals' = arrivals /\ left' = left
            => Life!Open(c)
         /\ /\ Stage(c) \in {"new", "open"}
            /\ stages' = [stages EXCEPT ![c] = "down"]
            /\ arrivals' = arrivals /\ left' = left
            => Life!Fail(c)
         /\ /\ Stage(c) = "open" /\ stages' = [stages EXCEPT ![c] = "up"]
            /\ arrivals' = [arrivals EXCEPT ![c] = "due"] /\ left' = left
            => Life!Establish(c)
         /\ /\ Arrival(c) = "due"
            /\ arrivals' = [arrivals EXCEPT ![c] = "told"]
            /\ stages' = stages /\ left' = left
            => Life!Announce(c)
         /\ /\ Stage(c) = "up" /\ stages' = [stages EXCEPT ![c] = "down"]
            /\ left' = left \cup {c} /\ arrivals' = arrivals
            => Life!Depart(c)
         /\ stages' = stages /\ arrivals' = arrivals /\ left' = left
            => UNCHANGED Life!vars
BY DEF Life!Open, Life!Fail, Life!Establish, Life!Announce, Life!Depart,
       Life!vars, stages, arrivals, Stage, Arrival

\* Every step is one of ConnLife's or none.
LEMMA LifeStep ==
  ASSUME TypeOK, Sanity, [Next]_vars
  PROVE  [Life!Next]_(Life!vars)
<1> USE DEF loopVars, peerVars, stepVars
<1>1. ASSUME stages' = stages, arrivals' = arrivals, left' = left
      PROVE  [Life!Next]_(Life!vars)
  <2>1. CASE Conn = {}
    BY <1>1, <2>1 DEF Life!vars, stages, arrivals, Stage, Arrival
  <2>2. CASE Conn # {}
    BY <1>1, <2>2, LifeSteps
  <2> QED
    BY <2>1, <2>2
<1>2. CASE CloseListener \/ Cancel \/ StopAccepting \/ EndLoop \/ UNCHANGED vars
  <2>1. serve' = serve /\ next' = next /\ handler' = handler /\ left' = left
    BY <1>2 DEF CloseListener, Cancel, StopAccepting, EndLoop, vars
  <2> QED
    BY <1>1, <2>1 DEF stages, arrivals, Stage, Arrival, done
<1>3. ASSUME NEW c \in Conn, Ask(c) \/ ReadAnswer(c) \/ EndPeer(c)
                             \/ CancelCloses(c) \/ CloseDevice(c)
      PROVE  [Life!Next]_(Life!vars)
  <2>1. serve' = serve /\ next' = next /\ handler' = handler /\ left' = left
    BY <1>3 DEF Ask, ReadAnswer, EndPeer, CancelCloses, CloseDevice
  <2> QED
    BY <1>1, <2>1 DEF stages, arrivals, Stage, Arrival, done
<1>4. ASSUME NEW c \in Conn,
             \/ Await(c) \/ Write(c) \/ WriteFails(c) \/ ReadFails(c)
             \/ TimesOut(c) \/ Release(c)
      PROVE  [Life!Next]_(Life!vars)
  <2>1. next' = next /\ handler' = handler /\ left' = left
    BY <1>4 DEF Await, Write, WriteFails, ReadFails, TimesOut, Release
  <2>2. ASSUME NEW d \in Conn
        PROVE  Stage(d)' = Stage(d)
    BY <1>4, <2>1 DEF Await, Write, WriteFails, ReadFails, TimesOut, Release,
                      Stage, done, TypeOK
  <2>3. stages' = stages
    BY <2>2 DEF stages
  <2>4. arrivals' = arrivals
    BY <2>1 DEF arrivals, Arrival
  <2> QED
    BY <1>1, <2>1, <2>3, <2>4
<1>5. ASSUME NEW c \in Conn, Accept(c)
      PROVE  [Life!Next]_(Life!vars)
  <2>1. Stage(c) = "new" /\ Stage(c)' = "open"
    BY <1>5 DEF Accept, Stage, Sanity, Sane, done, TypeOK
  <2>2. \A d \in Conn \ {c} : Stage(d)' = Stage(d)
    BY <1>5 DEF Accept, Stage, done, TypeOK
  <2>3. arrivals' = arrivals /\ left' = left
    BY <1>5 DEF Accept, arrivals, Arrival
  <2>4. stages' = [stages EXCEPT ![c] = "open"]
    BY <2>1, <2>2 DEF stages
  <2> QED
    BY <2>1, <2>3, <2>4, LifeSteps DEF Life!Next
<1>6. ASSUME NEW c \in Conn, Drop(c)
      PROVE  [Life!Next]_(Life!vars)
  <2>1. Stage(c) = "new" /\ Stage(c)' = "down"
    BY <1>6 DEF Drop, Stage, TypeOK
  <2>2. \A d \in Conn \ {c} : Stage(d)' = Stage(d)
    BY <1>6 DEF Drop, Stage, done, TypeOK
  <2>3. arrivals' = arrivals /\ left' = left
    BY <1>6 DEF Drop, arrivals, Arrival
  <2>4. stages' = [stages EXCEPT ![c] = "down"]
    BY <2>1, <2>2 DEF stages
  <2> QED
    BY <2>1, <2>3, <2>4, LifeSteps DEF Life!Next
<1>7. ASSUME NEW c \in Conn, CloseService(c)
      PROVE  [Life!Next]_(Life!vars)
  <2>1. Stage(c) = (IF next[c] = 0 THEN "up" ELSE "open") /\ Stage(c)' = "down"
    BY <1>7 DEF CloseService, Stage, done, TypeOK
  <2>2. \A d \in Conn \ {c} : Stage(d)' = Stage(d)
    BY <1>7 DEF CloseService, Stage, done, TypeOK
  <2>3. arrivals' = arrivals
    BY <1>7 DEF CloseService, arrivals, Arrival
  <2>4. stages' = [stages EXCEPT ![c] = "down"]
    BY <2>1, <2>2 DEF stages
  <2>5. left' = IF next[c] = 0 THEN left \cup {c} ELSE left
    BY <1>7 DEF CloseService, done
  <2> QED
    BY <2>1, <2>3, <2>4, <2>5, LifeSteps DEF Life!Next
<1>8. ASSUME NEW c \in Conn, RunHandler(c)
      PROVE  [Life!Next]_(Life!vars)
  <2>1. Arrival(c) = "due" /\ Arrival(c)' = "told"
    BY <1>8 DEF RunHandler, Arrival, TypeOK
  <2>2. \A d \in Conn \ {c} : Arrival(d)' = Arrival(d)
    BY <1>8 DEF RunHandler, Arrival, TypeOK
  <2>3. stages' = stages /\ left' = left
    BY <1>8 DEF RunHandler, stages, Stage, done
  <2>4. arrivals' = [arrivals EXCEPT ![c] = "told"]
    BY <2>1, <2>2 DEF arrivals
  <2> QED
    BY <2>1, <2>3, <2>4, LifeSteps DEF Life!Next
<1>9. ASSUME NEW c \in Conn, Handle(c)
      PROVE  [Life!Next]_(Life!vars)
  <2> DEFINE r == Head(requests[c])
  <2>1. /\ serve[c] = "reading" /\ serve' = [serve EXCEPT ![c] = "writing"]
        /\ left' = left
        /\ \A d \in Conn \ {c} : next'[d] = next[d]
    BY <1>9 DEF Handle, Begin, NegotiateVersion, GetSecretKey, Finalize, Refuse,
                Advance, Take, TypeOK
  <2>2. \A d \in Conn \ {c} : Stage(d)' = Stage(d)
    BY <2>1 DEF Stage, done, TypeOK
  <2>3. CASE Finalize(c, r)
    <3>1. next[c] = 4 /\ next'[c] = 0 /\ handler' = [handler EXCEPT ![c] = "spawned"]
      BY <2>3 DEF Finalize, Accepts, Advance, TypeOK
    <3>2. Stage(c) = "open" /\ Stage(c)' = "up"
      BY <2>1, <3>1 DEF Stage, done, TypeOK
    <3>3. stages' = [stages EXCEPT ![c] = "up"]
      BY <2>2, <3>2 DEF stages
    <3>4. arrivals' = [arrivals EXCEPT ![c] = "due"]
      BY <3>1 DEF arrivals, Arrival, TypeOK
    <3> QED
      BY <2>1, <3>2, <3>3, <3>4, LifeSteps DEF Life!Next
  <2>4. CASE Begin(c, r) \/ NegotiateVersion(c, r) \/ GetSecretKey(c, r)
             \/ Refuse(c, r)
    <3>1. (next'[c] = 0 <=> next[c] = 0) /\ handler' = handler
      <4>1. CASE Refuse(c, r)
        BY <4>1 DEF Refuse
      <4>2. CASE Begin(c, r)
        BY <4>2 DEF Begin, Accepts, Advance, TypeOK
      <4>3. CASE NegotiateVersion(c, r)
        <5>1. /\ next[c] = 2 /\ handler' = handler
              /\ next'[c] = IF r.known THEN 4 ELSE 3
          BY <4>3 DEF NegotiateVersion, Accepts, Advance, TypeOK
        <5> QED
          BY <5>1
      <4>4. CASE GetSecretKey(c, r)
        BY <4>4 DEF GetSecretKey, Accepts, Advance, TypeOK
      <4> QED
        BY <2>4, <4>1, <4>2, <4>3, <4>4
    <3>2. Stage(c)' = Stage(c)
      BY <2>1, <3>1 DEF Stage, done, TypeOK
    <3>3. stages' = stages
      BY <2>2, <3>2 DEF stages
    <3> QED
      BY <1>1, <2>1, <3>1, <3>3 DEF arrivals, Arrival
  <2> QED
    BY <1>9, <2>3, <2>4 DEF Handle
<1> QED
  BY <1>2, <1>3, <1>4, <1>5, <1>6, <1>7, <1>8, <1>9 DEF Next, Stopped

\* Handshake implements ConnLife.
THEOREM ConnectionsLive == Spec => LifeSpec
<1>1. Init => Life!Init
  BY DEF Init, Life!Init
<1>2. TypeOK /\ Sanity /\ [Next]_vars => [Life!Next]_(Life!vars)
  BY LifeStep
<1> QED
  BY <1>1, <1>2, SanityInvariant, PTL DEF Spec, LifeSpec, Life!Spec

=============================================================================
