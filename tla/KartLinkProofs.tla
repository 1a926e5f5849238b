--------------------------- MODULE KartLinkProofs ---------------------------
(***************************************************************************)
(* The session with a kart, for any callers, commands and bounds.          *)
(*                                                                         *)
(* That an answer is only taken for another request after some request was *)
(* given up rests on counting.  The parts of answers are numbered in the   *)
(* order the kart sends them, so the part a caller reads next has a known  *)
(* number; the request whose part that is belongs to the one caller in an  *)
(* exchange, or a request no later than it was given up.                   *)
(***************************************************************************)
EXTENDS KartLink, SequenceTheorems, TLAPS

-----------------------------------------------------------------------------
(* Types.                                                                  *)

\* Giving up a call and taking an answer keep the types of what a call keeps.
LEMMA ReturnTypes ==
  ASSUME TypeOK, NEW c \in Caller, Return(c)
  PROVE  /\ pc' \in [Caller -> {"idle", "lock", "write", "head", "body"}]
         /\ holder' \in Caller \cup {None}
         /\ mine' \in [Caller -> Nat] /\ got' \in [Caller -> Nat]
         /\ late' \in BOOLEAN
         /\ bound' \in [Caller -> BOOLEAN]
         /\ cmd' \in [Caller -> Command \cup {None}]
         /\ UNCHANGED dialVars
BY DEF TypeOK, Return

\* A call given up leaves its request as a number.
LEMMA GiveUpTypes ==
  ASSUME TypeOK, NEW c \in Caller, GiveUp(c)
  PROVE  /\ taken' \in [Caller -> [request : Nat, answer : Nat] \cup {None}]
         /\ gaveUp' \subseteq Nat
BY DEF TypeOK, GiveUp

\* A call that takes an answer leaves a pair of numbers.
LEMMA TakeTypes ==
  ASSUME TypeOK, NEW c \in Caller, Take(c)
  PROVE  /\ taken' \in [Caller -> [request : Nat, answer : Nat] \cup {None}]
         /\ gaveUp' \subseteq Nat
BY DEF TypeOK, Take

\* What a call leaves of the stream is a sequence of parts.
LEMMA RestTypes ==
  ASSUME NEW s \in Seq(Part), NEW k \in 1..Len(s)
  PROVE  /\ SubSeq(s, k + 1, Len(s)) \in Seq(Part)
         /\ Len(SubSeq(s, k + 1, Len(s))) = Len(s) - k
         /\ \A i \in 1..(Len(s) - k) : SubSeq(s, k + 1, Len(s))[i] = s[k + i]
<1>1. Len(s) \in Nat /\ s \in [1..Len(s) -> Part]
  BY LenProperties
<1>2. k + 1 \in Int /\ Len(s) \in Int /\ \A i \in (k + 1)..Len(s) : s[i] \in Part
  BY <1>1
<1>3. /\ SubSeq(s, k + 1, Len(s)) \in Seq(Part)
      /\ Len(SubSeq(s, k + 1, Len(s))) =
           IF k + 1 <= Len(s) THEN Len(s) - (k + 1) + 1 ELSE 0
      /\ \A i \in 1..(Len(s) - (k + 1) + 1) :
           SubSeq(s, k + 1, Len(s))[i] = s[k + 1 + i - 1]
  BY <1>2, SubSeqProperties
<1>4. k \in Int /\ Len(s) \in Int /\ k <= Len(s) /\ Len(s) - (k + 1) + 1 = Len(s) - k
  BY <1>1
<1>5. Len(SubSeq(s, k + 1, Len(s))) = Len(s) - k
  <2>1. CASE k + 1 <= Len(s)
    BY <1>3, <1>4, <2>1
  <2>2. CASE ~ (k + 1 <= Len(s))
    <3>1. Len(SubSeq(s, k + 1, Len(s))) = 0
      BY <1>3, <2>2
    <3>2. \A n, j \in Int : j <= n /\ ~ (j + 1 <= n) => n - j = 0
      OBVIOUS
    <3>3. Len(s) - k = 0
      BY <1>4, <2>2, <3>2
    <3> QED
      BY <3>1, <3>3
  <2> QED
    BY <2>1, <2>2
<1>6. ASSUME NEW i \in 1..(Len(s) - k)
      PROVE  SubSeq(s, k + 1, Len(s))[i] = s[k + i]
  <2>1. i \in 1..(Len(s) - (k + 1) + 1) /\ k + 1 + i - 1 = k + i
    BY <1>4
  <2> QED
    BY <1>3, <2>1
<1> QED
  BY <1>3, <1>5, <1>6

\* So does closing the control channel.
LEMMA CloseTypes ==
  ASSUME TypeOK, CloseControl, late' \in BOOLEAN
  PROVE  TypeOK'
BY DEF TypeOK, CloseControl, callVars, wireVars, Port

\* An answer of which the header is sent is to a request the kart still has.
Underway == half => inbox # << >>

\* One step keeps that.
LEMMA UnderwayStep ==
  ASSUME TypeOK, Underway, [Next]_vars
  PROVE  Underway'
<1>1. ASSUME NEW c \in Caller, Write(c)
      PROVE  Underway'
  <2>1. inbox' # << >>
    <3>1. Len(sent) + 1 \in Nat /\ inbox' = Append(inbox, Len(sent) + 1)
      BY <1>1, LenProperties DEF TypeOK, Write
    <3> QED
      BY <3>1, AppendProperties DEF TypeOK
  <2> QED
    BY <2>1 DEF Underway
<1>2. ASSUME AnswerHead \/ AnswerBody
      PROVE  Underway'
  BY <1>2 DEF Underway, AnswerHead, AnswerBody
<1>3. ASSUME NEW p \in Port, Dialed(p) \/ DialFails(p) \/ DialCancelled(p)
      PROVE  Underway'
  BY <1>3 DEF Underway, Dialed, DialFails, DialCancelled, wireVars
<1>4. ASSUME Join \/ Close \/ LateWatcher
      PROVE  Underway'
  BY <1>4 DEF Underway, Join, Close, LateWatcher, CloseControl, wireVars
<1>5. ASSUME NEW c \in Caller, NEW m \in Command, NEW b \in BOOLEAN, Invoke(c, m, b)
      PROVE  Underway'
  BY <1>5 DEF Underway, Invoke, wireVars
<1>6. ASSUME NEW c \in Caller,
             \/ Lock(c) \/ ReadHead(c) \/ ReadJunk(c) \/ ReadBody(c)
             \/ Expire(c) \/ Broken(c) \/ ContextEnds(c)
      PROVE  Underway'
  BY <1>6 DEF Underway, Lock, ReadHead, ReadJunk, ReadBody, Expire, Broken,
     ContextEnds, CloseControl, wireVars
<1>7. ASSUME UNCHANGED vars
      PROVE  Underway'
  BY <1>7 DEF Underway, vars, wireVars
<1> QED
  BY <1>1, <1>2, <1>3, <1>4, <1>5, <1>6, <1>7 DEF Next

\* One step keeps the types.
LEMMA TypeStep ==
  ASSUME TypeOK, Underway, [Next]_vars
  PROVE  TypeOK'
<1>1. ASSUME NEW p \in Port, Dialed(p)
      PROVE  TypeOK'
  BY <1>1 DEF TypeOK, Dialed, callVars, wireVars
<1>2. ASSUME NEW p \in Port, DialFails(p)
      PROVE  TypeOK'
  <2>1. tries[p] + 1 \in Nat
    BY DEF TypeOK
  <2>2. tries' \in [Port -> Nat]
    <3>1. tries' = [tries EXCEPT ![p] = tries[p] + 1] \/ tries' = [tries EXCEPT ![p] = 0]
      BY <1>2 DEF DialFails
    <3> QED
      BY <2>1, <3>1 DEF TypeOK
  <2>3. channel' \in [Port -> {"dialing", "open", "refused", "closed"}]
    BY <1>2 DEF TypeOK, DialFails
  <2> QED
    BY <1>2, <2>2, <2>3 DEF TypeOK, DialFails, callVars, wireVars
<1>3. ASSUME NEW p \in Port, DialCancelled(p)
      PROVE  TypeOK'
  BY <1>3 DEF TypeOK, DialCancelled, callVars, wireVars
<1>4. ASSUME Join
      PROVE  TypeOK'
  BY <1>4 DEF TypeOK, Join, callVars, wireVars
<1>5. ASSUME Close
      PROVE  TypeOK'
  BY <1>5 DEF TypeOK, Close, callVars, wireVars
<1>6. ASSUME NEW c \in Caller, NEW m \in Command, NEW b \in BOOLEAN, Invoke(c, m, b)
      PROVE  TypeOK'
  BY <1>6 DEF TypeOK, Invoke, dialVars, wireVars
<1>7. ASSUME NEW c \in Caller, Lock(c)
      PROVE  TypeOK'
  BY <1>7 DEF TypeOK, Lock, dialVars, wireVars
<1>8. ASSUME NEW c \in Caller, Write(c)
      PROVE  TypeOK'
  <2>1. cmd[c] \in Command \cup {None} /\ Len(sent) + 1 \in Nat
    BY LenProperties DEF TypeOK
  <2>2. sent' \in Seq(Command \cup {None}) /\ inbox' \in Seq(Nat)
    BY <1>8, <2>1, AppendProperties DEF TypeOK, Write
  <2> QED
    BY <1>8, <2>1, <2>2 DEF TypeOK, Write, dialVars
<1>9. ASSUME NEW c \in Caller, ReadHead(c)
      PROVE  TypeOK'
  <2>1. Head(stream) \in Part /\ Tail(stream) \in Seq(Part)
    BY <1>9, HeadTailProperties DEF TypeOK, ReadHead
  <2>2. Head(stream).of \in Nat
    BY <2>1 DEF Part
  <2> QED
    BY <1>9, <2>1, <2>2 DEF TypeOK, ReadHead, dialVars
<1>10. ASSUME NEW c \in Caller, ReadJunk(c)
       PROVE  TypeOK'
  <2>1. stream' \in Seq(Part)
    BY <1>10, RestTypes DEF TypeOK, ReadJunk
  <2>2. GiveUp(c) /\ Return(c) /\ UNCHANGED <<sent, inbox, half>>
    BY <1>10 DEF ReadJunk, GiveUp
  <2> QED
    BY <2>1, <2>2, ReturnTypes, GiveUpTypes DEF TypeOK, dialVars
<1>11. ASSUME NEW c \in Caller, ReadBody(c)
       PROVE  TypeOK'
  <2>1. stream' \in Seq(Part)
    BY <1>11, HeadTailProperties DEF TypeOK, ReadBody
  <2>2. (GiveUp(c) \/ Take(c)) /\ Return(c) /\ UNCHANGED <<sent, inbox, half>>
    BY <1>11 DEF ReadBody, GiveUp, Take
  <2> QED
    BY <2>1, <2>2, ReturnTypes, GiveUpTypes, TakeTypes DEF TypeOK, dialVars
<1>12. ASSUME NEW c \in Caller, Expire(c) \/ Broken(c)
       PROVE  TypeOK'
  <2>1. GiveUp(c) /\ Return(c) /\ UNCHANGED wireVars
    BY <1>12 DEF Expire, Broken, GiveUp
  <2> QED
    BY <2>1, ReturnTypes, GiveUpTypes DEF TypeOK, dialVars, wireVars
<1>13. ASSUME NEW c \in Caller, ContextEnds(c)
       PROVE  TypeOK'
  <2>1. CloseControl /\ late' \in BOOLEAN
    BY <1>13 DEF ContextEnds, TypeOK
  <2> QED
    BY <2>1, CloseTypes
<1>14. ASSUME LateWatcher
       PROVE  TypeOK'
  <2>1. CloseControl /\ late' \in BOOLEAN
    BY <1>14 DEF LateWatcher
  <2> QED
    BY <2>1, CloseTypes
<1>15. ASSUME AnswerHead \/ AnswerBody
       PROVE  TypeOK'
  <2>1. inbox # << >> => Head(inbox) \in Nat /\ Tail(inbox) \in Seq(Nat)
    BY HeadTailProperties DEF TypeOK
  <2>2. CASE AnswerHead
    <3>1. [of |-> Head(inbox), part |-> "head"] \in Part
      BY <2>1, <2>2 DEF AnswerHead, Part
    <3>2. stream' \in Seq(Part)
      BY <2>2, <3>1, AppendProperties DEF TypeOK, AnswerHead
    <3> QED
      BY <2>2, <3>2 DEF TypeOK, AnswerHead, dialVars, callVars
  <2>3. CASE AnswerBody
    <3>1. [of |-> Head(inbox), part |-> "body"] \in Part
      BY <2>1, <2>3 DEF AnswerBody, Part, Underway
    <3>2. stream' \in Seq(Part)
      BY <2>3, <3>1, AppendProperties DEF TypeOK, AnswerBody
    <3>3. inbox' \in Seq(Nat)
      BY <2>1, <2>3 DEF AnswerBody, Underway
    <3> QED
      BY <2>3, <3>2, <3>3 DEF TypeOK, AnswerBody, dialVars, callVars
  <2> QED
    BY <1>15, <2>2, <2>3
<1>16. ASSUME UNCHANGED vars
       PROVE  TypeOK'
  BY <1>16 DEF TypeOK, vars, dialVars, callVars, wireVars
<1> QED
  BY <1>1, <1>2, <1>3, <1>4, <1>5, <1>6, <1>7, <1>8, <1>9, <1>10, <1>11, <1>12,
     <1>13, <1>14, <1>15, <1>16 DEF Next

\* The initial state has the types.
LEMMA TypeInit == Init => TypeOK /\ Underway
<1> SUFFICES ASSUME Init PROVE TypeOK /\ Underway
  OBVIOUS
<1>1. sent \in Seq(Command \cup {None}) /\ inbox \in Seq(Nat) /\ stream \in Seq(Part)
  BY EmptySeq DEF Init
<1> QED
  BY <1>1 DEF Init, TypeOK, Underway

\* Every variable keeps its type.
THEOREM TypeCorrect == Spec => []TypeOK
<1>1. TypeOK /\ Underway /\ [Next]_vars => (TypeOK /\ Underway)'
  BY TypeStep, UnderwayStep
<1> QED
  BY TypeInit, <1>1, PTL DEF Spec

-----------------------------------------------------------------------------
(* Connect and Close leave no channel behind.                              *)

\* One step keeps that.
LEMMA BothStep ==
  ASSUME TypeOK, BothOrNone, [Next]_vars
  PROVE  BothOrNone'
<1>1. ASSUME NEW p \in Port, Dialed(p) \/ DialFails(p) \/ DialCancelled(p)
      PROVE  BothOrNone'
  <2>1. phase' = phase /\ channel[p] = "dialing"
    BY <1>1 DEF Dialed, DialFails, DialCancelled
  <2>2. phase \notin {"failed", "closed"}
    BY <2>1 DEF BothOrNone
  <2> QED
    BY <2>1, <2>2 DEF BothOrNone
<1>2. ASSUME Join
      PROVE  BothOrNone'
  <2>1. CASE \A p \in Port : channel[p] = "open"
    BY <1>2, <2>1 DEF BothOrNone, Join
  <2>2. CASE ~ \A p \in Port : channel[p] = "open"
    <3>1. channel' = [p \in Port |-> IF channel[p] = "open" THEN "closed" ELSE channel[p]]
      BY <1>2, <2>2 DEF Join
    <3>2. \A p \in Port : channel[p] # "dialing"
      BY <1>2 DEF Join
    <3> QED
      BY <3>1, <3>2 DEF BothOrNone
  <2> QED
    BY <2>1, <2>2
<1>3. ASSUME Close
      PROVE  BothOrNone'
  BY <1>3 DEF BothOrNone, Close
<1>4. ASSUME CloseControl
      PROVE  BothOrNone'
  BY <1>4 DEF BothOrNone, CloseControl, TypeOK
<1>5. ASSUME UNCHANGED dialVars
      PROVE  BothOrNone'
  BY <1>5 DEF BothOrNone, dialVars
<1>6. ASSUME NEW c \in Caller, NEW m \in Command, NEW b \in BOOLEAN, Invoke(c, m, b)
      PROVE  UNCHANGED dialVars
  BY <1>6 DEF Invoke
<1>7. ASSUME NEW c \in Caller,
             \/ Lock(c) \/ Write(c) \/ ReadHead(c) \/ ReadJunk(c) \/ ReadBody(c)
             \/ Expire(c) \/ Broken(c)
      PROVE  UNCHANGED dialVars
  BY <1>7 DEF Lock, Write, ReadHead, ReadJunk, ReadBody, Expire, Broken, GiveUp, Take,
     Return
<1>8. ASSUME AnswerHead \/ AnswerBody \/ UNCHANGED vars
      PROVE  UNCHANGED dialVars
  BY <1>8 DEF AnswerHead, AnswerBody, vars
<1> QED
  BY <1>1, <1>2, <1>3, <1>4, <1>5, <1>6, <1>7, <1>8 DEF Next, ContextEnds, LateWatcher

\* Connect gives both channels or leaves none, and Close closes both.
THEOREM BothChannelsOrNone == Spec => []BothOrNone
<1>1. Init => BothOrNone
  BY DEF Init, BothOrNone
<1>2. TypeOK /\ BothOrNone /\ [Next]_vars => BothOrNone'
  BY BothStep
<1> QED
  BY TypeCorrect, <1>1, <1>2, PTL DEF Spec

-----------------------------------------------------------------------------
(* The parts of answers, numbered in the order they are sent.              *)

\* The header and the payload of the answer to request n are 2n and 2n + 1.
Key(p) == 2 * p.of + (IF p.part = "body" THEN 1 ELSE 0)

\* The part that is read next, when n requests were sent, the kart has those
\* in q, h = 1 says it has sent the first half of an answer, and s is on its
\* way.
NextRead(n, q, h, s) == 2 * (n - Len(q) + 1) + h - Len(s)

InStep(n, q, h, s) ==
  /\ Len(q) <= n
  /\ \A i \in 1..Len(q) : q[i] = n - Len(q) + i
  /\ \A i \in 1..Len(s) : Key(s[i]) = NextRead(n, q, h, s) + i - 1
  /\ h = 1 => q # << >>
  /\ NextRead(n, q, h, s) >= 2

\* A request is sent.
LEMMA StepAsk ==
  ASSUME NEW n \in Nat, NEW q \in Seq(Nat), NEW h \in {0, 1}, NEW s \in Seq(Part),
         InStep(n, q, h, s)
  PROVE  /\ InStep(n + 1, Append(q, n + 1), h, s)
         /\ NextRead(n + 1, Append(q, n + 1), h, s) = NextRead(n, q, h, s)
<1> DEFINE r == Append(q, n + 1)
<1>1. /\ Len(r) = Len(q) + 1 /\ r[Len(q) + 1] = n + 1 /\ r # << >>
      /\ \A i \in 1..Len(q) : r[i] = q[i]
  BY AppendProperties
<1>2. Len(q) \in Nat /\ Len(s) \in Nat
  BY LenProperties
<1> HIDE DEF r
<1>3. NextRead(n + 1, r, h, s) = NextRead(n, q, h, s)
  BY <1>1, <1>2 DEF NextRead
<1>4. ASSUME NEW i \in 1..Len(r)
      PROVE  r[i] = (n + 1) - Len(r) + i
  <2>1. CASE i = Len(q) + 1
    BY <1>1, <1>2, <2>1
  <2>2. CASE i # Len(q) + 1
    <3>1. i \in 1..Len(q)
      BY <1>1, <1>2, <2>2
    <3>2. r[i] = n - Len(q) + i
      BY <1>1, <3>1 DEF InStep
    <3> QED
      BY <1>1, <1>2, <3>1, <3>2
  <2> QED
    BY <2>1, <2>2
<1>5. InStep(n + 1, r, h, s)
  BY <1>1, <1>2, <1>3, <1>4 DEF InStep
<1> QED
  BY <1>3, <1>5 DEF r

\* A part of the answer to the first request is sent.
LEMMA StepSend ==
  ASSUME NEW n \in Nat, NEW q \in Seq(Nat), NEW h \in {0, 1}, NEW s \in Seq(Part),
         InStep(n, q, h, s), q # << >>, NEW p \in Part, p.of = Head(q),
         p.part = IF h = 1 THEN "body" ELSE "head",
         NEW r \in Seq(Nat), NEW g \in {0, 1},
         h = 0 => r = q /\ g = 1, h = 1 => r = Tail(q) /\ g = 0
  PROVE  /\ InStep(n, r, g, Append(s, p))
         /\ NextRead(n, r, g, Append(s, p)) = NextRead(n, q, h, s)
<1> DEFINE t == Append(s, p)
<1>1. /\ Len(t) = Len(s) + 1 /\ t[Len(s) + 1] = p
      /\ \A i \in 1..Len(s) : t[i] = s[i]
  BY AppendProperties
<1>2. Len(q) \in Nat \ {0} /\ Len(s) \in Nat /\ Len(r) \in Nat
  BY LenProperties, EmptySeq
<1>3. Head(q) = q[1]
  BY <1>2
<1>4. /\ Len(Tail(q)) = Len(q) - 1
      /\ \A i \in 1..Len(Tail(q)) : Tail(q)[i] = q[i + 1]
  BY HeadTailProperties
<1> HIDE DEF t
<1>5. Len(r) = Len(q) - h /\ g = 1 - h
  <2>1. CASE h = 0
    <3>1. r = q /\ g = 1
      BY <2>1
    <3> QED
      BY <1>2, <2>1, <3>1
  <2>2. CASE h = 1
    <3>1. r = Tail(q) /\ g = 0
      BY <2>2
    <3>2. Len(r) = Len(q) - 1
      BY <1>4, <3>1
    <3> QED
      BY <2>2, <3>1, <3>2
  <2> QED
    BY <2>1, <2>2
<1>6. NextRead(n, r, g, t) = NextRead(n, q, h, s)
  <2>1. 2 * (n - (Len(q) - h) + 1) + (1 - h) = 2 * (n - Len(q) + 1) + h + 1
    BY <1>2
  <2> QED
    BY <1>1, <1>2, <1>5, <2>1 DEF NextRead
<1>7. ASSUME NEW i \in 1..Len(r)
      PROVE  r[i] = n - Len(r) + i
  <2>1. CASE h = 0
    BY <2>1 DEF InStep
  <2>2. CASE h = 1
    <3>0. r = Tail(q) /\ i \in 1..Len(Tail(q)) /\ i + 1 \in 1..Len(q)
      <4>1. r = Tail(q) /\ Len(Tail(q)) = Len(q) - 1 /\ i \in 1..Len(Tail(q))
        BY <1>4, <2>2
      <4>2. \A x \in Nat : \A j \in 1..(x - 1) : j + 1 \in 1..x
        OBVIOUS
      <4>3. Len(q) \in Nat /\ i \in 1..(Len(q) - 1)
        BY <1>2, <4>1
      <4>4. i + 1 \in 1..Len(q)
        BY <4>2, <4>3
      <4> QED
        BY <4>1, <4>4
    <3>1. i + 1 \in 1..Len(q) /\ r[i] = q[i + 1]
      BY <1>4, <3>0
    <3>2. q[i + 1] = n - Len(q) + (i + 1)
      BY <3>1 DEF InStep
    <3> QED
      BY <1>2, <1>5, <2>2, <3>1, <3>2
  <2> QED
    BY <2>1, <2>2
<1>8. ASSUME NEW i \in 1..Len(t)
      PROVE  Key(t[i]) = NextRead(n, r, g, t) + i - 1
  <2>1. CASE i = Len(s) + 1
    <3>1. Head(q) = n - Len(q) + 1
      <4>1. 1 \in 1..Len(q)
        BY <1>2
      <4> QED
        BY <1>3, <4>1 DEF InStep
    <3>2. Key(p) = 2 * (n - Len(q) + 1) + h
      BY <3>1 DEF Key
    <3>3. t[i] = p
      BY <1>1, <2>1
    <3> QED
      BY <1>2, <1>6, <2>1, <3>2, <3>3 DEF NextRead
  <2>2. CASE i # Len(s) + 1
    <3>1. i \in 1..Len(s)
      BY <1>1, <1>2, <2>2
    <3> QED
      BY <1>1, <1>6, <3>1 DEF InStep
  <2> QED
    BY <2>1, <2>2
<1>9. Len(r) <= n /\ (g = 1 => r # << >>)
  BY <1>2, <1>5 DEF InStep
<1>10. InStep(n, r, g, t)
  BY <1>6, <1>7, <1>8, <1>9 DEF InStep
<1> QED
  BY <1>6, <1>10 DEF t

\* The case of the payload, which takes the request from those the kart has.
LEMMA StepBody ==
  ASSUME NEW n \in Nat, NEW q \in Seq(Nat), NEW s \in Seq(Part), InStep(n, q, 1, s),
         q # << >>, NEW p \in Part, p.of = Head(q), p.part = "body"
  PROVE  /\ InStep(n, Tail(q), 0, Append(s, p))
         /\ NextRead(n, Tail(q), 0, Append(s, p)) = NextRead(n, q, 1, s)
<1>1. Tail(q) \in Seq(Nat)
  BY HeadTailProperties
<1>2. \A r \in Seq(Nat), h, g \in {0, 1} :
        r = Tail(q) /\ h = 1 /\ g = 0 =>
          /\ InStep(n, r, g, Append(s, p))
          /\ NextRead(n, r, g, Append(s, p)) = NextRead(n, q, h, s)
  <2>1. SUFFICES ASSUME NEW r \in Seq(Nat), NEW h \in {0, 1}, NEW g \in {0, 1},
                        r = Tail(q), h = 1, g = 0
                 PROVE  /\ InStep(n, r, g, Append(s, p))
                        /\ NextRead(n, r, g, Append(s, p)) = NextRead(n, q, h, s)
    OBVIOUS
  <2>2. InStep(n, q, h, s)
    BY <2>1
  <2>3. p.part = IF h = 1 THEN "body" ELSE "head"
    BY <2>1
  <2>4. (h = 0 => r = q /\ g = 1) /\ (h = 1 => r = Tail(q) /\ g = 0)
    BY <2>1
  <2> QED
    BY <2>2, <2>3, <2>4, StepSend
<1> QED
  BY <1>1, <1>2

\* The first k parts are read.
LEMMA StepRead ==
  ASSUME NEW n \in Nat, NEW q \in Seq(Nat), NEW h \in {0, 1}, NEW s \in Seq(Part),
         InStep(n, q, h, s), NEW k \in 1..Len(s)
  PROVE  /\ InStep(n, q, h, SubSeq(s, k + 1, Len(s)))
         /\ NextRead(n, q, h, SubSeq(s, k + 1, Len(s))) = NextRead(n, q, h, s) + k
<1> DEFINE t == SubSeq(s, k + 1, Len(s))
<1>1. Len(t) = Len(s) - k /\ \A i \in 1..(Len(s) - k) : t[i] = s[k + i]
  BY RestTypes
<1>2. Len(q) \in Nat /\ Len(s) \in Nat
  BY LenProperties
<1> HIDE DEF t
<1>3. NextRead(n, q, h, t) = NextRead(n, q, h, s) + k
  BY <1>1, <1>2 DEF NextRead
<1>4. NextRead(n, q, h, s) \in Int
  BY <1>2 DEF NextRead
<1>5. ASSUME NEW i \in 1..Len(t)
      PROVE  Key(t[i]) = NextRead(n, q, h, t) + i - 1
  <2>1. k + i \in 1..Len(s) /\ t[i] = s[k + i]
    BY <1>1, <1>2
  <2>2. Key(s[k + i]) = NextRead(n, q, h, s) + (k + i) - 1
    BY <2>1 DEF InStep
  <2> QED
    BY <1>2, <1>3, <1>4, <2>1, <2>2
<1>6. NextRead(n, q, h, t) >= 2
  BY <1>2, <1>3, <1>4 DEF InStep
<1>7. InStep(n, q, h, t)
  BY <1>5, <1>6 DEF InStep
<1> QED
  BY <1>3, <1>7 DEF t

\* The part that is read next is part of the answer to a request.
LEMMA StepFirst ==
  ASSUME NEW n \in Nat, NEW q \in Seq(Nat), NEW h \in {0, 1}, NEW s \in Seq(Part),
         InStep(n, q, h, s), s # << >>
  PROVE  /\ Key(Head(s)) = NextRead(n, q, h, s)
         /\ Head(s).of \in 1..n /\ Head(s).part \in {"head", "body"}
<1>1. Len(q) \in Nat /\ Len(s) \in Nat \ {0} /\ (h = 1 => Len(q) > 0)
  BY LenProperties, EmptySeq DEF InStep
<1>2. Head(s) = s[1] /\ 1 \in 1..Len(s) /\ Head(s) \in Part
  BY <1>1, HeadTailProperties
<1>3. Head(s).of \in Nat /\ Head(s).part \in {"head", "body"}
  BY <1>2 DEF Part
<1>4. NextRead(n, q, h, s) \in Int /\ NextRead(n, q, h, s) >= 2
  BY <1>1 DEF NextRead, InStep
<1>5. Key(Head(s)) = NextRead(n, q, h, s)
  <2>1. Key(Head(s)) = NextRead(n, q, h, s) + 1 - 1
    BY <1>2 DEF InStep
  <2> QED
    BY <1>4, <2>1
<1>6. NextRead(n, q, h, s) <= 2 * n + 1
  BY <1>1 DEF NextRead, InStep
<1>7. Head(s).of >= 1 /\ Head(s).of <= n
  BY <1>3, <1>4, <1>5, <1>6 DEF Key
<1> QED
  BY <1>3, <1>5, <1>7

Half == IF half THEN 1 ELSE 0

Unread == NextRead(Len(sent), inbox, Half, stream)

InOrder == InStep(Len(sent), inbox, Half, stream)

\* One caller is in an exchange, the one that holds the mutex; its request is
\* the last that was sent, and the answer whose header it has read is the one
\* whose payload comes next.
Exclusive ==
  \A c \in Caller :
    /\ InExchange(c) <=> holder = c
    /\ pc[c] \in {"head", "body"} =>
         mine[c] = Len(sent) /\ Len(sent) > 0 /\ sent[Len(sent)] = cmd[c]
    /\ pc[c] \notin {"head", "body"} => mine[c] = 0
    /\ pc[c] = "body" => 2 * got[c] + 1 = Unread /\ got[c] \in 1..Len(sent)

\* A request whose answer is still to come is some caller's, or one no later
\* was given up.
Abandoned ==
  \A n \in 1..Len(sent) :
    2 * n + 1 >= Unread /\ (\A c \in Caller : mine[c] # n) => \E g \in gaveUp : g <= n

\* What OwnUnlessAbandoned says, and that both are requests that were sent.
TakenOnce ==
  \A c \in Caller : taken[c] # None =>
    LET t == taken[c] IN
      /\ t.request \in 1..Len(sent) /\ t.answer \in 1..Len(sent)
      /\ sent[t.answer] = sent[t.request]
      /\ t.answer # t.request => \E n \in gaveUp : n <= t.answer /\ t.answer < t.request

Counted == InOrder /\ Exclusive /\ Abandoned /\ TakenOnce

\* The part that is read next is a number.
LEMMA WireTypes ==
  ASSUME TypeOK
  PROVE  Len(sent) \in Nat /\ Half \in {0, 1} /\ Unread \in Int
<1>1. Len(sent) \in Nat /\ Len(inbox) \in Nat /\ Len(stream) \in Nat
  BY LenProperties DEF TypeOK
<1> QED
  BY <1>1 DEF Half, Unread, NextRead

\* What a request, a part of an answer and a read do to the numbering.
LEMMA WireAsk ==
  ASSUME TypeOK, InOrder, NEW c \in Caller, Write(c)
  PROVE  /\ InOrder' /\ Unread' = Unread
         /\ Len(sent') = Len(sent) + 1 /\ sent'[Len(sent) + 1] = cmd[c]
         /\ \A i \in 1..Len(sent) : sent'[i] = sent[i]
<1>1. /\ sent' = Append(sent, cmd[c]) /\ inbox' = Append(inbox, Len(sent) + 1)
      /\ half' = half /\ stream' = stream
  BY DEF Write
<1>2. cmd[c] \in Command \cup {None} /\ sent \in Seq(Command \cup {None})
  BY DEF TypeOK
<1>3. /\ Len(sent') = Len(sent) + 1 /\ sent'[Len(sent) + 1] = cmd[c]
      /\ \A i \in 1..Len(sent) : sent'[i] = sent[i]
  BY <1>1, <1>2, AppendProperties
<1>4. /\ InStep(Len(sent) + 1, Append(inbox, Len(sent) + 1), Half, stream)
      /\ NextRead(Len(sent) + 1, Append(inbox, Len(sent) + 1), Half, stream)
           = NextRead(Len(sent), inbox, Half, stream)
  BY WireTypes, StepAsk DEF InOrder, TypeOK
<1>5. Half' = Half
  BY <1>1 DEF Half
<1> QED
  BY <1>1, <1>3, <1>4, <1>5 DEF InOrder, Unread

\* A part of an answer that is sent is not the one that is read next.
LEMMA WireSend ==
  ASSUME TypeOK, InOrder, AnswerHead \/ AnswerBody
  PROVE  InOrder' /\ Unread' = Unread
<1>1. inbox # << >> /\ inbox \in Seq(Nat) /\ stream \in Seq(Part)
  BY DEF TypeOK, AnswerHead, AnswerBody, InOrder, InStep, Half
<1>2. Head(inbox) \in Nat /\ Tail(inbox) \in Seq(Nat)
  BY <1>1, HeadTailProperties
<1>3. CASE AnswerHead
  <2> DEFINE p == [of |-> Head(inbox), part |-> "head"]
  <2>1. p \in Part /\ p.of = Head(inbox) /\ p.part = "head"
    BY <1>2 DEF Part
  <2>2. stream' = Append(stream, p) /\ inbox' = inbox /\ sent' = sent
    BY <1>3 DEF AnswerHead
  <2>3. Half = 0 /\ Half' = 1
    BY <1>3 DEF AnswerHead, Half
  <2> HIDE DEF p
  <2>4. /\ InStep(Len(sent), inbox, 1, Append(stream, p))
        /\ NextRead(Len(sent), inbox, 1, Append(stream, p))
             = NextRead(Len(sent), inbox, 0, stream)
    <3>1. p.part = IF 0 = 1 THEN "body" ELSE "head"
      BY <2>1
    <3>2. InStep(Len(sent), inbox, 0, stream)
      BY <2>3 DEF InOrder
    <3>3. 0 \in {0, 1} /\ 1 \in {0, 1} /\ (0 = 0 => inbox = inbox /\ 1 = 1)
          /\ (0 = 1 => inbox = Tail(inbox) /\ 1 = 0)
      OBVIOUS
    <3> QED
      BY <1>1, <2>1, <3>1, <3>2, <3>3, WireTypes, StepSend
  <2> QED
    BY <2>2, <2>3, <2>4 DEF InOrder, Unread
<1>4. CASE AnswerBody
  <2> DEFINE p == [of |-> Head(inbox), part |-> "body"]
  <2>1. p \in Part /\ p.of = Head(inbox) /\ p.part = "body"
    BY <1>2 DEF Part
  <2>2. stream' = Append(stream, p) /\ inbox' = Tail(inbox) /\ sent' = sent
    BY <1>4 DEF AnswerBody
  <2>3. Half = 1 /\ Half' = 0
    BY <1>4 DEF AnswerBody, Half
  <2> HIDE DEF p
  <2>4. /\ InStep(Len(sent), Tail(inbox), 0, Append(stream, p))
        /\ NextRead(Len(sent), Tail(inbox), 0, Append(stream, p))
             = NextRead(Len(sent), inbox, 1, stream)
    <3>1. InStep(Len(sent), inbox, 1, stream)
      BY <2>3 DEF InOrder
    <3> QED
      BY <1>1, <2>1, <3>1, WireTypes, StepBody
  <2> QED
    BY <2>2, <2>3, <2>4 DEF InOrder, Unread
<1> QED
  BY <1>3, <1>4

\* Reading k parts is k steps further.
LEMMA WireRead ==
  ASSUME TypeOK, InOrder, NEW k \in 1..Len(stream),
         stream' = SubSeq(stream, k + 1, Len(stream)), UNCHANGED <<sent, inbox, half>>
  PROVE  InOrder' /\ Unread' = Unread + k
<1>1. Half' = Half
  BY DEF Half
<1>2. /\ InStep(Len(sent), inbox, Half, SubSeq(stream, k + 1, Len(stream)))
      /\ NextRead(Len(sent), inbox, Half, SubSeq(stream, k + 1, Len(stream)))
           = NextRead(Len(sent), inbox, Half, stream) + k
  BY WireTypes, StepRead DEF InOrder, TypeOK
<1> QED
  BY <1>1, <1>2 DEF InOrder, Unread

\* Reading the first part is reading one part.
LEMMA WireNext ==
  ASSUME TypeOK, InOrder, stream # << >>, stream' = Tail(stream),
         UNCHANGED <<sent, inbox, half>>
  PROVE  /\ InOrder' /\ Unread' = Unread + 1
         /\ Key(Head(stream)) = Unread /\ Head(stream).of \in 1..Len(sent)
         /\ Head(stream).part \in {"head", "body"}
<1>1. Len(stream) \in Nat \ {0} /\ stream \in Seq(Part)
  BY LenProperties, EmptySeq DEF TypeOK
<1>2. 1 \in 1..Len(stream) /\ stream' = SubSeq(stream, 1 + 1, Len(stream))
  BY <1>1, TailIsSubSeq
<1>3. InOrder' /\ Unread' = Unread + 1
  BY <1>2, WireRead
<1>4. /\ Key(Head(stream)) = NextRead(Len(sent), inbox, Half, stream)
      /\ Head(stream).of \in 1..Len(sent) /\ Head(stream).part \in {"head", "body"}
  BY WireTypes, StepFirst DEF InOrder, TypeOK
<1> QED
  BY <1>3, <1>4 DEF Unread

\* Steps beside the wire change nothing of that.
LEMMA WireSame ==
  ASSUME InOrder, UNCHANGED wireVars
  PROVE  InOrder' /\ Unread' = Unread
<1>1. Half' = Half /\ sent' = sent /\ inbox' = inbox /\ stream' = stream
  BY DEF Half, wireVars
<1> QED
  BY <1>1 DEF InOrder, Unread

-----------------------------------------------------------------------------
(* The steps.                                                              *)

\* No call, and no request: what the calls say of the wire still holds.
LEMMA QuietKeeps ==
  ASSUME TypeOK, Counted, UNCHANGED <<callVars, sent>>, InOrder', Unread' = Unread
  PROVE  Counted'
<1>1. Exclusive'
  BY DEF Counted, Exclusive, callVars, InExchange
<1>2. Abandoned'
  BY DEF Counted, Abandoned, callVars
<1>3. TakenOnce'
  BY DEF Counted, TakenOnce, callVars
<1> QED
  BY <1>1, <1>2, <1>3 DEF Counted

\* A call that begins, or is given the mutex, has no request yet.
LEMMA BeginKeeps ==
  ASSUME TypeOK, Counted, NEW c \in Caller, UNCHANGED <<mine, got, taken, gaveUp, wireVars>>,
         pc[c] \in {"idle", "lock"},
         \/ pc' = [pc EXCEPT ![c] = "lock"] /\ holder' = holder
         \/ pc' = [pc EXCEPT ![c] = "write"] /\ holder = None /\ holder' = c,
         \A d \in Caller \ {c} : cmd'[d] = cmd[d]
  PROVE  Counted'
<1>1. InOrder' /\ Unread' = Unread /\ sent' = sent
  BY WireSame DEF Counted, wireVars
<1>2. Exclusive'
  <2> SUFFICES ASSUME NEW d \in Caller
               PROVE  /\ InExchange(d)' <=> holder' = d
                      /\ pc'[d] \in {"head", "body"} =>
                           /\ mine'[d] = Len(sent') /\ Len(sent') > 0
                           /\ sent'[Len(sent')] = cmd'[d]
                      /\ pc'[d] \notin {"head", "body"} => mine'[d] = 0
                      /\ pc'[d] = "body" => 2 * got'[d] + 1 = Unread' /\ got'[d] \in 1..Len(sent')
    BY DEF Exclusive
  <2>1. CASE d = c
    <3>1. pc'[d] \in {"lock", "write"} /\ pc[d] \notin {"write", "head", "body"}
      BY <2>1 DEF TypeOK
    <3>2. holder # d /\ mine[d] = 0
      BY <2>1, <3>1 DEF Counted, Exclusive, InExchange
    <3>3. \/ pc'[d] = "lock" /\ holder' = holder
          \/ pc'[d] = "write" /\ holder' = d
      BY <2>1 DEF TypeOK
    <3> QED
      BY <3>1, <3>2, <3>3 DEF InExchange
  <2>2. CASE d # c
    <3>1. pc'[d] = pc[d] /\ cmd'[d] = cmd[d]
      BY <2>2 DEF TypeOK
    <3>2. holder' = d <=> holder = d
      BY <2>2, KartLinkAssumption
    <3> QED
      BY <1>1, <3>1, <3>2 DEF Counted, Exclusive, InExchange
  <2> QED
    BY <2>1, <2>2
<1>3. Abandoned'
  BY <1>1 DEF Counted, Abandoned
<1>4. TakenOnce'
  BY <1>1 DEF Counted, TakenOnce
<1> QED
  BY <1>1, <1>2, <1>3, <1>4 DEF Counted

\* The new request is its caller's.
LEMMA WriteKeeps ==
  ASSUME TypeOK, Counted, NEW c \in Caller, Write(c)
  PROVE  Counted'
<1>1. /\ InOrder' /\ Unread' = Unread
      /\ Len(sent') = Len(sent) + 1 /\ sent'[Len(sent) + 1] = cmd[c]
      /\ \A i \in 1..Len(sent) : sent'[i] = sent[i]
  BY WireAsk DEF Counted
<1>2. Len(sent) \in Nat
  BY WireTypes
<1>3. /\ pc[c] = "write" /\ pc' = [pc EXCEPT ![c] = "head"]
      /\ mine' = [mine EXCEPT ![c] = Len(sent) + 1]
      /\ UNCHANGED <<cmd, got, holder, taken, gaveUp>>
  BY DEF Write
<1>4. holder = c /\ mine[c] = 0
  BY <1>3 DEF Counted, Exclusive, InExchange
<1>5. \A d \in Caller \ {c} : pc[d] \notin {"write", "head", "body"} /\ mine[d] = 0
  BY <1>4 DEF Counted, Exclusive, InExchange
<1>6. /\ pc'[c] = "head" /\ mine'[c] = Len(sent) + 1
      /\ \A d \in Caller \ {c} : pc'[d] = pc[d] /\ mine'[d] = mine[d]
  BY <1>3 DEF TypeOK
<1>7. Exclusive'
  <2> SUFFICES ASSUME NEW d \in Caller
               PROVE  /\ InExchange(d)' <=> holder' = d
                      /\ pc'[d] \in {"head", "body"} =>
                           /\ mine'[d] = Len(sent') /\ Len(sent') > 0
                           /\ sent'[Len(sent')] = cmd'[d]
                      /\ pc'[d] \notin {"head", "body"} => mine'[d] = 0
                      /\ pc'[d] = "body" => 2 * got'[d] + 1 = Unread' /\ got'[d] \in 1..Len(sent')
    BY DEF Exclusive
  <2>1. CASE d = c
    BY <1>1, <1>2, <1>3, <1>4, <1>6, <2>1 DEF InExchange
  <2>2. CASE d # c
    BY <1>3, <1>4, <1>5, <1>6, <2>2 DEF InExchange
  <2> QED
    BY <2>1, <2>2
<1>8. Abandoned'
  <2> SUFFICES ASSUME NEW n \in 1..Len(sent'), 2 * n + 1 >= Unread',
                      \A d \in Caller : mine'[d] # n
               PROVE  \E g \in gaveUp' : g <= n
    BY DEF Abandoned
  <2>1. n # Len(sent) + 1
    BY <1>6
  <2>2. n \in 1..Len(sent)
    BY <1>1, <1>2, <2>1
  <2>3. \A d \in Caller : mine[d] # n
    BY <1>4, <1>6, <2>2
  <2> QED
    BY <1>1, <1>3, <2>2, <2>3 DEF Counted, Abandoned
<1>9. TakenOnce'
  <2> SUFFICES ASSUME NEW d \in Caller, taken'[d] # None
               PROVE  LET t == taken'[d] IN
                        /\ t.request \in 1..Len(sent') /\ t.answer \in 1..Len(sent')
                        /\ sent'[t.answer] = sent'[t.request]
                        /\ t.answer # t.request =>
                             \E n \in gaveUp' : n <= t.answer /\ t.answer < t.request
    BY DEF TakenOnce
  <2> DEFINE t == taken[d]
  <2>1. /\ t.request \in 1..Len(sent) /\ t.answer \in 1..Len(sent)
        /\ sent[t.answer] = sent[t.request]
        /\ t.answer # t.request => \E n \in gaveUp : n <= t.answer /\ t.answer < t.request
    BY <1>3 DEF Counted, TakenOnce
  <2>2. taken'[d] = t
    BY <1>3
  <2> HIDE DEF t
  <2>3. t.request \in 1..Len(sent') /\ t.answer \in 1..Len(sent')
    BY <1>1, <1>2, <2>1
  <2>4. sent'[t.answer] = sent'[t.request]
    BY <1>1, <2>1
  <2> QED
    BY <1>3, <2>1, <2>2, <2>3, <2>4
<1> QED
  BY <1>1, <1>7, <1>8, <1>9 DEF Counted

\* The header that is read says whose answer it is.
LEMMA HeadKeeps ==
  ASSUME TypeOK, Counted, NEW c \in Caller, ReadHead(c)
  PROVE  Counted'
<1>1. /\ pc[c] = "head" /\ stream # << >> /\ Head(stream).part = "head"
      /\ got' = [got EXCEPT ![c] = Head(stream).of] /\ stream' = Tail(stream)
      /\ pc' = [pc EXCEPT ![c] = "body"]
      /\ UNCHANGED <<cmd, mine, holder, taken, gaveUp, sent, inbox, half>>
  BY DEF ReadHead
<1>2. /\ InOrder' /\ Unread' = Unread + 1
      /\ Key(Head(stream)) = Unread /\ Head(stream).of \in 1..Len(sent)
  BY <1>1, WireNext DEF Counted
<1>3. Unread \in Int /\ Len(sent) \in Nat
  BY WireTypes
<1>4. 2 * Head(stream).of + 1 = Unread'
  BY <1>1, <1>2, <1>3 DEF Key
<1>5. /\ pc'[c] = "body" /\ got'[c] = Head(stream).of
      /\ \A d \in Caller \ {c} : pc'[d] = pc[d]
  BY <1>1 DEF TypeOK
<1>6. holder = c
  BY <1>1 DEF Counted, Exclusive, InExchange
<1>7. Exclusive'
  <2> SUFFICES ASSUME NEW d \in Caller
               PROVE  /\ InExchange(d)' <=> holder' = d
                      /\ pc'[d] \in {"head", "body"} =>
                           /\ mine'[d] = Len(sent') /\ Len(sent') > 0
                           /\ sent'[Len(sent')] = cmd'[d]
                      /\ pc'[d] \notin {"head", "body"} => mine'[d] = 0
                      /\ pc'[d] = "body" => 2 * got'[d] + 1 = Unread' /\ got'[d] \in 1..Len(sent')
    BY DEF Exclusive
  <2>1. CASE d = c
    BY <1>1, <1>2, <1>4, <1>5, <1>6, <2>1 DEF Counted, Exclusive, InExchange
  <2>2. CASE d # c
    BY <1>1, <1>5, <1>6, <2>2 DEF Counted, Exclusive, InExchange
  <2> QED
    BY <2>1, <2>2
<1>8. Abandoned'
  <2> SUFFICES ASSUME NEW n \in 1..Len(sent'), 2 * n + 1 >= Unread',
                      \A d \in Caller : mine'[d] # n
               PROVE  \E g \in gaveUp' : g <= n
    BY DEF Abandoned
  <2>1. n \in 1..Len(sent) /\ 2 * n + 1 >= Unread
    BY <1>1, <1>2, <1>3
  <2> QED
    BY <1>1, <2>1 DEF Counted, Abandoned
<1>9. TakenOnce'
  BY <1>1 DEF Counted, TakenOnce
<1> QED
  BY <1>2, <1>7, <1>8, <1>9 DEF Counted

\* After a call that returns, nobody is in an exchange.
LEMMA ReturnKeeps ==
  ASSUME TypeOK, Counted, NEW c \in Caller, InExchange(c), Return(c), sent' = sent
  PROVE  /\ Exclusive'
         /\ mine'[c] = 0 /\ \A d \in Caller \ {c} : mine[d] = 0 /\ mine'[d] = 0
<1>1. /\ pc' = [pc EXCEPT ![c] = "idle"] /\ holder' = None
      /\ mine' = [mine EXCEPT ![c] = 0]
  BY DEF Return
<1>2. holder = c
  BY DEF Counted, Exclusive
<1>3. \A d \in Caller \ {c} : pc[d] \notin {"write", "head", "body"} /\ mine[d] = 0
  BY <1>2 DEF Counted, Exclusive, InExchange
<1>4. \A d \in Caller : pc'[d] \notin {"write", "head", "body"} /\ mine'[d] = 0
  BY <1>1, <1>3 DEF TypeOK
<1>5. \A d \in Caller : holder' # d
  BY <1>1, KartLinkAssumption
<1>6. Exclusive'
  BY <1>4, <1>5 DEF Exclusive, InExchange
<1> QED
  BY <1>3, <1>4, <1>6

\* A call that ends without an answer leaves its request as one given up.
LEMMA GiveUpKeeps ==
  ASSUME TypeOK, Counted, NEW c \in Caller, InExchange(c), GiveUp(c), sent' = sent,
         InOrder', Unread' \in Int, Unread' >= Unread
  PROVE  Counted'
<1>1. /\ Exclusive'
      /\ mine'[c] = 0 /\ \A d \in Caller \ {c} : mine[d] = 0 /\ mine'[d] = 0
  BY ReturnKeeps DEF GiveUp
<1>2. Unread \in Int /\ Len(sent) \in Nat /\ mine[c] \in Nat
  BY WireTypes DEF TypeOK
<1>3. gaveUp \subseteq gaveUp' /\ (mine[c] > 0 => mine[c] \in gaveUp')
  BY DEF GiveUp
<1>4. Abandoned'
  <2> SUFFICES ASSUME NEW n \in 1..Len(sent'), 2 * n + 1 >= Unread'
               PROVE  \E g \in gaveUp' : g <= n
    BY DEF Abandoned
  <2>1. n \in 1..Len(sent) /\ 2 * n + 1 >= Unread
    BY <1>2
  <2>2. CASE mine[c] = n
    BY <1>2, <1>3, <2>1, <2>2
  <2>3. CASE mine[c] # n
    <3>1. \A d \in Caller : mine[d] # n
      BY <1>1, <2>1, <2>3
    <3>2. \E g \in gaveUp : g <= n
      BY <2>1, <3>1 DEF Counted, Abandoned
    <3> QED
      BY <1>3, <3>2
  <2> QED
    BY <2>2, <2>3
<1>5. TakenOnce'
  <2>1. taken' = taken
    BY DEF GiveUp
  <2> QED
    BY <1>3, <2>1 DEF Counted, TakenOnce
<1> QED
  BY <1>1, <1>4, <1>5 DEF Counted

\* An answer that is taken is the caller's own, or one to a request that
\* nobody waits for, which is no earlier than one that was given up.
LEMMA TakeKeeps ==
  ASSUME TypeOK, Counted, NEW c \in Caller, pc[c] = "body", Take(c), sent' = sent,
         sent[got[c]] = cmd[c], InOrder', Unread' = Unread + 1
  PROVE  Counted'
<1>1. InExchange(c) /\ Return(c) /\ gaveUp' = gaveUp
  BY DEF InExchange, Take
<1>2. /\ Exclusive'
      /\ mine'[c] = 0 /\ \A d \in Caller \ {c} : mine[d] = 0 /\ mine'[d] = 0
  BY <1>1, ReturnKeeps
<1>3. /\ mine[c] = Len(sent) /\ Len(sent) > 0 /\ sent[Len(sent)] = cmd[c]
      /\ 2 * got[c] + 1 = Unread /\ got[c] \in 1..Len(sent)
  BY DEF Counted, Exclusive
<1>4. Unread \in Int /\ Len(sent) \in Nat
  BY WireTypes
<1>5. got[c] # mine[c] => \E n \in gaveUp : n <= got[c]
  <2> SUFFICES ASSUME got[c] # mine[c]
               PROVE  \E n \in gaveUp : n <= got[c]
    OBVIOUS
  <2>1. \A d \in Caller : mine[d] # got[c]
    BY <1>2, <1>3
  <2>2. 2 * got[c] + 1 >= Unread
    BY <1>3, <1>4
  <2> QED
    BY <1>3, <2>1, <2>2 DEF Counted, Abandoned
<1>6. Abandoned'
  <2> SUFFICES ASSUME NEW n \in 1..Len(sent'), 2 * n + 1 >= Unread'
               PROVE  \E g \in gaveUp' : g <= n
    BY DEF Abandoned
  <2>1. n \in 1..Len(sent) /\ 2 * n + 1 >= Unread /\ n > got[c]
    BY <1>3, <1>4
  <2>2. CASE mine[c] = n
    <3>1. PICK g \in gaveUp : g <= got[c]
      BY <1>5, <2>1, <2>2
    <3>2. g \in Nat /\ got[c] \in Nat /\ n \in Nat
      BY <1>3, <1>4, <2>1 DEF TypeOK
    <3> QED
      BY <1>1, <2>1, <3>1, <3>2
  <2>3. CASE mine[c] # n
    <3>1. \A d \in Caller : mine[d] # n
      BY <1>2, <2>1, <2>3
    <3> QED
      BY <1>1, <2>1, <3>1 DEF Counted, Abandoned
  <2> QED
    BY <2>2, <2>3
<1>7. TakenOnce'
  <2> SUFFICES ASSUME NEW d \in Caller, taken'[d] # None
               PROVE  LET t == taken'[d] IN
                        /\ t.request \in 1..Len(sent') /\ t.answer \in 1..Len(sent')
                        /\ sent'[t.answer] = sent'[t.request]
                        /\ t.answer # t.request =>
                             \E n \in gaveUp' : n <= t.answer /\ t.answer < t.request
    BY DEF TakenOnce
  <2>1. taken' = [taken EXCEPT ![c] = [request |-> mine[c], answer |-> got[c]]]
    BY DEF Take
  <2>2. CASE d = c
    <3>1. taken'[d].request = mine[c] /\ taken'[d].answer = got[c]
      BY <2>1, <2>2 DEF TypeOK
    <3>2. got[c] # mine[c] => got[c] < mine[c]
      BY <1>3, <1>4
    <3>3. mine[c] \in 1..Len(sent) /\ sent[got[c]] = sent[mine[c]]
      BY <1>3, <1>4
    <3> QED
      BY <1>1, <1>3, <1>5, <3>1, <3>2, <3>3
  <2>3. CASE d # c
    <3>1. taken'[d] = taken[d]
      BY <2>1, <2>3 DEF TypeOK
    <3> QED
      BY <1>1, <3>1 DEF Counted, TakenOnce
  <2> QED
    BY <2>2, <2>3
<1> QED
  BY <1>2, <1>6, <1>7 DEF Counted

\* One step keeps the count.
LEMMA CountedStep ==
  ASSUME TypeOK, Counted, [Next]_vars
  PROVE  Counted'
<1>1. Unread \in Int
  BY WireTypes
<1>2. ASSUME UNCHANGED <<callVars, wireVars>>
      PROVE  Counted'
  <2>1. InOrder' /\ Unread' = Unread /\ sent' = sent
    BY <1>2, WireSame DEF Counted, wireVars
  <2> QED
    BY <1>2, <2>1, QuietKeeps
<1>3. ASSUME NEW p \in Port, Dialed(p) \/ DialFails(p) \/ DialCancelled(p)
      PROVE  Counted'
  BY <1>2, <1>3 DEF Dialed, DialFails, DialCancelled
<1>4. ASSUME Join \/ Close \/ LateWatcher \/ UNCHANGED vars
      PROVE  Counted'
  BY <1>2, <1>4 DEF Join, Close, LateWatcher, CloseControl, vars
<1>5. ASSUME NEW c \in Caller, NEW m \in Command, NEW b \in BOOLEAN, Invoke(c, m, b)
      PROVE  Counted'
  <2>1. /\ UNCHANGED <<mine, got, taken, gaveUp, wireVars>>
        /\ pc[c] \in {"idle", "lock"}
    BY <1>5 DEF Invoke
  <2>2. pc' = [pc EXCEPT ![c] = "lock"] /\ holder' = holder
    BY <1>5 DEF Invoke
  <2>3. \A d \in Caller \ {c} : cmd'[d] = cmd[d]
    BY <1>5 DEF Invoke, TypeOK
  <2> QED
    BY <2>1, <2>2, <2>3, BeginKeeps, Zenon
<1>6. ASSUME NEW c \in Caller, Lock(c)
      PROVE  Counted'
  <2>1. /\ pc[c] \in {"idle", "lock"} /\ pc' = [pc EXCEPT ![c] = "write"]
        /\ holder = None /\ holder' = c
        /\ UNCHANGED <<mine, got, taken, gaveUp, wireVars, cmd>>
    BY <1>6 DEF Lock
  <2> QED
    BY <2>1, BeginKeeps
<1>7. ASSUME NEW c \in Caller, Write(c)
      PROVE  Counted'
  BY <1>7, WriteKeeps
<1>8. ASSUME NEW c \in Caller, ReadHead(c)
      PROVE  Counted'
  BY <1>8, HeadKeeps
<1>9. ASSUME NEW c \in Caller, ReadJunk(c)
      PROVE  Counted'
  <2>1. PICK k \in 1..Len(stream) : stream' = SubSeq(stream, k + 1, Len(stream))
    BY <1>9 DEF ReadJunk
  <2>2. /\ GiveUp(c) /\ InExchange(c)
        /\ UNCHANGED <<sent, inbox, half>>
    BY <1>9 DEF ReadJunk, InExchange
  <2>3. InOrder' /\ Unread' = Unread + k
    BY <2>1, <2>2, WireRead DEF Counted
  <2>4. k \in Nat
    BY LenProperties DEF TypeOK
  <2>5. Unread' \in Int /\ Unread' >= Unread
    BY <1>1, <2>3, <2>4
  <2> QED
    BY <2>2, <2>3, <2>5, GiveUpKeeps
<1>10. ASSUME NEW c \in Caller, ReadBody(c)
       PROVE  Counted'
  <2>1. /\ pc[c] = "body" /\ stream # << >> /\ stream' = Tail(stream)
        /\ UNCHANGED <<sent, inbox, half>> /\ InExchange(c)
        /\ IF sent[got[c]] = cmd[c] THEN Take(c) ELSE GiveUp(c)
    BY <1>10 DEF ReadBody, InExchange
  <2>2. InOrder' /\ Unread' = Unread + 1
    BY <2>1, WireNext DEF Counted
  <2>3. CASE sent[got[c]] = cmd[c]
    BY <2>1, <2>2, <2>3, TakeKeeps
  <2>4. CASE sent[got[c]] # cmd[c]
    <3>1. Unread' \in Int /\ Unread' >= Unread
      BY <1>1, <2>2
    <3> QED
      BY <2>1, <2>2, <2>4, <3>1, GiveUpKeeps
  <2> QED
    BY <2>3, <2>4
<1>11. ASSUME NEW c \in Caller, Expire(c) \/ Broken(c)
       PROVE  Counted'
  <2>1. InExchange(c) /\ GiveUp(c) /\ UNCHANGED wireVars
    BY <1>11 DEF Expire, Broken
  <2>2. InOrder' /\ Unread' = Unread /\ sent' = sent
    BY <2>1, WireSame DEF Counted, wireVars
  <2>3. Unread' \in Int /\ Unread' >= Unread
    BY <1>1, <2>2
  <2> QED
    BY <2>1, <2>2, <2>3, GiveUpKeeps
<1>12. ASSUME NEW c \in Caller, ContextEnds(c)
       PROVE  Counted'
  BY <1>2, <1>12 DEF ContextEnds, CloseControl
<1>13. ASSUME AnswerHead \/ AnswerBody
       PROVE  Counted'
  <2>1. InOrder' /\ Unread' = Unread
    BY <1>13, WireSend DEF Counted
  <2>2. UNCHANGED <<callVars, sent>>
    BY <1>13 DEF AnswerHead, AnswerBody
  <2> QED
    BY <2>1, <2>2, QuietKeeps
<1> QED
  BY <1>3, <1>4, <1>5, <1>6, <1>7, <1>8, <1>9, <1>10, <1>11, <1>12, <1>13 DEF Next

\* It holds when nothing was sent.
LEMMA CountedInit == Init => Counted
<1> SUFFICES ASSUME Init PROVE Counted
  OBVIOUS
<1>1. /\ sent = << >> /\ inbox = << >> /\ stream = << >> /\ Half = 0
      /\ Len(sent) = 0 /\ Len(inbox) = 0 /\ Len(stream) = 0
  BY DEF Init, Half
<1>2. Unread = 2
  BY <1>1 DEF Unread, NextRead
<1>3. InOrder
  BY <1>1, <1>2 DEF InOrder, InStep, Unread
<1>4. Exclusive
  BY KartLinkAssumption DEF Init, Exclusive, InExchange
<1>5. Abandoned /\ TakenOnce
  BY <1>1 DEF Init, Abandoned, TakenOnce
<1> QED
  BY <1>3, <1>4, <1>5 DEF Counted

\* A call takes the answer to its own request, or to an earlier one of the
\* same command after a request that is no later than that was given up.
THEOREM AnswersAreOwn == Spec => []OwnUnlessAbandoned
<1>1. TypeOK /\ Counted /\ [Next]_vars => Counted'
  BY CountedStep
<1>2. Counted => OwnUnlessAbandoned
  BY DEF Counted, TakenOnce, OwnUnlessAbandoned
<1> QED
  BY TypeCorrect, CountedInit, <1>1, <1>2, PTL DEF Spec

=============================================================================
