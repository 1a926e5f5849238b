-------------------------- MODULE LifecycleProofs --------------------------
(***************************************************************************)
(* Daemon processes, their socket and the pair command, for any number of  *)
(* instances and callers, however they start, stop, crash and meet.        *)
(***************************************************************************)
EXTENDS Lifecycle, TLAPS

\* What a call may be.
Kinds == {"unary", "wait", "stream", "restart"}

-----------------------------------------------------------------------------
(* The inductive invariants.                                               *)

\* Whoever may touch the path of a daemon that can be reached there was on its
\* way when it bound the path; one that met nobody can be reached there.
PathInv ==
  \A d \in Instance : Listening(d) =>
    /\ path = d => \A e \in Instance \ {d} : PastProbe(e) => e \in met[d]
    /\ met[d] = {} => path = d

\* The pairing session that the client has asked for is one of a daemon in
\* pairing mode; the daemon it speaks to is that one, or that one has stopped;
\* and it is to restore the mode only if it has had its answer.
AskedInv ==
  /\ \A d \in asked : mode[d] = "pairing"
  /\ \A d \in Instance :
       mode[d] # "off" => proc[d] \in {"serving", "stopping", "closing"}
  /\ cli.at \in {"idle", "asking"} => asked = {}
  /\ cli.at # "done" => \A d \in asked : proc[d] = "serving" => cli.on = d
  /\ cli.deferred => ~cli.web /\ cli.at \notin {"idle", "asking", "entered"}

-----------------------------------------------------------------------------
(* Types.                                                                  *)

\* Every step keeps the types.
LEMMA TypesStep ==
  ASSUME TypeOK, [Next]_vars
  PROVE  TypeOK'
<1>1. ASSUME NEW d \in Instance, LoadFails(d)
      PROVE  TypeOK'
  BY <1>1 DEF LoadFails, Leaves, At, TypeOK, processVars, modeVars
<1>2. ASSUME NEW d \in Instance, Probe(d)
      PROVE  TypeOK'
  BY <1>2 DEF Probe, At, TypeOK, processVars, modeVars
<1>3. ASSUME NEW d \in Instance, RemoveStale(d)
      PROVE  TypeOK'
  BY <1>3 DEF RemoveStale, At, TypeOK, processVars, modeVars
<1>4. ASSUME NEW d \in Instance, Listen(d)
      PROVE  TypeOK'
  BY <1>4 DEF Listen, At, TypeOK, processVars, modeVars
<1>5. ASSUME NEW d \in Instance, ListenFails(d)
      PROVE  TypeOK'
  BY <1>5 DEF ListenFails, Leaves, At, TypeOK, processVars, modeVars
<1>6. ASSUME NEW d \in Instance, Serve(d)
      PROVE  TypeOK'
  BY <1>6 DEF Serve, At, TypeOK, processVars, modeVars
<1>7. ASSUME NEW d \in Instance, StartFails(d)
      PROVE  TypeOK'
  BY <1>7 DEF StartFails, Leaves, At, TypeOK, processVars, modeVars
<1>8. ASSUME NEW d \in Instance, Signalled(d)
      PROVE  TypeOK'
  BY <1>8 DEF Signalled, GracefulStop, At, TypeOK, processVars, modeVars
<1>9. ASSUME NEW d \in Instance, RestartRequested(d)
      PROVE  TypeOK'
  BY <1>9 DEF RestartRequested, GracefulStop, At, TypeOK, processVars,
     modeVars
<1>10. ASSUME NEW d \in Instance, Drained(d)
      PROVE  TypeOK'
  BY <1>10 DEF Drained, At, TypeOK, processVars, modeVars
<1>11. ASSUME NEW d \in Instance, ServeError(d)
      PROVE  TypeOK'
  BY <1>11 DEF ServeError, At, OnCall, TypeOK, processVars, modeVars
<1>12. ASSUME NEW d \in Instance, CloseManager(d)
      PROVE  TypeOK'
  BY <1>12 DEF CloseManager, At, TypeOK, processVars, modeVars
<1>13. ASSUME NEW d \in Instance, Cleanup(d)
      PROVE  TypeOK'
  BY <1>13 DEF Cleanup, Dies, Leaves, At, OnCall, TypeOK, processVars,
     modeVars
<1>14. ASSUME NEW d \in Instance, Crash(d)
      PROVE  TypeOK'
  BY <1>14 DEF Crash, Dies, Leaves, At, OnCall, TypeOK, processVars, modeVars
<1>15. ASSUME NEW d \in Instance, PairingEnds(d)
      PROVE  TypeOK'
  BY <1>15 DEF PairingEnds, Normal, TypeOK, processVars, modeVars
<1>16. ASSUME NEW d \in Instance, StartPairing(d)
      PROVE  TypeOK'
  BY <1>16 DEF StartPairing, TypeOK, processVars, modeVars
<1>17. ASSUME NEW d \in Instance, StopPairing(d)
      PROVE  TypeOK'
  BY <1>17 DEF StopPairing, Normal, TypeOK, processVars, modeVars
<1>18. ASSUME NEW d \in Instance, PairEnters(d)
      PROVE  TypeOK'
  BY <1>18 DEF PairEnters, Through, TypeOK, processVars, modeVars
<1>19. ASSUME NEW d \in Instance, PairInfo(d)
      PROVE  TypeOK'
  <2>1. CASE mode[d] = "pairing" /\ Through("poll", d)
    BY <1>19, <2>1 DEF PairInfo, Through, Reaches, TypeOK, processVars,
       modeVars
  <2>2. CASE cli.web /\ Through("done", d)
    BY <1>19, <2>2 DEF PairInfo, Through, Reaches, TypeOK, processVars,
       modeVars
  <2>3. CASE ~cli.web /\ Through("restore", d)
    BY <1>19, <2>3 DEF PairInfo, Through, Reaches, TypeOK, processVars,
       modeVars
  <2> QED
    BY <1>19, <2>1, <2>2, <2>3 DEF PairInfo, Leave
<1>20. ASSUME NEW d \in Instance, Poll(d)
      PROVE  TypeOK'
  BY <1>20 DEF Poll, Through, Leave, Reaches, TypeOK, processVars, modeVars
<1>21. ASSUME NEW d \in Instance, AwaitPairing(d)
      PROVE  TypeOK'
  BY <1>21 DEF AwaitPairing, Through, Leave, Reaches, TypeOK, processVars,
     modeVars
<1>22. ASSUME NEW d \in Instance, Restore(d)
      PROVE  TypeOK'
  BY <1>22 DEF Restore, Through, Reaches, TypeOK, processVars, modeVars
<1>23. ASSUME NEW d \in Instance, Reset(d)
      PROVE  TypeOK'
  BY <1>23 DEF Reset, Through, Reaches, Normal, TypeOK, processVars, modeVars
<1>24. ASSUME NEW d \in Instance, NEW web \in BOOLEAN, PairAsks(d, web)
      PROVE  TypeOK'
  BY <1>24 DEF PairAsks, NoClient, TypeOK, processVars, modeVars
<1>25. ASSUME NEW c \in Caller, NEW kind \in Kinds, Issue(c, kind)
      PROVE  TypeOK'
  BY <1>25 DEF Issue, Kinds, TypeOK, processVars, modeVars
<1>26. ASSUME NEW c \in Caller, CallReturns(c)
      PROVE  TypeOK'
  BY <1>26 DEF CallReturns, Answered, TypeOK, processVars, modeVars
<1>27. ASSUME NEW c \in Caller, WaitReturns(c)
      PROVE  TypeOK'
  BY <1>27 DEF WaitReturns, Answered, TypeOK, processVars, modeVars
<1>28. ASSUME NEW c \in Caller, StreamReturns(c)
      PROVE  TypeOK'
  BY <1>28 DEF StreamReturns, Answered, TypeOK, processVars, modeVars
<1>29. ASSUME NEW c \in Caller, RestartReturns(c)
      PROVE  TypeOK'
  BY <1>29 DEF RestartReturns, Answered, TypeOK, processVars, modeVars
<1>30. ASSUME PairAnswered
      PROVE  TypeOK'
  BY <1>30 DEF PairAnswered, TypeOK, processVars, modeVars
<1>31. ASSUME PairUnanswered
      PROVE  TypeOK'
  BY <1>31 DEF PairUnanswered, Through, TypeOK, processVars, modeVars
<1>32. ASSUME PairFails
      PROVE  TypeOK'
  BY <1>32 DEF PairFails, Through, Leave, TypeOK, processVars, modeVars
<1>33. ASSUME RestoreFails
      PROVE  TypeOK'
  BY <1>33 DEF RestoreFails, TypeOK, processVars, modeVars
<1>34. ASSUME PairAgain
      PROVE  TypeOK'
  BY <1>34 DEF PairAgain, NoClient, TypeOK, processVars, modeVars
<1>35. ASSUME UNCHANGED vars
      PROVE  TypeOK'
  BY <1>35 DEF vars, TypeOK, processVars, modeVars
<1> QED
  BY <1>1, <1>2, <1>3, <1>4, <1>5, <1>6, <1>7, <1>8, <1>9, <1>10, <1>11,
     <1>12, <1>13, <1>14, <1>15, <1>16, <1>17, <1>18, <1>19, <1>20, <1>21,
     <1>22, <1>23, <1>24, <1>25, <1>26, <1>27, <1>28, <1>29, <1>30, <1>31,
     <1>32, <1>33, <1>34, <1>35 DEF Next, Proceed, Kinds

\* Every variable has its type: among them, that a call is on an instance and
\* that the path leads to an instance or nowhere.
THEOREM TypeCorrect == Spec => []TypeOK
<1>1. Init => TypeOK
  BY DEF Init, TypeOK, NoClient
<1>2. TypeOK /\ [Next]_vars => TypeOK'
  BY TypesStep
<1> QED
  BY <1>1, <1>2, PTL DEF Spec

-----------------------------------------------------------------------------
(* The path.                                                               *)

\* A step that leads past the probe is not taken while the path leads to a
\* daemon that listens, and one that acts on the path is taken past the probe.
LEMMA PathStep ==
  ASSUME TypeOK, PathInv, [Next]_vars
  PROVE  PathInv'
<1>1. ASSUME NEW d \in Instance, LoadFails(d)
      PROVE  PathInv'
  BY <1>1, LifecycleAssumption DEF LoadFails, Leaves, At, PathInv, Listening,
     PastProbe, TypeOK, processVars
<1>2. ASSUME NEW d \in Instance, Probe(d)
      PROVE  PathInv'
  BY <1>2, LifecycleAssumption DEF Probe, At, PathInv, Listening, PastProbe,
     TypeOK, processVars
<1>3. ASSUME NEW d \in Instance, RemoveStale(d)
      PROVE  PathInv'
  BY <1>3, LifecycleAssumption DEF RemoveStale, At, PathInv, Listening,
     PastProbe, TypeOK, processVars
<1>4. ASSUME NEW d \in Instance, Listen(d)
      PROVE  PathInv'
  BY <1>4, LifecycleAssumption DEF Listen, At, PathInv, Listening, PastProbe,
     TypeOK, processVars
<1>5. ASSUME NEW d \in Instance, ListenFails(d)
      PROVE  PathInv'
  BY <1>5, LifecycleAssumption DEF ListenFails, Leaves, At, PathInv,
     Listening, PastProbe, TypeOK, processVars
<1>6. ASSUME NEW d \in Instance, Serve(d)
      PROVE  PathInv'
  BY <1>6, LifecycleAssumption DEF Serve, At, PathInv, Listening, PastProbe,
     TypeOK, processVars
<1>7. ASSUME NEW d \in Instance, StartFails(d)
      PROVE  PathInv'
  BY <1>7, LifecycleAssumption DEF StartFails, Leaves, At, PathInv, Listening,
     PastProbe, TypeOK, processVars
<1>8. ASSUME NEW d \in Instance, Signalled(d)
      PROVE  PathInv'
  BY <1>8, LifecycleAssumption DEF Signalled, GracefulStop, At, PathInv,
     Listening, PastProbe, TypeOK, processVars
<1>9. ASSUME NEW d \in Instance, RestartRequested(d)
      PROVE  PathInv'
  BY <1>9, LifecycleAssumption DEF RestartRequested, GracefulStop, At,
     PathInv, Listening, PastProbe, TypeOK, processVars
<1>10. ASSUME NEW d \in Instance, Drained(d)
      PROVE  PathInv'
  BY <1>10, LifecycleAssumption DEF Drained, At, PathInv, Listening,
     PastProbe, TypeOK, processVars
<1>11. ASSUME NEW d \in Instance, ServeError(d)
      PROVE  PathInv'
  BY <1>11, LifecycleAssumption DEF ServeError, At, OnCall, PathInv,
     Listening, PastProbe, TypeOK, processVars
<1>12. ASSUME NEW d \in Instance, CloseManager(d)
      PROVE  PathInv'
  BY <1>12, LifecycleAssumption DEF CloseManager, At, PathInv, Listening,
     PastProbe, TypeOK, processVars
<1>13. ASSUME NEW d \in Instance, Cleanup(d)
      PROVE  PathInv'
  BY <1>13, LifecycleAssumption DEF Cleanup, Dies, Leaves, At, OnCall,
     PathInv, Listening, PastProbe, TypeOK, processVars
<1>14. ASSUME NEW d \in Instance, Crash(d)
      PROVE  PathInv'
  BY <1>14, LifecycleAssumption DEF Crash, Dies, Leaves, At, OnCall, PathInv,
     Listening, PastProbe, TypeOK, processVars
<1>15. ASSUME NEW d \in Instance,
              PairingEnds(d) \/ StartPairing(d) \/
              StopPairing(d) \/ PairEnters(d) \/ PairInfo(d)
      PROVE  PathInv'
  BY <1>15, LifecycleAssumption DEF PairingEnds, Normal, StartPairing,
     StopPairing, PairEnters, Through, PairInfo, Leave, Reaches, PathInv,
     Listening, PastProbe, TypeOK, processVars
<1>16. ASSUME NEW d \in Instance,
              Poll(d) \/ AwaitPairing(d) \/ Restore(d) \/
              Reset(d)
      PROVE  PathInv'
  BY <1>16, LifecycleAssumption DEF Poll, Through, Leave, Reaches,
     AwaitPairing, Restore, Reset, Normal, PathInv, Listening, PastProbe,
     TypeOK, processVars
<1>17. ASSUME NEW c \in Caller,
              (\E kind \in Kinds : Issue(c, kind)) \/
              CallReturns(c) \/ WaitReturns(c) \/
              StreamReturns(c) \/ RestartReturns(c)
      PROVE  PathInv'
  BY <1>17, LifecycleAssumption DEF Issue, CallReturns, WaitReturns,
     StreamReturns, RestartReturns, Answered, PathInv, Listening, PastProbe,
     TypeOK, processVars
<1>18. ASSUME NEW d \in Instance, NEW web \in BOOLEAN, PairAsks(d, web)
      PROVE  PathInv'
  BY <1>18, LifecycleAssumption DEF PairAsks, NoClient, PathInv, Listening,
     PastProbe, TypeOK, processVars
<1>19. ASSUME PairAnswered \/ PairUnanswered \/ PairFails \/ RestoreFails
              \/ PairAgain
      PROVE  PathInv'
  BY <1>19, LifecycleAssumption DEF PairAnswered, PairUnanswered, Through,
     PairFails, Leave, RestoreFails, PairAgain, NoClient, PathInv, Listening,
     PastProbe, TypeOK, processVars
<1>20. ASSUME UNCHANGED vars
      PROVE  PathInv'
  BY <1>20, LifecycleAssumption DEF vars, PathInv, Listening, PastProbe,
     TypeOK, processVars
<1> QED
  BY <1>1, <1>2, <1>3, <1>4, <1>5, <1>6, <1>7, <1>8, <1>9, <1>10, <1>11,
     <1>12, <1>13, <1>14, <1>15, <1>16, <1>17, <1>18, <1>19, <1>20 DEF Next,
     Proceed, Kinds

\* The path is with whoever listens, but for those that were on their way.
LEMMA PathIsHeld == Spec => []PathInv
<1>1. Init => PathInv
  BY DEF Init, PathInv, Listening
<1>2. TypeOK /\ PathInv /\ [Next]_vars => PathInv'
  BY PathStep
<1> QED
  BY TypeCorrect, <1>1, <1>2, PTL DEF Spec

\* A daemon that serves is reached at the path, unless another instance was on
\* its way past its probe when it bound the path.
THEOREM ServingIsReachable == Spec => []Reachable
<1>1. PathInv => Reachable
  BY DEF PathInv, Listening, Reachable
<1> QED
  BY PathIsHeld, <1>1, PTL

\* The socket of a daemon that listens is taken from the path by a step of that
\* daemon, or of an instance that was on its way when it bound the path.
TakenBy ==
  \A d \in Instance :
    Listening(d) /\ path = d /\ path' # d
      => \E e \in met[d] \cup {d} : proc'[e] # proc[e]

\* Whoever acts on the path is past its probe.
LEMMA TakenStep ==
  ASSUME TypeOK, PathInv, [Next]_vars
  PROVE  TakenBy
<1>1. ASSUME NEW d \in Instance, RemoveStale(d)
      PROVE  TakenBy
  BY <1>1 DEF RemoveStale, At, TakenBy, PathInv, Listening, PastProbe, TypeOK,
     processVars
<1>2. ASSUME NEW d \in Instance, Listen(d)
      PROVE  TakenBy
  BY <1>2 DEF Listen, At, TakenBy, PathInv, Listening, PastProbe, TypeOK,
     processVars
<1>3. ASSUME NEW d \in Instance, StartFails(d)
      PROVE  TakenBy
  BY <1>3 DEF StartFails, Leaves, At, TakenBy, PathInv, Listening, PastProbe,
     TypeOK, processVars
<1>4. ASSUME NEW d \in Instance, Signalled(d)
      PROVE  TakenBy
  BY <1>4 DEF Signalled, GracefulStop, At, TakenBy, PathInv, Listening,
     PastProbe, TypeOK, processVars
<1>5. ASSUME NEW d \in Instance, RestartRequested(d)
      PROVE  TakenBy
  BY <1>5 DEF RestartRequested, GracefulStop, At, TakenBy, PathInv, Listening,
     PastProbe, TypeOK, processVars
<1>6. ASSUME NEW d \in Instance, ServeError(d)
      PROVE  TakenBy
  BY <1>6 DEF ServeError, At, OnCall, TakenBy, PathInv, Listening, PastProbe,
     TypeOK, processVars
<1>7. ASSUME NEW d \in Instance, Cleanup(d)
      PROVE  TakenBy
  BY <1>7 DEF Cleanup, Dies, Leaves, At, OnCall, TakenBy, PathInv, Listening,
     PastProbe, TypeOK, processVars
<1>8. ASSUME NEW d \in Instance,
              LoadFails(d) \/ Probe(d) \/ ListenFails(d) \/
              Serve(d) \/ Drained(d)
      PROVE  TakenBy
  BY <1>8 DEF LoadFails, Leaves, At, Probe, ListenFails, Serve, Drained,
     TakenBy, PathInv, Listening, PastProbe, TypeOK, processVars
<1>9. ASSUME NEW d \in Instance,
              CloseManager(d) \/ Crash(d) \/ PairingEnds(d)
              \/ StartPairing(d) \/ StopPairing(d)
      PROVE  TakenBy
  BY <1>9 DEF CloseManager, At, Crash, Dies, Leaves, OnCall, PairingEnds,
     Normal, StartPairing, StopPairing, TakenBy, PathInv, Listening,
     PastProbe, TypeOK, processVars
<1>10. ASSUME NEW d \in Instance,
              PairEnters(d) \/ PairInfo(d) \/ Poll(d) \/
              AwaitPairing(d) \/ Restore(d)
      PROVE  TakenBy
  BY <1>10 DEF PairEnters, Through, PairInfo, Leave, Reaches, Poll,
     AwaitPairing, Restore, TakenBy, PathInv, Listening, PastProbe, TypeOK,
     processVars
<1>11. ASSUME NEW d \in Instance,
              Reset(d)
      PROVE  TakenBy
  BY <1>11 DEF Reset, Through, Reaches, Normal, TakenBy, PathInv, Listening,
     PastProbe, TypeOK, processVars
<1>12. ASSUME NEW c \in Caller,
              (\E kind \in Kinds : Issue(c, kind)) \/
              CallReturns(c) \/ WaitReturns(c) \/
              StreamReturns(c) \/ RestartReturns(c)
      PROVE  TakenBy
  BY <1>12 DEF Issue, CallReturns, WaitReturns, StreamReturns, RestartReturns,
     Answered, TakenBy, PathInv, Listening, PastProbe, TypeOK, processVars
<1>13. ASSUME NEW d \in Instance, NEW web \in BOOLEAN, PairAsks(d, web)
      PROVE  TakenBy
  BY <1>13 DEF PairAsks, NoClient, TakenBy, PathInv, Listening, PastProbe,
     TypeOK, processVars
<1>14. ASSUME PairAnswered \/ PairUnanswered \/ PairFails \/ RestoreFails
              \/ PairAgain
      PROVE  TakenBy
  BY <1>14 DEF PairAnswered, PairUnanswered, Through, PairFails, Leave,
     RestoreFails, PairAgain, NoClient, TakenBy, PathInv, Listening,
     PastProbe, TypeOK, processVars
<1>15. ASSUME UNCHANGED vars
      PROVE  TakenBy
  BY <1>15 DEF vars, TakenBy, PathInv, Listening, PastProbe, TypeOK,
     processVars
<1> QED
  BY <1>1, <1>2, <1>3, <1>4, <1>5, <1>6, <1>7, <1>8, <1>9, <1>10, <1>11,
     <1>12, <1>13, <1>14, <1>15 DEF Next, Proceed, Kinds

\* Nobody else takes the socket of a daemon that listens: not one that starts
\* later, and not the cleanup of one that was gone.
THEOREM TakenByOnesMet == Spec => [][TakenBy]_vars
<1>1. TypeOK /\ PathInv /\ [Next]_vars => [TakenBy]_vars
  BY TakenStep
<1> QED
  BY TypeCorrect, PathIsHeld, <1>1, PTL DEF Spec

-----------------------------------------------------------------------------
(* The calls.                                                              *)

\* Every step keeps calls away from a manager that is being closed.
LEMMA ClosedStep ==
  ASSUME TypeOK, ClosedAlone, [Next]_vars
  PROVE  ClosedAlone'
<1>1. ASSUME NEW d \in Instance, LoadFails(d)
      PROVE  ClosedAlone'
  BY <1>1 DEF LoadFails, Leaves, At, ClosedAlone, OnCall, Asking, InService,
     TypeOK, processVars
<1>2. ASSUME NEW d \in Instance, Probe(d)
      PROVE  ClosedAlone'
  BY <1>2 DEF Probe, At, ClosedAlone, OnCall, Asking, InService, TypeOK,
     processVars
<1>3. ASSUME NEW d \in Instance, RemoveStale(d)
      PROVE  ClosedAlone'
  BY <1>3 DEF RemoveStale, At, ClosedAlone, OnCall, Asking, InService, TypeOK,
     processVars
<1>4. ASSUME NEW d \in Instance, Listen(d)
      PROVE  ClosedAlone'
  BY <1>4 DEF Listen, At, ClosedAlone, OnCall, Asking, InService, TypeOK,
     processVars
<1>5. ASSUME NEW d \in Instance, ListenFails(d)
      PROVE  ClosedAlone'
  BY <1>5 DEF ListenFails, Leaves, At, ClosedAlone, OnCall, Asking, InService,
     TypeOK, processVars
<1>6. ASSUME NEW d \in Instance, Serve(d)
      PROVE  ClosedAlone'
  BY <1>6 DEF Serve, At, ClosedAlone, OnCall, Asking, InService, TypeOK,
     processVars
<1>7. ASSUME NEW d \in Instance, StartFails(d)
      PROVE  ClosedAlone'
  BY <1>7 DEF StartFails, Leaves, At, ClosedAlone, OnCall, Asking, InService,
     TypeOK, processVars
<1>8. ASSUME NEW d \in Instance, Signalled(d)
      PROVE  ClosedAlone'
  BY <1>8 DEF Signalled, GracefulStop, At, ClosedAlone, OnCall, Asking,
     InService, TypeOK, processVars
<1>9. ASSUME NEW d \in Instance, RestartRequested(d)
      PROVE  ClosedAlone'
  BY <1>9 DEF RestartRequested, GracefulStop, At, ClosedAlone, OnCall, Asking,
     InService, TypeOK, processVars
<1>10. ASSUME NEW d \in Instance, Drained(d)
      PROVE  ClosedAlone'
  BY <1>10 DEF Drained, At, ClosedAlone, OnCall, Asking, InService, TypeOK,
     processVars
<1>11. ASSUME NEW d \in Instance, ServeError(d)
      PROVE  ClosedAlone'
  BY <1>11 DEF ServeError, At, ClosedAlone, OnCall, Asking, InService, TypeOK,
     processVars
<1>12. ASSUME NEW d \in Instance, CloseManager(d)
      PROVE  ClosedAlone'
  BY <1>12 DEF CloseManager, At, ClosedAlone, OnCall, Asking, InService,
     TypeOK, processVars
<1>13. ASSUME NEW d \in Instance, Cleanup(d)
      PROVE  ClosedAlone'
  BY <1>13 DEF Cleanup, Dies, Leaves, At, ClosedAlone, OnCall, Asking,
     InService, TypeOK, processVars
<1>14. ASSUME NEW d \in Instance, Crash(d)
      PROVE  ClosedAlone'
  BY <1>14 DEF Crash, Dies, Leaves, At, ClosedAlone, OnCall, Asking,
     InService, TypeOK, processVars
<1>15. ASSUME NEW d \in Instance, PairingEnds(d)
      PROVE  ClosedAlone'
  BY <1>15 DEF PairingEnds, Normal, ClosedAlone, OnCall, Asking, InService,
     TypeOK, processVars
<1>16. ASSUME NEW d \in Instance, StartPairing(d)
      PROVE  ClosedAlone'
  BY <1>16 DEF StartPairing, ClosedAlone, OnCall, Asking, InService, TypeOK,
     processVars
<1>17. ASSUME NEW d \in Instance, StopPairing(d)
      PROVE  ClosedAlone'
  BY <1>17 DEF StopPairing, Normal, ClosedAlone, OnCall, Asking, InService,
     TypeOK, processVars
<1>18. ASSUME NEW d \in Instance, PairEnters(d)
      PROVE  ClosedAlone'
  BY <1>18 DEF PairEnters, Through, ClosedAlone, OnCall, Asking, InService,
     TypeOK, processVars
<1>19. ASSUME NEW d \in Instance, PairInfo(d)
      PROVE  ClosedAlone'
  <2>1. CASE mode[d] = "pairing" /\ Through("poll", d)
    BY <1>19, <2>1 DEF PairInfo, Through, Reaches, ClosedAlone, OnCall,
       Asking, InService, TypeOK, processVars
  <2>2. CASE cli.web /\ Through("done", d)
    BY <1>19, <2>2 DEF PairInfo, Through, Reaches, ClosedAlone, OnCall,
       Asking, InService, TypeOK, processVars
  <2>3. CASE ~cli.web /\ Through("restore", d)
    BY <1>19, <2>3 DEF PairInfo, Through, Reaches, ClosedAlone, OnCall,
       Asking, InService, TypeOK, processVars
  <2> QED
    BY <1>19, <2>1, <2>2, <2>3 DEF PairInfo, Leave
<1>20. ASSUME NEW d \in Instance, Poll(d)
      PROVE  ClosedAlone'
  BY <1>20 DEF Poll, Through, Leave, Reaches, ClosedAlone, OnCall, Asking,
     InService, TypeOK, processVars
<1>21. ASSUME NEW d \in Instance, AwaitPairing(d)
      PROVE  ClosedAlone'
  BY <1>21 DEF AwaitPairing, Through, Leave, Reaches, ClosedAlone, OnCall,
     Asking, InService, TypeOK, processVars
<1>22. ASSUME NEW d \in Instance, Restore(d)
      PROVE  ClosedAlone'
  BY <1>22 DEF Restore, Through, Reaches, ClosedAlone, OnCall, Asking,
     InService, TypeOK, processVars
<1>23. ASSUME NEW d \in Instance, Reset(d)
      PROVE  ClosedAlone'
  BY <1>23 DEF Reset, Through, Reaches, Normal, ClosedAlone, OnCall, Asking,
     InService, TypeOK, processVars
<1>24. ASSUME NEW d \in Instance, NEW web \in BOOLEAN, PairAsks(d, web)
      PROVE  ClosedAlone'
  BY <1>24 DEF PairAsks, NoClient, ClosedAlone, OnCall, Asking, InService,
     TypeOK, processVars
<1>25. ASSUME NEW c \in Caller, NEW kind \in Kinds, Issue(c, kind)
      PROVE  ClosedAlone'
  BY <1>25 DEF Issue, Kinds, ClosedAlone, OnCall, Asking, InService, TypeOK,
     processVars
<1>26. ASSUME NEW c \in Caller, CallReturns(c)
      PROVE  ClosedAlone'
  BY <1>26 DEF CallReturns, Answered, ClosedAlone, OnCall, Asking, InService,
     TypeOK, processVars
<1>27. ASSUME NEW c \in Caller, WaitReturns(c)
      PROVE  ClosedAlone'
  BY <1>27 DEF WaitReturns, Answered, ClosedAlone, OnCall, Asking, InService,
     TypeOK, processVars
<1>28. ASSUME NEW c \in Caller, StreamReturns(c)
      PROVE  ClosedAlone'
  BY <1>28 DEF StreamReturns, Answered, ClosedAlone, OnCall, Asking,
     InService, TypeOK, processVars
<1>29. ASSUME NEW c \in Caller, RestartReturns(c)
      PROVE  ClosedAlone'
  BY <1>29 DEF RestartReturns, Answered, ClosedAlone, OnCall, Asking,
     InService, TypeOK, processVars
<1>30. ASSUME PairAnswered
      PROVE  ClosedAlone'
  BY <1>30 DEF PairAnswered, ClosedAlone, OnCall, Asking, InService, TypeOK,
     processVars
<1>31. ASSUME PairUnanswered
      PROVE  ClosedAlone'
  BY <1>31 DEF PairUnanswered, Through, ClosedAlone, OnCall, Asking,
     InService, TypeOK, processVars
<1>32. ASSUME PairFails
      PROVE  ClosedAlone'
  BY <1>32 DEF PairFails, Through, Leave, ClosedAlone, OnCall, Asking,
     InService, TypeOK, processVars
<1>33. ASSUME RestoreFails
      PROVE  ClosedAlone'
  BY <1>33 DEF RestoreFails, ClosedAlone, OnCall, Asking, InService, TypeOK,
     processVars
<1>34. ASSUME PairAgain
      PROVE  ClosedAlone'
  BY <1>34 DEF PairAgain, NoClient, ClosedAlone, OnCall, Asking, InService,
     TypeOK, processVars
<1>35. ASSUME UNCHANGED vars
      PROVE  ClosedAlone'
  BY <1>35 DEF vars, ClosedAlone, OnCall, Asking, InService, TypeOK,
     processVars
<1> QED
  BY <1>1, <1>2, <1>3, <1>4, <1>5, <1>6, <1>7, <1>8, <1>9, <1>10, <1>11,
     <1>12, <1>13, <1>14, <1>15, <1>16, <1>17, <1>18, <1>19, <1>20, <1>21,
     <1>22, <1>23, <1>24, <1>25, <1>26, <1>27, <1>28, <1>29, <1>30, <1>31,
     <1>32, <1>33, <1>34, <1>35 DEF Next, Proceed, Kinds

\* The manager is closed under no call, unless serving itself has failed: a
\* graceful stop has let every call return, and nobody issues one after it.
THEOREM ClosedUnderNoCall == Spec => []ClosedAlone
<1>1. Init => ClosedAlone
  BY DEF Init, ClosedAlone
<1>2. TypeOK /\ ClosedAlone /\ [Next]_vars => ClosedAlone'
  BY ClosedStep
<1> QED
  BY TypeCorrect, <1>1, <1>2, PTL DEF Spec

-----------------------------------------------------------------------------
(* Pairing.                                                                *)

\* A daemon does not serve again, and a new connection is made only when the
\* daemon of the old one does not serve.
LEMMA AskedStep ==
  ASSUME TypeOK, AskedInv, [Next]_vars
  PROVE  AskedInv'
<1>1. ASSUME NEW d \in Instance, Serve(d)
      PROVE  AskedInv'
  BY <1>1 DEF Serve, At, AskedInv, InService, TypeOK, processVars, modeVars
<1>2. ASSUME NEW d \in Instance, Signalled(d)
      PROVE  AskedInv'
  BY <1>2 DEF Signalled, GracefulStop, At, AskedInv, InService, TypeOK,
     processVars, modeVars
<1>3. ASSUME NEW d \in Instance, RestartRequested(d)
      PROVE  AskedInv'
  BY <1>3 DEF RestartRequested, GracefulStop, At, AskedInv, InService, TypeOK,
     processVars, modeVars
<1>4. ASSUME NEW d \in Instance, Drained(d)
      PROVE  AskedInv'
  BY <1>4 DEF Drained, At, AskedInv, InService, TypeOK, processVars, modeVars
<1>5. ASSUME NEW d \in Instance, ServeError(d)
      PROVE  AskedInv'
  BY <1>5 DEF ServeError, At, OnCall, AskedInv, InService, TypeOK,
     processVars, modeVars
<1>6. ASSUME NEW d \in Instance, CloseManager(d)
      PROVE  AskedInv'
  BY <1>6 DEF CloseManager, At, AskedInv, InService, TypeOK, processVars,
     modeVars
<1>7. ASSUME NEW d \in Instance, Cleanup(d)
      PROVE  AskedInv'
  BY <1>7 DEF Cleanup, Dies, Leaves, At, OnCall, AskedInv, InService, TypeOK,
     processVars, modeVars
<1>8. ASSUME NEW d \in Instance, Crash(d)
      PROVE  AskedInv'
  BY <1>8 DEF Crash, Dies, Leaves, At, OnCall, AskedInv, InService, TypeOK,
     processVars, modeVars
<1>9. ASSUME NEW d \in Instance, PairingEnds(d)
      PROVE  AskedInv'
  BY <1>9 DEF PairingEnds, Normal, AskedInv, InService, TypeOK, processVars,
     modeVars
<1>10. ASSUME NEW d \in Instance, StartPairing(d)
      PROVE  AskedInv'
  BY <1>10 DEF StartPairing, AskedInv, InService, TypeOK, processVars,
     modeVars
<1>11. ASSUME NEW d \in Instance, StopPairing(d)
      PROVE  AskedInv'
  BY <1>11 DEF StopPairing, Normal, AskedInv, InService, TypeOK, processVars,
     modeVars
<1>12. ASSUME NEW d \in Instance, PairEnters(d)
      PROVE  AskedInv'
  BY <1>12 DEF PairEnters, Through, AskedInv, InService, TypeOK, processVars,
     modeVars
<1>13. ASSUME NEW d \in Instance, PairInfo(d)
      PROVE  AskedInv'
  <2>1. CASE mode[d] = "pairing" /\ Through("poll", d)
    BY <1>13, <2>1 DEF PairInfo, Through, Reaches, AskedInv, InService,
       TypeOK, processVars, modeVars
  <2>2. CASE cli.web /\ Through("done", d)
    BY <1>13, <2>2 DEF PairInfo, Through, Reaches, AskedInv, InService,
       TypeOK, processVars, modeVars
  <2>3. CASE ~cli.web /\ Through("restore", d)
    BY <1>13, <2>3 DEF PairInfo, Through, Reaches, AskedInv, InService,
       TypeOK, processVars, modeVars
  <2> QED
    BY <1>13, <2>1, <2>2, <2>3 DEF PairInfo, Leave
<1>14. ASSUME NEW d \in Instance, Poll(d)
      PROVE  AskedInv'
  BY <1>14 DEF Poll, Through, Leave, Reaches, AskedInv, InService, TypeOK,
     processVars, modeVars
<1>15. ASSUME NEW d \in Instance, AwaitPairing(d)
      PROVE  AskedInv'
  BY <1>15 DEF AwaitPairing, Through, Leave, Reaches, AskedInv, InService,
     TypeOK, processVars, modeVars
<1>16. ASSUME NEW d \in Instance, Restore(d)
      PROVE  AskedInv'
  BY <1>16 DEF Restore, Through, Reaches, AskedInv, InService, TypeOK,
     processVars, modeVars
<1>17. ASSUME NEW d \in Instance, Reset(d)
      PROVE  AskedInv'
  BY <1>17 DEF Reset, Through, Reaches, Normal, AskedInv, InService, TypeOK,
     processVars, modeVars
<1>18. ASSUME NEW d \in Instance, NEW web \in BOOLEAN, PairAsks(d, web)
      PROVE  AskedInv'
  BY <1>18 DEF PairAsks, NoClient, AskedInv, InService, TypeOK, processVars,
     modeVars
<1>19. ASSUME PairAnswered
      PROVE  AskedInv'
  BY <1>19 DEF PairAnswered, AskedInv, InService, TypeOK, processVars,
     modeVars
<1>20. ASSUME PairUnanswered
      PROVE  AskedInv'
  BY <1>20 DEF PairUnanswered, Through, AskedInv, InService, TypeOK,
     processVars, modeVars
<1>21. ASSUME PairFails
      PROVE  AskedInv'
  BY <1>21 DEF PairFails, Through, Leave, AskedInv, InService, TypeOK,
     processVars, modeVars
<1>22. ASSUME RestoreFails
      PROVE  AskedInv'
  BY <1>22 DEF RestoreFails, AskedInv, InService, TypeOK, processVars,
     modeVars
<1>23. ASSUME PairAgain
      PROVE  AskedInv'
  BY <1>23 DEF PairAgain, NoClient, AskedInv, InService, TypeOK, processVars,
     modeVars
<1>24. ASSUME NEW d \in Instance,
              LoadFails(d) \/ Probe(d) \/ RemoveStale(d) \/
              Listen(d) \/ ListenFails(d)
      PROVE  AskedInv'
  BY <1>24 DEF LoadFails, Leaves, At, Probe, RemoveStale, Listen, ListenFails,
     AskedInv, InService, TypeOK, processVars, modeVars
<1>25. ASSUME NEW d \in Instance,
              StartFails(d)
      PROVE  AskedInv'
  BY <1>25 DEF StartFails, Leaves, At, AskedInv, InService, TypeOK,
     processVars, modeVars
<1>26. ASSUME NEW c \in Caller,
              (\E kind \in Kinds : Issue(c, kind)) \/
              CallReturns(c) \/ WaitReturns(c) \/
              StreamReturns(c) \/ RestartReturns(c)
      PROVE  AskedInv'
  BY <1>26 DEF Issue, CallReturns, WaitReturns, StreamReturns, RestartReturns,
     Answered, AskedInv, InService, TypeOK, processVars, modeVars
<1>27. ASSUME UNCHANGED vars
      PROVE  AskedInv'
  BY <1>27 DEF vars, AskedInv, InService, TypeOK, processVars, modeVars
<1> QED
  BY <1>1, <1>2, <1>3, <1>4, <1>5, <1>6, <1>7, <1>8, <1>9, <1>10, <1>11,
     <1>12, <1>13, <1>14, <1>15, <1>16, <1>17, <1>18, <1>19, <1>20, <1>21,
     <1>22, <1>23, <1>24, <1>25, <1>26, <1>27 DEF Next, Proceed, Kinds

\* The pair command speaks to the daemon whose pairing session it asked for
\* until that one stops serving.
THEOREM SessionIsFollowed == Spec => []AskedInv
<1>1. Init => AskedInv
  BY DEF Init, AskedInv, NoClient
<1>2. TypeOK /\ AskedInv /\ [Next]_vars => AskedInv'
  BY AskedStep
<1> QED
  BY TypeCorrect, <1>1, <1>2, PTL DEF Spec

\* Every step keeps the pair command from leaving its session behind.
LEMMA RestoreStep ==
  ASSUME TypeOK, AskedInv, PairRestores, [Next]_vars
  PROVE  PairRestores'
<1>1. ASSUME NEW d \in Instance, Serve(d)
      PROVE  PairRestores'
  BY <1>1 DEF Serve, At, PairRestores, LeftBehind, AskedInv, TypeOK,
     processVars, modeVars
<1>2. ASSUME NEW d \in Instance, Signalled(d)
      PROVE  PairRestores'
  BY <1>2 DEF Signalled, GracefulStop, At, PairRestores, LeftBehind, AskedInv,
     TypeOK, processVars, modeVars
<1>3. ASSUME NEW d \in Instance, RestartRequested(d)
      PROVE  PairRestores'
  BY <1>3 DEF RestartRequested, GracefulStop, At, PairRestores, LeftBehind,
     AskedInv, TypeOK, processVars, modeVars
<1>4. ASSUME NEW d \in Instance, Drained(d)
      PROVE  PairRestores'
  BY <1>4 DEF Drained, At, PairRestores, LeftBehind, AskedInv, TypeOK,
     processVars, modeVars
<1>5. ASSUME NEW d \in Instance, ServeError(d)
      PROVE  PairRestores'
  BY <1>5 DEF ServeError, At, OnCall, PairRestores, LeftBehind, AskedInv,
     TypeOK, processVars, modeVars
<1>6. ASSUME NEW d \in Instance, CloseManager(d)
      PROVE  PairRestores'
  BY <1>6 DEF CloseManager, At, PairRestores, LeftBehind, AskedInv, TypeOK,
     processVars, modeVars
<1>7. ASSUME NEW d \in Instance, Cleanup(d)
      PROVE  PairRestores'
  BY <1>7 DEF Cleanup, Dies, Leaves, At, OnCall, PairRestores, LeftBehind,
     AskedInv, TypeOK, processVars, modeVars
<1>8. ASSUME NEW d \in Instance, Crash(d)
      PROVE  PairRestores'
  BY <1>8 DEF Crash, Dies, Leaves, At, OnCall, PairRestores, LeftBehind,
     AskedInv, TypeOK, processVars, modeVars
<1>9. ASSUME NEW d \in Instance, PairingEnds(d)
      PROVE  PairRestores'
  BY <1>9 DEF PairingEnds, Normal, PairRestores, LeftBehind, AskedInv, TypeOK,
     processVars, modeVars
<1>10. ASSUME NEW d \in Instance, StartPairing(d)
      PROVE  PairRestores'
  BY <1>10 DEF StartPairing, PairRestores, LeftBehind, AskedInv, TypeOK,
     processVars, modeVars
<1>11. ASSUME NEW d \in Instance, StopPairing(d)
      PROVE  PairRestores'
  BY <1>11 DEF StopPairing, Normal, PairRestores, LeftBehind, AskedInv,
     TypeOK, processVars, modeVars
<1>12. ASSUME NEW d \in Instance, PairEnters(d)
      PROVE  PairRestores'
  BY <1>12 DEF PairEnters, Through, PairRestores, LeftBehind, AskedInv,
     TypeOK, processVars, modeVars
<1>13. ASSUME NEW d \in Instance, PairInfo(d)
      PROVE  PairRestores'
  <2>1. CASE mode[d] = "pairing" /\ Through("poll", d)
    BY <1>13, <2>1 DEF PairInfo, Through, Reaches, PairRestores, LeftBehind,
       AskedInv, TypeOK, processVars, modeVars
  <2>2. CASE cli.web /\ Through("done", d)
    BY <1>13, <2>2 DEF PairInfo, Through, Reaches, PairRestores, LeftBehind,
       AskedInv, TypeOK, processVars, modeVars
  <2>3. CASE ~cli.web /\ Through("restore", d)
    BY <1>13, <2>3 DEF PairInfo, Through, Reaches, PairRestores, LeftBehind,
       AskedInv, TypeOK, processVars, modeVars
  <2> QED
    BY <1>13, <2>1, <2>2, <2>3 DEF PairInfo, Leave
<1>14. ASSUME NEW d \in Instance, Poll(d)
      PROVE  PairRestores'
  BY <1>14 DEF Poll, Through, Leave, Reaches, PairRestores, LeftBehind,
     AskedInv, TypeOK, processVars, modeVars
<1>15. ASSUME NEW d \in Instance, AwaitPairing(d)
      PROVE  PairRestores'
  BY <1>15 DEF AwaitPairing, Through, Leave, Reaches, PairRestores,
     LeftBehind, AskedInv, TypeOK, processVars, modeVars
<1>16. ASSUME NEW d \in Instance, Restore(d)
      PROVE  PairRestores'
  BY <1>16 DEF Restore, Through, Reaches, PairRestores, LeftBehind, AskedInv,
     TypeOK, processVars, modeVars
<1>17. ASSUME NEW d \in Instance, Reset(d)
      PROVE  PairRestores'
  BY <1>17 DEF Reset, Through, Reaches, Normal, PairRestores, LeftBehind,
     AskedInv, TypeOK, processVars, modeVars
<1>18. ASSUME NEW d \in Instance, NEW web \in BOOLEAN, PairAsks(d, web)
      PROVE  PairRestores'
  BY <1>18 DEF PairAsks, NoClient, PairRestores, LeftBehind, AskedInv, TypeOK,
     processVars, modeVars
<1>19. ASSUME PairAnswered
      PROVE  PairRestores'
  BY <1>19 DEF PairAnswered, PairRestores, LeftBehind, AskedInv, TypeOK,
     processVars, modeVars
<1>20. ASSUME PairUnanswered
      PROVE  PairRestores'
  BY <1>20 DEF PairUnanswered, Through, PairRestores, LeftBehind, AskedInv,
     TypeOK, processVars, modeVars
<1>21. ASSUME PairFails
      PROVE  PairRestores'
  BY <1>21 DEF PairFails, Through, Leave, PairRestores, LeftBehind, AskedInv,
     TypeOK, processVars, modeVars
<1>22. ASSUME RestoreFails
      PROVE  PairRestores'
  BY <1>22 DEF RestoreFails, PairRestores, LeftBehind, AskedInv, TypeOK,
     processVars, modeVars
<1>23. ASSUME PairAgain
      PROVE  PairRestores'
  BY <1>23 DEF PairAgain, NoClient, PairRestores, LeftBehind, AskedInv,
     TypeOK, processVars, modeVars
<1>24. ASSUME NEW d \in Instance,
              LoadFails(d) \/ Probe(d) \/ RemoveStale(d) \/
              Listen(d) \/ ListenFails(d)
      PROVE  PairRestores'
  BY <1>24 DEF LoadFails, Leaves, At, Probe, RemoveStale, Listen, ListenFails,
     PairRestores, LeftBehind, AskedInv, TypeOK, processVars, modeVars
<1>25. ASSUME NEW d \in Instance,
              StartFails(d)
      PROVE  PairRestores'
  BY <1>25 DEF StartFails, Leaves, At, PairRestores, LeftBehind, AskedInv,
     TypeOK, processVars, modeVars
<1>26. ASSUME NEW c \in Caller,
              (\E kind \in Kinds : Issue(c, kind)) \/
              CallReturns(c) \/ WaitReturns(c) \/
              StreamReturns(c) \/ RestartReturns(c)
      PROVE  PairRestores'
  BY <1>26 DEF Issue, CallReturns, WaitReturns, StreamReturns, RestartReturns,
     Answered, PairRestores, LeftBehind, AskedInv, TypeOK, processVars,
     modeVars
<1>27. ASSUME UNCHANGED vars
      PROVE  PairRestores'
  BY <1>27 DEF vars, PairRestores, LeftBehind, AskedInv, TypeOK, processVars,
     modeVars
<1> QED
  BY <1>1, <1>2, <1>3, <1>4, <1>5, <1>6, <1>7, <1>8, <1>9, <1>10, <1>11,
     <1>12, <1>13, <1>14, <1>15, <1>16, <1>17, <1>18, <1>19, <1>20, <1>21,
     <1>22, <1>23, <1>24, <1>25, <1>26, <1>27 DEF Next, Proceed, Kinds

\* Once it has the answer to its request, the pair command does not leave
\* behind the pairing mode it asked for, if its last two calls are answered:
\* they are answered by the daemon that was asked, or that one has stopped.
THEOREM PairingIsRestored == Spec => []PairRestores
<1>1. Init => PairRestores
  BY DEF Init, PairRestores, NoClient
<1>2. TypeOK /\ AskedInv /\ PairRestores /\ [Next]_vars => PairRestores'
  BY RestoreStep
<1> QED
  BY TypeCorrect, SessionIsFollowed, <1>1, <1>2, PTL DEF Spec

=============================================================================
