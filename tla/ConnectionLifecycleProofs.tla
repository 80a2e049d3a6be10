--------------------- MODULE ConnectionLifecycleProofs ---------------------
(***************************************************************************)
(* Theorems about the connection coordinator, for every set of calls and   *)
(* pools, both dialects and any number of failures: the invariants of its  *)
(* states; what a step may do, that is what it announces, whom it lets in, *)
(* and that close() is final; and that every step is a step of             *)
(* LifecycleContract or none.                                              *)
(***************************************************************************)
EXTENDS ConnectionLifecycle, TLAPS

USE ConstantsAssumption

(* The two composite handlers keep the types of what they assign.          *)
ServiceTypes ==
    /\ connectionState' \in {"connecting", "ready", "reconnecting", "closing"}
    /\ connectionTask' \in Loops \cup {None}
    /\ flags' \subseteq {"connectedBefore", "disconnectAnnounced"}
    /\ healthTimer' \in {"armed", "cleared"} /\ readiness' \in {"ready", "unready"}
    /\ event' \in {"none", "ready", "disconnected", "reconnected"}
    /\ pool' \in Pools \cup {None}
    /\ pc' \in [Loops -> Active \cup {"idle"}]
    /\ victim' \in [Loops -> Pools \cup {None}]

LEMMA BeginRepairTypes ==
    ASSUME TypeOK, NEW base \in [Loops -> Active \cup {"idle"}], BeginRepair(base)
    PROVE  ServiceTypes
  <1>1. PICK l \in Loops : /\ connectionTask' = l
                           /\ pc' = [base EXCEPT ![l] = "closing"]
                           /\ victim' = [victim EXCEPT ![l] = pool]
                           /\ pool' = None /\ readiness' = "unready"
    BY DEF BeginRepair, StartLoop
  <1>2. /\ pc' \in [Loops -> Active \cup {"idle"}]
        /\ victim' \in [Loops -> Pools \cup {None}]
    BY <1>1 DEF TypeOK, Active
  <1>3. flags' \subseteq {"connectedBefore", "disconnectAnnounced"}
    BY DEF TypeOK, BeginRepair
  <1> QED BY <1>1, <1>2, <1>3 DEF TypeOK, ServiceTypes, BeginRepair

LEMMA EnsureTypes ==
    ASSUME TypeOK, EnsureConnectionLoop
    PROVE  ServiceTypes
  <1>1. CASE BeginRepair(pc)
    BY <1>1, BeginRepairTypes DEF TypeOK
  <1>2. CASE UNCHANGED <<service, driver, loop>>
    BY <1>2 DEF TypeOK, ServiceTypes, service, driver, loop
  <1> QED BY <1>1, <1>2 DEF EnsureConnectionLoop

LEMMA ReportTypes ==
    ASSUME TypeOK, ReportFatalError
    PROVE  ServiceTypes
  <1> USE DEF service, loop
  <1>1. flags' \subseteq {"connectedBefore", "disconnectAnnounced"}
    BY DEF TypeOK, ReportFatalError
  <1>2. CASE StartLoop(pc)
    <2>1. PICK l \in Loops : /\ connectionTask' = l
                             /\ pc' = [pc EXCEPT ![l] = "closing"]
                             /\ victim' = [victim EXCEPT ![l] = pool]
                             /\ pool' = None /\ readiness' = "unready"
      BY <1>2 DEF StartLoop
    <2>2. /\ pc' \in [Loops -> Active \cup {"idle"}]
          /\ victim' \in [Loops -> Pools \cup {None}]
      BY <2>1 DEF TypeOK, Active
    <2> QED BY <1>1, <2>1, <2>2 DEF TypeOK, ServiceTypes, ReportFatalError
  <1>3. CASE ~StartLoop(pc)
    BY <1>1, <1>3 DEF TypeOK, ServiceTypes, ReportFatalError
  <1> QED BY <1>2, <1>3

LEMMA TypeStep ==
    ASSUME TypeOK, [Next]_vars
    PROVE  TypeOK'
  <1> USE DEF service, driver, loop, calls, closing, Fault, Settle, Released
  <1>1. CASE Start
    BY <1>1, EnsureTypes DEF Start, TypeOK, ServiceTypes
  <1>2. CASE Close
    BY <1>2 DEF Close, TypeOK, Active
  <1>3. CASE CloseDriver
    BY <1>3 DEF CloseDriver, TypeOK
  <1>4. CASE CloseDone
    BY <1>4 DEF CloseDone, EndSettles, TypeOK
  <1>5. CASE HealthTick
    BY <1>5 DEF HealthTick, TypeOK
  <1>6. CASE IdleClientFails
    BY <1>6, ReportTypes DEF IdleClientFails, TypeOK, ServiceTypes
  <1>7. ASSUME NEW p \in Pools, HealthPasses(p) \/ HealthFails(p)
        PROVE  TypeOK'
    <2>1. CASE HealthPasses(p)
      BY <2>1 DEF HealthPasses, TypeOK
    <2>2. CASE HealthFails(p)
      BY <2>2, ReportTypes DEF HealthFails, TypeOK, ServiceTypes
    <2> QED BY <1>7, <2>1, <2>2
  <1>8. ASSUME NEW l \in Loops, LoopStep(l) \/ CloseOldPoolFails(l) \/ ConnectFails(l)
        PROVE  TypeOK'
    <2> USE DEF Goto, DetachPool, EndSettles, Active
    <2>1. CASE ClosedOldPool(l)
      BY <2>1 DEF ClosedOldPool, TypeOK
    <2>2. CASE ProbeAnswers(l)
      BY <2>2 DEF ProbeAnswers, TypeOK
    <2>3. CASE TypesRefreshed(l)
      BY <2>3 DEF TypesRefreshed, TypeOK
    <2>4. CASE ConnectRejects(l)
      BY <2>4 DEF ConnectRejects, TypeOK
    <2>5. CASE AttemptFailed(l)
      BY <2>5 DEF AttemptFailed, TypeOK
    <2>6. CASE RetryTimerFires(l)
      BY <2>6 DEF RetryTimerFires, TypeOK
    <2>7. CASE NextAttempt(l)
      BY <2>7 DEF NextAttempt, TypeOK
    <2>8. CASE Connected(l)
      <3>1. /\ flags' \subseteq {"connectedBefore", "disconnectAnnounced"}
            /\ stage' \in [Callers -> {"idle", "waiting", "granted", "holding", "querying",
                                       "failing"}]
        BY <2>8 DEF Connected, Publish, ResolveWaiters, TypeOK
      <3>2. /\ pc' \in [Loops -> Active \cup {"idle"}]
            /\ victim' \in [Loops -> Pools \cup {None}]
        BY <2>8 DEF Connected, Publish, TypeOK
      <3> QED BY <2>8, <3>1, <3>2 DEF Connected, Publish, TypeOK
    <2>9. CASE Aborted(l)
      BY <2>9 DEF Aborted, TypeOK
    <2>10. CASE TaskSettles(l)
      <3> DEFINE settled == [pc EXCEPT ![l] = "idle"]
      <3>1. settled \in [Loops -> Active \cup {"idle"}]
        BY DEF TypeOK
      <3>2. CASE BeginRepair(settled)
        <4>1. ServiceTypes
          BY <3>1, <3>2, BeginRepairTypes
        <4>2. UNCHANGED <<calls, closing, retryTimer, checks, open, faults>>
          BY <2>10 DEF TaskSettles
        <4> QED BY <4>1, <4>2 DEF ServiceTypes, TypeOK, calls, closing
      <3>3. CASE ~BeginRepair(settled)
        <4>1. pc' = settled /\ UNCHANGED <<service, driver, victim>>
          BY <2>10, <3>3 DEF TaskSettles
        <4>2. connectionTask' \in Loops \cup {None}
          BY <2>10, <3>3 DEF TaskSettles, TypeOK
        <4> QED BY <2>10, <3>1, <4>1, <4>2 DEF TaskSettles, TypeOK
      <3> QED BY <3>2, <3>3
    <2>11. CASE CloseOldPoolFails(l)
      BY <2>11 DEF CloseOldPoolFails, TypeOK
    <2>12. CASE ConnectFails(l)
      BY <2>12 DEF ConnectFails, TypeOK
    <2> QED BY <1>8, <2>1, <2>2, <2>3, <2>4, <2>5, <2>6, <2>7, <2>8, <2>9, <2>10,
               <2>11, <2>12 DEF LoopStep
  <1>9. ASSUME NEW c \in Callers,
               AwaitConnection(c) \/ WaitTimeout(c) \/ CallStep(c) \/ CallLosesConnection(c)
        PROVE  TypeOK'
    <2>1. CASE AwaitConnection(c)
      <3>1. ServiceTypes
        BY <2>1, EnsureTypes DEF AwaitConnection, TypeOK, ServiceTypes
      <3>2. /\ stage' \in [Callers -> {"idle", "waiting", "granted", "holding", "querying",
                                       "failing"}]
            /\ conn' \in [Callers -> Pools \cup {None}]
            /\ query' \in [Callers -> Pools \cup {None}]
        BY <2>1 DEF AwaitConnection, TypeOK
      <3> QED BY <2>1, <3>1, <3>2 DEF AwaitConnection, TypeOK, ServiceTypes
    <2>2. CASE WaitTimeout(c)
      BY <2>2 DEF WaitTimeout, TypeOK
    <2>3. CASE UsePool(c)
      BY <2>3 DEF UsePool, TypeOK
    <2>4. CASE CallReturns(c)
      BY <2>4 DEF CallReturns, TypeOK
    <2>5. CASE CallUnwinds(c)
      BY <2>5 DEF CallUnwinds, TypeOK
    <2>6. CASE CallFindsPoolEnded(c) \/ CallLosesConnection(c)
      <3>1. ServiceTypes
        BY <2>6, ReportTypes DEF CallFindsPoolEnded, CallLosesConnection, FatalError
      <3> QED BY <2>6, <3>1
              DEF CallFindsPoolEnded, CallLosesConnection, FatalError, TypeOK, ServiceTypes
    <2> QED BY <1>9, <2>1, <2>2, <2>3, <2>4, <2>5, <2>6 DEF CallStep
  <1>10. CASE UNCHANGED vars
    BY <1>10 DEF vars, TypeOK
  <1> QED BY <1>1, <1>2, <1>3, <1>4, <1>5, <1>6, <1>7, <1>8, <1>9, <1>10 DEF Next

(* Every variable stays within its type: in particular the coordinator is  *)
(* only ever in one of the four documented states.                         *)
THEOREM TypeCorrect == Spec => []TypeOK
  <1>1. Init => TypeOK
    BY DEF Init, TypeOK, Active
  <1>2. TypeOK /\ [Next]_vars => TypeOK'
    BY TypeStep
  <1> QED BY <1>1, <1>2, PTL DEF Spec

----------------------------------------------------------------------------
(* The inductive step, by the kind of step.                                *)

(* Steps of calls and health checks that do not reach the coordinator.     *)
LEMMA QuietStep ==
    ASSUME IInv, UNCHANGED <<service, driver, loop, closing, retryTimer, open>>,
           waiters' \subseteq waiters, TypeOK'
    PROVE  IInv'
  <1> USE DEF service, driver, loop, closing
  <1>1. SingleCoordinator' /\ TaskIsRunning'
    BY DEF IInv, SingleCoordinator, TaskIsRunning
  <1>2. RetryIsArmed' /\ \A l \in Loops : LoopHolds(l)'
    BY DEF IInv, RetryIsArmed, LoopHolds, ready
  <1>3. CloserAgrees' /\ PoolsAccountedFor'
    BY DEF IInv, CloserAgrees, PoolsAccountedFor, ready
  <1>4. PublishedIsWatched' /\ AnnouncementsAgree'
    BY DEF IInv, PublishedIsWatched, AnnouncementsAgree, ready, connectedBefore,
           disconnectAnnounced
  <1>5. NoStrandedWaiter' /\ RestsConnected'
    BY DEF IInv, NoStrandedWaiter, RestsConnected, Repaired, ready, connectedBefore
  <1> QED BY <1>1, <1>2, <1>3, <1>4, <1>5 DEF IInv

(* A loop that starts when none is running finds everything detached.      *)
LEMMA StartStep ==
    ASSUME IInv, TypeOK',
           NEW base, base \in [Loops -> Active \cup {"idle"}],
           \A k \in Loops : base[k] = "idle" /\ victim[k] = None /\ pc[k] # "retrying",
           connectionState # "closing", connectionState' \notin {"ready", "closing"},
           StartLoop(base), UNCHANGED <<closing, retryTimer, open>>, AnnouncementsAgree'
    PROVE  IInv'
  <1> USE DEF closing
  <1>1. PICK l \in Loops : /\ connectionTask' = l
                           /\ pc' = [base EXCEPT ![l] = "closing"]
                           /\ victim' = [victim EXCEPT ![l] = pool]
                           /\ pool' = None /\ readiness' = "unready"
    BY DEF StartLoop
  <1>2. /\ pc'[l] = "closing" /\ victim'[l] = pool
        /\ \A k \in Loops \ {l} : pc'[k] = "idle" /\ victim'[k] = None
    BY <1>1 DEF IInv, TypeOK
  <1>3. SingleCoordinator' /\ TaskIsRunning'
    BY <1>1, <1>2 DEF SingleCoordinator, TaskIsRunning
  <1>4. RetryIsArmed' /\ \A k \in Loops : LoopHolds(k)'
    BY <1>1, <1>2 DEF IInv, RetryIsArmed, LoopHolds, ready
  <1>5. CloserAgrees' /\ PoolsAccountedFor'
    <2>1. CloserAgrees'
      BY DEF IInv, CloserAgrees, TypeOK
    <2>2. open \subseteq {pool, None}
      BY DEF IInv, CloserAgrees, PoolsAccountedFor, TypeOK
    <2>3. PoolsAccountedFor'
      BY <1>2, <2>1, <2>2 DEF IInv, CloserAgrees, PoolsAccountedFor, TypeOK
    <2> QED BY <2>1, <2>3
  <1>6. PublishedIsWatched'
    BY <1>1 DEF PublishedIsWatched, ready
  <1>7. NoStrandedWaiter' /\ RestsConnected'
    BY <1>1, <1>2 DEF NoStrandedWaiter, RestsConnected
  <1> QED BY <1>3, <1>4, <1>5, <1>6, <1>7 DEF IInv

(* Nothing runs when connectionTask is None.                               *)
LEMMA NoTaskNoLoop ==
    ASSUME IInv, connectionTask = None
    PROVE  \A k \in Loops : pc[k] = "idle" /\ victim[k] = None
  BY DEF IInv, SingleCoordinator, LoopHolds, TypeOK

(* While one loop runs, every other is idle.                               *)
LEMMA OneLoop ==
    ASSUME IInv, NEW l \in Loops, pc[l] # "idle"
    PROVE  /\ connectionTask = l
           /\ \A k \in Loops \ {l} : pc[k] = "idle" /\ victim[k] = None
  BY DEF IInv, SingleCoordinator, LoopHolds, TypeOK

LEMMA RepairAnnounced ==
    ASSUME IInv, NEW base, BeginRepair(base)
    PROVE  AnnouncementsAgree'
  BY DEF IInv, TypeOK, AnnouncementsAgree, BeginRepair, connectedBefore, disconnectAnnounced

LEMMA EnsureStep ==
    ASSUME IInv, TypeOK', EnsureConnectionLoop, UNCHANGED <<closing, retryTimer, open>>,
           \/ waiters' \subseteq waiters
           \/ connectionState # "closing" /\ ~Repaired
    PROVE  IInv'
  <1>1. CASE connectionState = "closing" \/ Repaired
    BY <1>1, QuietStep DEF EnsureConnectionLoop
  <1>2. CASE connectionState # "closing" /\ ~Repaired /\ connectionTask # None
    <2> USE DEF service, driver, loop, closing
    <2>1. UNCHANGED <<service, driver, loop, closing, retryTimer, open>>
      BY <1>2 DEF EnsureConnectionLoop
    <2>2. SingleCoordinator' /\ TaskIsRunning'
      BY <2>1 DEF IInv, SingleCoordinator, TaskIsRunning
    <2>3. RetryIsArmed' /\ \A l \in Loops : LoopHolds(l)'
      BY <2>1 DEF IInv, RetryIsArmed, LoopHolds, ready
    <2>4. CloserAgrees' /\ PoolsAccountedFor'
      BY <2>1 DEF IInv, CloserAgrees, PoolsAccountedFor, ready
    <2>5. PublishedIsWatched' /\ AnnouncementsAgree'
      BY <2>1 DEF IInv, PublishedIsWatched, AnnouncementsAgree, ready, connectedBefore,
                  disconnectAnnounced
    <2>6. NoStrandedWaiter' /\ RestsConnected'
      BY <1>2, <2>1 DEF IInv, NoStrandedWaiter, RestsConnected, Repaired, ready, connectedBefore
    <2> QED BY <2>2, <2>3, <2>4, <2>5, <2>6 DEF IInv
  <1>3. CASE connectionState # "closing" /\ ~Repaired /\ connectionTask = None
    <2>1. BeginRepair(pc)
      BY <1>3 DEF EnsureConnectionLoop
    <2>2. connectionState' \notin {"ready", "closing"} /\ StartLoop(pc)
      BY <2>1 DEF BeginRepair
    <2> QED BY <1>3, <2>1, <2>2, NoTaskNoLoop, RepairAnnounced, StartStep DEF IInv, TypeOK
  <1> QED BY <1>1, <1>2, <1>3

LEMMA ReportStep ==
    ASSUME IInv, TypeOK', ReportFatalError, UNCHANGED <<closing, retryTimer, open>>,
           waiters' \subseteq waiters
    PROVE  IInv'
  <1> USE DEF service, driver, loop, closing
  <1>1. AnnouncementsAgree'
    BY DEF IInv, TypeOK, AnnouncementsAgree, ReportFatalError, connectedBefore,
           disconnectAnnounced
  <1>2. CASE connectionState # "closing" /\ connectedBefore /\ connectionTask = None
    <2>1. connectionState' = "reconnecting" /\ StartLoop(pc)
      BY <1>2 DEF ReportFatalError
    <2> QED BY <1>1, <1>2, <2>1, NoTaskNoLoop, StartStep DEF IInv, TypeOK
  <1>3. CASE ~(connectionState # "closing" /\ connectedBefore /\ connectionTask = None)
    <2>1. /\ UNCHANGED <<pool, loop>> /\ (ready' => ready)
          /\ connectionState' = "closing" <=> connectionState = "closing"
          /\ connectionState' = "ready" => UNCHANGED service
      BY <1>3 DEF ReportFatalError, ready
    <2>2. SingleCoordinator' /\ TaskIsRunning'
      BY <2>1 DEF IInv, SingleCoordinator, TaskIsRunning
    <2>3. RetryIsArmed' /\ \A l \in Loops : LoopHolds(l)'
      BY <2>1 DEF IInv, RetryIsArmed, LoopHolds
    <2>4. CloserAgrees' /\ PoolsAccountedFor'
      BY <2>1 DEF IInv, CloserAgrees, PoolsAccountedFor
    <2>5. PublishedIsWatched'
      BY <2>1 DEF IInv, PublishedIsWatched
    <2>6. NoStrandedWaiter'
      BY <2>1 DEF IInv, NoStrandedWaiter, Repaired
    <2>7. RestsConnected'
      BY <1>3, <2>1 DEF IInv, RestsConnected, ReportFatalError, connectedBefore
    <2> QED BY <1>1, <2>2, <2>3, <2>4, <2>5, <2>6, <2>7 DEF IInv
  <1> QED BY <1>2, <1>3

(* A step of the running loop that stays within the loop: the coordinator  *)
(* keeps its state, and what the loop holds afterwards is what its new     *)
(* suspension point says.                                                  *)
LEMMA InLoopStep ==
    ASSUME IInv, TypeOK', NEW l \in Loops, pc[l] \notin {"idle", "returned"},
           NEW where, where \in Active, pc' = [pc EXCEPT ![l] = where],
           NEW v, victim' = [victim EXCEPT ![l] = v],
           UNCHANGED <<service, calls, closing, connectionTask>>,
           LoopHolds(l)', open' \subseteq {pool', closeVictim, v},
           ready' => pool' \in open',
           where = "returned" => connectionState = "closing",
           \/ where = "retrying" /\ retryTimer' = l
           \/ where # "retrying" /\ pc[l] = "retrying" /\ retryTimer' = None
           \/ where # "retrying" /\ pc[l] # "retrying" /\ UNCHANGED retryTimer
    PROVE  IInv'
  <1> USE DEF service, calls, closing, Active
  <1>1. connectionTask = l /\ \A k \in Loops \ {l} : pc[k] = "idle" /\ victim[k] = None
    BY OneLoop
  <1>2. /\ pc'[l] = where /\ victim'[l] = v
        /\ \A k \in Loops \ {l} : pc'[k] = "idle" /\ victim'[k] = None
    BY <1>1 DEF IInv, TypeOK
  <1>3. SingleCoordinator' /\ TaskIsRunning'
    BY <1>1, <1>2 DEF SingleCoordinator, TaskIsRunning
  <1>4. RetryIsArmed' /\ \A k \in Loops : LoopHolds(k)'
    BY <1>1, <1>2 DEF IInv, RetryIsArmed, LoopHolds
  <1>5. closer \in {"none", "awaitingTask"}
    BY DEF IInv, CloserAgrees, TypeOK
  <1>6. CloserAgrees' /\ PoolsAccountedFor'
    BY <1>2, <1>5 DEF IInv, CloserAgrees, PoolsAccountedFor
  <1>7. PublishedIsWatched' /\ AnnouncementsAgree'
    BY DEF IInv, PublishedIsWatched, AnnouncementsAgree, connectedBefore, disconnectAnnounced
  <1>8. NoStrandedWaiter'
    BY <1>1, <1>2 DEF IInv, NoStrandedWaiter, waiters
  <1>9. RestsConnected'
    BY <1>1 DEF RestsConnected, IInv, TypeOK
  <1> QED BY <1>3, <1>4, <1>6, <1>7, <1>8, <1>9 DEF IInv

(* What is open while the loop is at a point where it holds no pool.       *)
LEMMA OpenPools ==
    ASSUME IInv, NEW l \in Loops, pc[l] # "idle"
    PROVE  open \subseteq {pool, closeVictim, victim[l]} \ {None}
  BY OneLoop DEF IInv, PoolsAccountedFor, TypeOK

LEMMA LoopStepInv ==
    ASSUME IInv, TypeOK', NEW l \in Loops,
           LoopStep(l) \/ CloseOldPoolFails(l) \/ ConnectFails(l)
    PROVE  IInv'
  <1> USE DEF Goto, EndSettles
  <1>0. LoopHolds(l) /\ TypeOK /\ (ready => pool \in open)
    BY DEF IInv, PublishedIsWatched
  <1>1. CASE ClosedOldPool(l)
    <2>1. pc[l] = "closing" /\ ~ready /\ pool = None
      BY <1>0, <1>1 DEF ClosedOldPool, LoopHolds, Active
    <2>2. PICK p \in Pools : /\ open' = (open \ {victim[l]}) \cup {p}
                             /\ victim' = [victim EXCEPT ![l] = p]
                             /\ pc' = [pc EXCEPT ![l] = "connecting"]
      BY <1>1, <2>1 DEF ClosedOldPool
    <2>3. /\ UNCHANGED <<service, driver, calls, closing, connectionTask, retryTimer>>
          /\ pc'[l] = "connecting" /\ victim'[l] = p
      BY <1>0, <1>1, <2>2 DEF ClosedOldPool, TypeOK
    <2>4. LoopHolds(l)'
      BY <2>1, <2>2, <2>3 DEF LoopHolds, ready, driver
    <2>5. open' \subseteq {pool', closeVictim, p} /\ (ready' => pool' \in open')
      BY <2>1, <2>2, <2>3, OpenPools DEF ready, driver
    <2> QED BY <2>1, <2>2, <2>3, <2>4, <2>5, InLoopStep DEF Active
  <1>2. CASE ProbeAnswers(l)
    <2>1. pc[l] = "connecting" /\ victim[l] \in open /\ pool = None
      BY <1>0, <1>2 DEF ProbeAnswers, LoopHolds, Active
    <2>2. CASE Dialect = "mysql"
      <3>1. pc'[l] = "connected" /\ victim'[l] = None
        BY <1>0, <1>2, <2>2 DEF ProbeAnswers, TypeOK
      <3>2. LoopHolds(l)'
        BY <1>2, <2>1, <3>1 DEF ProbeAnswers, LoopHolds, Active
      <3>3. open' \subseteq {pool', closeVictim, None} /\ (ready' => pool' \in open')
        BY <1>2, <2>1, OpenPools DEF ProbeAnswers
      <3> QED BY <1>2, <2>1, <2>2, <3>2, <3>3, InLoopStep DEF ProbeAnswers, Active
    <2>3. CASE Dialect # "mysql"
      <3>1. pc'[l] = "refreshing" /\ victim' = [victim EXCEPT ![l] = victim[l]]
        BY <1>0, <1>2, <2>3 DEF ProbeAnswers, TypeOK
      <3>2. LoopHolds(l)'
        BY <1>0, <1>2, <2>1, <2>3, <3>1 DEF ProbeAnswers, LoopHolds, Active, TypeOK
      <3>3. open' \subseteq {pool', closeVictim, victim[l]} /\ (ready' => pool' \in open')
        BY <1>2, <2>1, OpenPools DEF ProbeAnswers
      <3> QED BY <1>2, <2>1, <2>3, <3>1, <3>2, <3>3, InLoopStep DEF ProbeAnswers, Active
    <2> QED BY <2>2, <2>3
  <1>3. CASE TypesRefreshed(l)
    <2>1. pc[l] = "refreshing" /\ victim[l] = pool /\ pool \in open
      BY <1>0, <1>3 DEF TypesRefreshed, LoopHolds
    <2>2. pc'[l] = "connected" /\ victim'[l] = None /\ UNCHANGED <<driver, open>>
      BY <1>0, <1>3 DEF TypesRefreshed, TypeOK
    <2>3. LoopHolds(l)'
      BY <2>1, <2>2 DEF LoopHolds, driver, Active
    <2>4. open' \subseteq {pool', closeVictim, None} /\ (ready' => pool' \in open')
      BY <1>0, <2>1, <2>2, OpenPools DEF driver, ready
    <2> QED BY <1>3, <2>1, <2>3, <2>4, InLoopStep DEF TypesRefreshed, Active
  <1>4. CASE ConnectRejects(l)
    <2>1. pc[l] = "ending" /\ pool = None /\ ~ready
      BY <1>0, <1>4 DEF ConnectRejects, LoopHolds, Active
    <2>2. /\ pc'[l] = "failed" /\ victim'[l] = pool
          /\ pool' = None /\ ~ready' /\ open' = open \ {victim[l]}
      BY <1>0, <1>4 DEF ConnectRejects, DetachPool, TypeOK, ready
    <2>3. LoopHolds(l)'
      BY <2>1, <2>2 DEF LoopHolds, Active
    <2>4. open' \subseteq {pool', closeVictim, pool} /\ (ready' => pool' \in open')
      BY <2>1, <2>2, OpenPools
    <2> QED BY <1>4, <2>1, <2>3, <2>4, InLoopStep DEF ConnectRejects, DetachPool, Active
  <1>5. CASE AttemptFailed(l)
    <2> DEFINE where == IF connectionState = "closing" THEN "returned" ELSE "retrying"
    <2>1. pc[l] = "failed" /\ pool = None /\ ~ready
      BY <1>0, <1>5 DEF AttemptFailed, LoopHolds, Active
    <2>2. /\ pc' = [pc EXCEPT ![l] = where] /\ victim' = [victim EXCEPT ![l] = None]
          /\ pc'[l] = where /\ victim'[l] = None
          /\ UNCHANGED driver /\ open' = open \ {victim[l]}
      BY <1>0, <1>5 DEF AttemptFailed, TypeOK
    <2>3. LoopHolds(l)'
      BY <2>1, <2>2 DEF LoopHolds, driver, ready, Active
    <2>4. open' \subseteq {pool', closeVictim, None} /\ (ready' => pool' \in open')
      BY <2>1, <2>2, OpenPools DEF driver, ready
    <2>5. /\ UNCHANGED <<service, calls, closing, connectionTask>> /\ where \in Active
          /\ \/ where = "retrying" /\ retryTimer' = l
             \/ where # "retrying" /\ UNCHANGED retryTimer
      BY <1>5 DEF AttemptFailed, Active
    <2>6. where = "returned" => connectionState = "closing"
      OBVIOUS
    <2> HIDE DEF where
    <2> QED BY <2>1, <2>2, <2>3, <2>4, <2>5, <2>6, InLoopStep
  <1>6. CASE RetryTimerFires(l)
    <2>1. pc[l] = "retrying" /\ pool = None /\ ~ready /\ victim[l] = None
      BY <1>0, <1>6 DEF RetryTimerFires, LoopHolds, Active
    <2>2. /\ pc'[l] = "woken" /\ victim' = [victim EXCEPT ![l] = None]
          /\ UNCHANGED <<driver, open>>
      BY <1>0, <1>6, <2>1 DEF RetryTimerFires, TypeOK
    <2>3. LoopHolds(l)'
      BY <1>0, <2>1, <2>2 DEF LoopHolds, driver, ready, Active, TypeOK
    <2>4. open' \subseteq {pool', closeVictim, None} /\ (ready' => pool' \in open')
      BY <2>1, <2>2, OpenPools DEF driver, ready
    <2> QED BY <1>6, <2>1, <2>2, <2>3, <2>4, InLoopStep DEF RetryTimerFires, Active
  <1>7. CASE NextAttempt(l)
    <2> DEFINE where == IF connectionState = "closing" THEN "returned" ELSE "closing"
    <2>1. pc[l] = "woken" /\ pool = None /\ ~ready /\ victim[l] = None
      BY <1>0, <1>7 DEF NextAttempt, LoopHolds, Active
    <2>2. /\ pc' = [pc EXCEPT ![l] = where] /\ pc'[l] = where
          /\ victim' = [victim EXCEPT ![l] = None] /\ victim'[l] = None
          /\ pool' = None /\ ~ready' /\ UNCHANGED open
      BY <1>0, <1>7, <2>1 DEF NextAttempt, DetachPool, driver, ready, TypeOK
    <2>3. LoopHolds(l)'
      BY <2>1, <2>2 DEF LoopHolds, Active
    <2>4. open' \subseteq {pool', closeVictim, None}
      BY <2>1, <2>2, OpenPools
    <2>5. /\ UNCHANGED <<service, calls, closing, connectionTask, retryTimer>>
          /\ where \in Active \ {"retrying"}
      BY <1>7 DEF NextAttempt, Active
    <2>6. where = "returned" => connectionState = "closing"
      OBVIOUS
    <2> HIDE DEF where
    <2> QED BY <2>1, <2>2, <2>3, <2>4, <2>5, <2>6, InLoopStep
  <1>8. CASE Connected(l) /\ connectionState = "closing"
    <2>1. pc[l] = "connected" /\ victim[l] = None
      BY <1>0, <1>8 DEF Connected, LoopHolds, Active
    <2>2. /\ pc'[l] = "aborting" /\ victim' = [victim EXCEPT ![l] = pool]
          /\ pool' = None /\ ~ready' /\ UNCHANGED <<service, calls, open, retryTimer>>
      BY <1>0, <1>8 DEF Connected, DetachPool, calls, ready, TypeOK
    <2>3. LoopHolds(l)'
      BY <1>8, <2>2 DEF LoopHolds, service, Active
    <2>4. open' \subseteq {pool', closeVictim, pool}
      BY <2>1, <2>2, OpenPools
    <2> QED BY <1>8, <2>1, <2>2, <2>3, <2>4, InLoopStep DEF Connected, Active
  <1>9. CASE Connected(l) /\ connectionState # "closing"
    <2> USE DEF service, driver, closing
    <2>1. /\ pc[l] = "connected" /\ victim[l] = None /\ pool \in open
          /\ connectionTask = l /\ \A k \in Loops \ {l} : pc[k] = "idle" /\ victim[k] = None
      BY <1>0, <1>9, OneLoop DEF Connected, LoopHolds, Active
    <2>2. /\ pc'[l] = "returned" /\ \A k \in Loops \ {l} : pc'[k] = "idle"
          /\ connectionState' = "ready" /\ healthTimer' = "armed"
          /\ UNCHANGED <<driver, victim, open, closing, connectionTask, retryTimer>>
      BY <1>0, <1>9, <2>1 DEF Connected, Publish, TypeOK
    <2>3. waiters' = {}
      BY <1>9 DEF Connected, ResolveWaiters, waiters
    <2>4. SingleCoordinator' /\ TaskIsRunning'
      BY <2>1, <2>2 DEF SingleCoordinator, TaskIsRunning
    <2>5. RetryIsArmed' /\ \A k \in Loops : LoopHolds(k)'
      BY <2>1, <2>2 DEF IInv, RetryIsArmed, LoopHolds, Active
    <2>6. CloserAgrees' /\ PoolsAccountedFor'
      BY <1>9, <2>2 DEF IInv, CloserAgrees, PoolsAccountedFor, TypeOK
    <2>7. PublishedIsWatched'
      BY <2>2 DEF IInv, PublishedIsWatched, ready
    <2>8. AnnouncementsAgree'
      <3>1. flags' = {"connectedBefore"} /\ event' \in {"ready", "reconnected"}
        BY <1>9 DEF Connected, Publish
      <3> QED BY <2>2, <3>1 DEF AnnouncementsAgree, connectedBefore, disconnectAnnounced
    <2>9. NoStrandedWaiter' /\ RestsConnected'
      BY <2>1, <2>2, <2>3 DEF NoStrandedWaiter, RestsConnected
    <2> QED BY <2>4, <2>5, <2>6, <2>7, <2>8, <2>9 DEF IInv
  <1>10. CASE Aborted(l)
    <2>1. pc[l] = "aborting" /\ pool = None /\ ~ready /\ connectionState = "closing"
      BY <1>0, <1>10 DEF Aborted, LoopHolds, Active
    <2>2. /\ pc'[l] = "returned" /\ victim'[l] = None
          /\ UNCHANGED driver /\ open' = open \ {victim[l]}
      BY <1>0, <1>10 DEF Aborted, TypeOK
    <2>3. LoopHolds(l)'
      BY <2>1, <2>2 DEF LoopHolds, driver, ready, Active
    <2>4. open' \subseteq {pool', closeVictim, None} /\ (ready' => pool' \in open')
      BY <2>1, <2>2, OpenPools DEF driver, ready
    <2> QED BY <1>10, <2>1, <2>3, <2>4, InLoopStep DEF Aborted, Active
  <1>11. CASE TaskSettles(l)
    <2> DEFINE settled == [pc EXCEPT ![l] = "idle"]
    <2>1. /\ pc[l] = "returned" /\ victim[l] = None
          /\ connectionTask = l /\ \A k \in Loops \ {l} : pc[k] = "idle" /\ victim[k] = None
      BY <1>0, <1>11, OneLoop DEF TaskSettles, LoopHolds, Active
    <2>2. /\ settled \in [Loops -> Active \cup {"idle"}]
          /\ \A k \in Loops : settled[k] = "idle" /\ victim[k] = None /\ pc[k] # "retrying"
      BY <1>0, <2>1 DEF TypeOK
    <2>3. CASE connectionState # "closing" /\ ~Repaired
      <3>1. BeginRepair(settled) /\ UNCHANGED <<closing, retryTimer, open>>
        BY <1>11, <2>1, <2>3 DEF TaskSettles
      <3>2. connectionState' \notin {"ready", "closing"} /\ StartLoop(settled)
        BY <3>1 DEF BeginRepair
      <3>3. AnnouncementsAgree'
        BY <3>1, RepairAnnounced
      <3> HIDE DEF settled
      <3> QED BY <2>2, <2>3, <3>1, <3>2, <3>3, StartStep
    <2>4. CASE connectionState = "closing" \/ Repaired
      <3> USE DEF service, driver, closing, calls
      <3>1. /\ pc' = settled /\ connectionTask' = None
            /\ UNCHANGED <<service, driver, victim, closing, open, calls, retryTimer>>
        BY <1>11, <2>1, <2>4 DEF TaskSettles
      <3>2. waiters' = waiters /\ waiters = {}
        BY <2>1, <2>4, <3>1 DEF IInv, NoStrandedWaiter, waiters
      <3>3. SingleCoordinator' /\ TaskIsRunning'
        BY <2>2, <3>1 DEF SingleCoordinator, TaskIsRunning
      <3>4. RetryIsArmed' /\ \A k \in Loops : LoopHolds(k)'
        BY <2>2, <3>1 DEF IInv, RetryIsArmed, LoopHolds, Active
      <3>5. CloserAgrees' /\ PoolsAccountedFor'
        BY <2>2, <3>1 DEF IInv, CloserAgrees, PoolsAccountedFor, ready
      <3>6. PublishedIsWatched' /\ AnnouncementsAgree'
        BY <3>1 DEF IInv, PublishedIsWatched, AnnouncementsAgree, ready, connectedBefore,
                    disconnectAnnounced
      <3>7. NoStrandedWaiter'
        BY <3>2 DEF NoStrandedWaiter
      <3>8. RestsConnected'
        BY <2>4, <3>1 DEF IInv, RestsConnected, PublishedIsWatched, Repaired, ready
      <3> QED BY <3>3, <3>4, <3>5, <3>6, <3>7, <3>8 DEF IInv
    <2> QED BY <2>3, <2>4
  <1>12. CASE CloseOldPoolFails(l)
    <2>1. pc[l] = "closing" /\ pool = None /\ ~ready
      BY <1>0, <1>12 DEF CloseOldPoolFails, LoopHolds, Active
    <2>2. /\ pc'[l] = "failed" /\ victim'[l] = pool
          /\ pool' = None /\ ~ready' /\ open' = open \ {victim[l]}
      BY <1>0, <1>12 DEF CloseOldPoolFails, DetachPool, TypeOK, ready
    <2>3. LoopHolds(l)'
      BY <2>1, <2>2 DEF LoopHolds, Active
    <2>4. open' \subseteq {pool', closeVictim, pool} /\ (ready' => pool' \in open')
      BY <2>1, <2>2, OpenPools
    <2> QED BY <1>12, <2>1, <2>3, <2>4, InLoopStep DEF CloseOldPoolFails, DetachPool, Active
  <1>13. CASE ConnectFails(l)
    <2>1. /\ pc[l] \in {"connecting", "refreshing"} /\ victim[l] \in Pools
          /\ pool \in {None, victim[l]}
          /\ Dialect # "postgresql" => pool = None /\ ~ready
      BY <1>0, <1>13 DEF ConnectFails, LoopHolds, Active
    <2>2. pool' = None /\ ~ready'
      BY <1>13, <2>1 DEF ConnectFails, driver, ready
    <2>3. pc'[l] = "ending" /\ UNCHANGED <<victim, open>>
      BY <1>0, <1>13 DEF ConnectFails, TypeOK
    <2>4. LoopHolds(l)'
      BY <2>1, <2>2, <2>3 DEF LoopHolds, Active
    <2>5. open' \subseteq {pool', closeVictim, victim[l]}
      BY <2>1, <2>2, <2>3, OpenPools
    <2>6. victim' = [victim EXCEPT ![l] = victim[l]]
      BY <1>0, <2>3 DEF TypeOK
    <2> QED BY <1>13, <2>1, <2>2, <2>4, <2>5, <2>6, InLoopStep DEF ConnectFails, Active
  <1> QED BY <1>1, <1>2, <1>3, <1>4, <1>5, <1>6, <1>7, <1>8, <1>9, <1>10, <1>11, <1>12,
             <1>13 DEF LoopStep

LEMMA CloseInv ==
    ASSUME IInv, TypeOK', Close
    PROVE  IInv'
  <1> USE DEF driver
  <1>1. /\ connectionState' = "closing" /\ closer = "none" /\ closer' = "awaitingTask"
        /\ closeTask' = connectionTask /\ closeVictim = None
        /\ UNCHANGED <<flags, event, driver, connectionTask, victim, closeVictim, open>>
    BY DEF Close, IInv, CloserAgrees
  <1>2. \A l \in Loops : pc'[l] = pc[l] \/ (l = retryTimer /\ pc'[l] = "woken")
    BY DEF Close
  <1>4. \A l \in Loops : pc'[l] = pc[l] \/ (pc[l] = "retrying" /\ pc'[l] = "woken")
    BY <1>2 DEF IInv, RetryIsArmed
  <1>5. SingleCoordinator' /\ TaskIsRunning' /\ RetryIsArmed'
    <2>1. \A l \in Loops : pc'[l] # "retrying"
      BY DEF Close, IInv, RetryIsArmed
    <2>2. retryTimer' = None
      BY DEF Close
    <2> QED BY <1>1, <1>4, <2>1, <2>2 DEF IInv, SingleCoordinator, TaskIsRunning,
                                          RetryIsArmed, TypeOK
  <1>6. \A l \in Loops : LoopHolds(l)'
    BY <1>1, <1>4 DEF IInv, LoopHolds, Active, ready
  <1>7. CloserAgrees' /\ PoolsAccountedFor'
    BY <1>1 DEF IInv, CloserAgrees, PoolsAccountedFor
  <1>8. PublishedIsWatched' /\ AnnouncementsAgree'
    BY <1>1 DEF IInv, PublishedIsWatched, AnnouncementsAgree, ready, connectedBefore,
                disconnectAnnounced
  <1>9. NoStrandedWaiter' /\ RestsConnected'
    <2>1. waiters' = {}
      BY DEF Close, waiters
    <2> QED BY <1>1, <2>1 DEF NoStrandedWaiter, RestsConnected
  <1> QED BY <1>5, <1>6, <1>7, <1>8, <1>9 DEF IInv

LEMMA CloseDriverInv ==
    ASSUME IInv, TypeOK', CloseDriver
    PROVE  IInv'
  <1> USE DEF service, loop, calls
  <1>1. /\ closer = "awaitingTask" /\ closer' = "awaitingDriver" /\ closeVictim = None
        /\ closeVictim' = pool /\ pool' = None /\ ~ready'
        /\ connectionState = "closing" /\ connectionTask \in {closeTask, None}
        /\ UNCHANGED <<service, loop, calls, open, closeTask, retryTimer>>
    BY DEF CloseDriver, IInv, CloserAgrees, ready
  <1>2. \A l \in Loops : pc[l] \in {"idle", "returned"} /\ victim[l] = None
    <2> SUFFICES ASSUME NEW l \in Loops
                 PROVE  pc[l] \in {"idle", "returned"} /\ victim[l] = None
      OBVIOUS
    <2>1. CASE pc[l] = "idle"
      BY <2>1 DEF IInv, LoopHolds
    <2>2. CASE pc[l] # "idle"
      <3>1. connectionTask = l
        BY <2>2 DEF IInv, SingleCoordinator
      <3>2. closeTask = l /\ l # None
        BY <1>1, <3>1
      <3>3. pc[l] = "returned"
        BY <2>2, <3>2 DEF CloseDriver
      <3> QED BY <3>3 DEF IInv, LoopHolds
    <2> QED BY <2>1, <2>2
  <1>3. SingleCoordinator' /\ TaskIsRunning'
    BY <1>1 DEF IInv, SingleCoordinator, TaskIsRunning
  <1>4. \A l \in Loops : LoopHolds(l)'
    BY <1>1, <1>2 DEF LoopHolds, Active
  <1>5. CloserAgrees' /\ PoolsAccountedFor'
    BY <1>1, <1>2 DEF IInv, CloserAgrees, PoolsAccountedFor
  <1>6. PublishedIsWatched' /\ AnnouncementsAgree'
    BY <1>1 DEF IInv, PublishedIsWatched, AnnouncementsAgree, connectedBefore,
                disconnectAnnounced
  <1>7. NoStrandedWaiter' /\ RestsConnected'
    BY <1>1 DEF IInv, NoStrandedWaiter, RestsConnected, waiters
  <1>8. RetryIsArmed'
    BY <1>1 DEF IInv, RetryIsArmed
  <1> QED BY <1>3, <1>4, <1>5, <1>6, <1>7, <1>8 DEF IInv

LEMMA CloseDoneInv ==
    ASSUME IInv, TypeOK', CloseDone
    PROVE  IInv'
  <1> USE DEF service, loop, calls, driver
  <1>1. /\ closer = "awaitingDriver" /\ closer' = "closed" /\ closeVictim' = None
        /\ open' = open \ {closeVictim} /\ pool = None /\ ~ready
        /\ connectionState = "closing"
        /\ \A l \in Loops : pc[l] \in {"idle", "returned"}
        /\ UNCHANGED <<service, driver, loop, calls, closeTask, retryTimer>>
    BY DEF CloseDone, EndSettles, IInv, CloserAgrees
  <1>2. \A l \in Loops : victim[l] = None
    BY <1>1 DEF IInv, LoopHolds, Active
  <1>3. SingleCoordinator' /\ TaskIsRunning'
    BY <1>1 DEF IInv, SingleCoordinator, TaskIsRunning
  <1>4. \A l \in Loops : LoopHolds(l)'
    BY <1>1, <1>2 DEF LoopHolds, ready, Active
  <1>5. CloserAgrees' /\ PoolsAccountedFor'
    <2>1. open' = {}
      BY <1>1, <1>2 DEF IInv, PoolsAccountedFor, TypeOK
    <2> QED BY <1>1, <2>1 DEF IInv, CloserAgrees, PoolsAccountedFor, ready
  <1>6. PublishedIsWatched' /\ AnnouncementsAgree'
    BY <1>1 DEF IInv, PublishedIsWatched, AnnouncementsAgree, ready, connectedBefore,
                disconnectAnnounced
  <1>7. NoStrandedWaiter' /\ RestsConnected'
    BY <1>1 DEF IInv, NoStrandedWaiter, RestsConnected, waiters
  <1>8. RetryIsArmed'
    BY <1>1 DEF IInv, RetryIsArmed
  <1> QED BY <1>3, <1>4, <1>5, <1>6, <1>7, <1>8 DEF IInv

LEMMA InductiveStep ==
    ASSUME IInv, [Next]_vars
    PROVE  IInv'
  <1>0. TypeOK'
    BY TypeStep DEF IInv
  <1>1. CASE Start
    BY <1>0, <1>1, EnsureStep DEF Start, calls, waiters
  <1>2. CASE Close
    BY <1>0, <1>2, CloseInv
  <1>3. CASE CloseDriver
    BY <1>0, <1>3, CloseDriverInv
  <1>4. CASE CloseDone
    BY <1>0, <1>4, CloseDoneInv
  <1>5. CASE HealthTick
    BY <1>0, <1>5, QuietStep DEF HealthTick, calls, waiters
  <1>6. CASE IdleClientFails
    BY <1>0, <1>6, ReportStep DEF IdleClientFails, calls, waiters
  <1>7. ASSUME NEW p \in Pools, HealthPasses(p) \/ HealthFails(p)
        PROVE  IInv'
    <2>1. CASE HealthPasses(p)
      BY <1>0, <2>1, QuietStep DEF HealthPasses, calls, waiters
    <2>2. CASE HealthFails(p)
      BY <1>0, <2>2, ReportStep DEF HealthFails, calls, waiters
    <2> QED BY <1>7, <2>1, <2>2
  <1>8. ASSUME NEW l \in Loops, LoopStep(l) \/ CloseOldPoolFails(l) \/ ConnectFails(l)
        PROVE  IInv'
    BY <1>0, <1>8, LoopStepInv
  <1>9. ASSUME NEW c \in Callers,
               AwaitConnection(c) \/ WaitTimeout(c) \/ CallStep(c) \/ CallLosesConnection(c)
        PROVE  IInv'
    <2> USE DEF Settle
    <2>0. stage \in [Callers -> {"idle", "waiting", "granted", "holding", "querying",
                                 "failing"}]
      BY DEF IInv, TypeOK
    <2>1. ASSUME NEW s, s # "waiting", stage' = [stage EXCEPT ![c] = s]
          PROVE  waiters' \subseteq waiters
      BY <2>0, <2>1 DEF waiters
    <2>2. CASE AwaitConnection(c)
      <3>1. CASE Repaired
        BY <1>0, <2>1, <2>2, <3>1, QuietStep DEF AwaitConnection
      <3>2. CASE ~Repaired /\ (connectionState = "closing" \/ Cardinality(waiters) >= QueueLimit)
        <4>1. CASE UNCHANGED <<service, driver, loop>> /\ Settle(c, Released(c))
          BY <1>0, <2>1, <2>2, <4>1, QuietStep DEF AwaitConnection
        <4>2. CASE connectionState # "closing" /\ EnsureConnectionLoop
          BY <1>0, <2>2, <3>2, <4>2, EnsureStep DEF AwaitConnection
        <4> QED BY <2>2, <3>2, <4>1, <4>2 DEF AwaitConnection
      <3>3. CASE ~Repaired /\ ~(connectionState = "closing" \/ Cardinality(waiters) >= QueueLimit)
        BY <1>0, <2>2, <3>3, EnsureStep DEF AwaitConnection
      <3> QED BY <3>1, <3>2, <3>3
    <2>3. CASE WaitTimeout(c)
      BY <1>0, <2>1, <2>3, QuietStep DEF WaitTimeout
    <2>4. CASE UsePool(c)
      BY <1>0, <2>1, <2>4, QuietStep DEF UsePool
    <2>5. CASE CallReturns(c)
      BY <1>0, <2>1, <2>5, QuietStep DEF CallReturns
    <2>6. CASE CallUnwinds(c)
      BY <1>0, <2>1, <2>6, QuietStep DEF CallUnwinds
    <2>7. CASE CallFindsPoolEnded(c) \/ CallLosesConnection(c)
      BY <1>0, <2>1, <2>7, ReportStep DEF CallFindsPoolEnded, CallLosesConnection, FatalError
    <2> QED BY <1>9, <2>2, <2>3, <2>4, <2>5, <2>6, <2>7 DEF CallStep
  <1>10. CASE UNCHANGED vars
    BY <1>0, <1>10, QuietStep DEF vars, calls, waiters
  <1> QED BY <1>1, <1>2, <1>3, <1>4, <1>5, <1>6, <1>7, <1>8, <1>9, <1>10 DEF Next

LEMMA InitInvariant == Init => IInv
  <1> SUFFICES ASSUME Init PROVE IInv
    OBVIOUS
  <1>1. TypeOK
    BY DEF Init, TypeOK, Active
  <1>2. /\ \A l \in Loops : pc[l] = "idle" /\ victim[l] = None
        /\ waiters = {} /\ None \notin Loops
    BY DEF Init, waiters
  <1>3. SingleCoordinator /\ TaskIsRunning /\ RetryIsArmed /\ \A l \in Loops : LoopHolds(l)
    BY <1>2 DEF Init, SingleCoordinator, TaskIsRunning, RetryIsArmed, LoopHolds, Active
  <1>4. CloserAgrees /\ PoolsAccountedFor /\ PublishedIsWatched
    BY DEF Init, CloserAgrees, PoolsAccountedFor, PublishedIsWatched, ready
  <1>5. AnnouncementsAgree /\ NoStrandedWaiter /\ RestsConnected
    BY <1>2 DEF Init, AnnouncementsAgree, NoStrandedWaiter, RestsConnected,
                connectedBefore, disconnectAnnounced
  <1> QED BY <1>1, <1>3, <1>4, <1>5 DEF IInv

LEMMA Inductive == Spec => []IInv
  BY InitInvariant, InductiveStep, PTL DEF Spec

----------------------------------------------------------------------------
(* The safety properties.                                                  *)

(* Whatever calls, fatal errors and health checks do at whatever moment,   *)
(* at most one connectionLoop() exists, and it is the one connectionTask   *)
(* names.                                                                  *)
THEOREM OneCoordinator == Spec => []SingleCoordinator
  <1>1. IInv => SingleCoordinator
    BY DEF IInv
  <1> QED BY <1>1, Inductive, PTL

(* A call in the queue is never left without a loop that will serve it.    *)
THEOREM WaitersAreServed == Spec => []NoStrandedWaiter
  <1>1. IInv => NoStrandedWaiter
    BY DEF IInv
  <1> QED BY <1>1, Inductive, PTL

(* When the coordinator rests, the lane is connected and watched.          *)
THEOREM RestIsConnected == Spec => []RestsConnected
  <1>1. IInv => RestsConnected
    BY DEF IInv
  <1> QED BY <1>1, Inductive, PTL

(* No pool is lost track of, and none survives close().                    *)
THEOREM NoPoolLeaks == Spec => []PoolsAccountedFor
  <1>1. IInv => PoolsAccountedFor
    BY DEF IInv
  <1> QED BY <1>1, Inductive, PTL

----------------------------------------------------------------------------
(* The three ways a step, other than close(), treats the announced state.  *)

Stays == UNCHANGED <<connectionState, event, healthTimer>>

GoesDown ==
    /\ connectionState # "closing" /\ event # "none"
    /\ connectionState' = "reconnecting" /\ event' = "disconnected"

ComesUp ==
    /\ connectionState \notin {"closing", "ready"} /\ event \in {"none", "disconnected"}
    /\ connectionState' = "ready"
    /\ event' = IF event = "none" THEN "ready" ELSE "reconnected"

(* While a loop works towards a pool, the state is not "ready".            *)
Working == \A l \in Loops : pc[l] \notin {"idle", "returned"} => connectionState # "ready"

(* A loop that is started names the outage it repairs.                     *)
LEMMA RepairMoves ==
    ASSUME StepInv, NEW base, BeginRepair(base), connectionState # "closing"
    PROVE  (Stays \/ GoesDown) /\ Working' /\ connectionState' # "ready"
  <1>1. connectionState' \in {"reconnecting", "connecting"}
    BY DEF BeginRepair
  <1>2. CASE connectedBefore
    BY <1>1, <1>2 DEF Working, BeginRepair, GoesDown, StepInv, IInv, AnnouncementsAgree,
                     connectedBefore, disconnectAnnounced
  <1>3. CASE ~connectedBefore
    <2>1. event = "none" /\ connectionState = "connecting"
      BY <1>3 DEF StepInv, IInv, AnnouncementsAgree, OutageIsAnnounced, TypeOK
    <2> QED BY <1>1, <1>3, <2>1 DEF Working, BeginRepair, Stays, connectedBefore
  <1> QED BY <1>1, <1>2, <1>3 DEF Working

(* A waiting call that finds no loop starts the first one of the lane: an  *)
(* outage has its loop already.                                            *)
LEMMA EnsureMoves ==
    ASSUME StepInv, EnsureConnectionLoop
    PROVE  Stays /\ Working'
  <1> USE DEF service, loop
  <1>1. CASE UNCHANGED <<service, driver, loop>>
    BY <1>1 DEF Stays, Working, StepInv, OutageIsAnnounced
  <1>2. CASE ~UNCHANGED <<service, driver, loop>>
    <2>1. /\ connectionState # "closing" /\ ~Repaired /\ connectionTask = None
          /\ BeginRepair(pc)
      BY <1>2 DEF EnsureConnectionLoop
    <2>2. ~connectedBefore
      BY <2>1 DEF StepInv, IInv, RestsConnected
    <2>3. event = "none"
      BY <2>2 DEF StepInv, IInv, AnnouncementsAgree
    <2> QED BY <2>1, <2>3, RepairMoves DEF GoesDown
  <1> QED BY <1>1, <1>2

LEMMA ReportMoves ==
    ASSUME StepInv, ReportFatalError
    PROVE  (Stays \/ GoesDown) /\ Working'
  <1> USE DEF service, loop
  <1>1. CASE connectionState = "closing" \/ ~connectedBefore
    BY <1>1 DEF ReportFatalError, Stays, Working, StepInv, OutageIsAnnounced
  <1>2. CASE connectionState # "closing" /\ connectedBefore
    <2>1. connectionState' = "reconnecting" /\ event # "none"
      BY <1>2 DEF ReportFatalError, StepInv, IInv, AnnouncementsAgree
    <2>2. event' = "disconnected"
      BY <1>2 DEF ReportFatalError, StepInv, IInv, AnnouncementsAgree
    <2> QED BY <1>2, <2>1, <2>2 DEF GoesDown, Working
  <1> QED BY <1>1, <1>2

(* The steps of the loop, of timers and of pool.end().                     *)
LEMMA LoopMoves ==
    ASSUME StepInv, NEW l \in Loops, LoopStep(l) \/ CloseOldPoolFails(l) \/ ConnectFails(l)
    PROVE  /\ Working'
           /\ \/ UNCHANGED calls /\ (Stays \/ GoesDown)
              \/ Connected(l) /\ ComesUp
  <1> USE DEF service, calls, Goto
  <1>0. /\ pc \in [Loops -> Active \cup {"idle"}] /\ Working
        /\ pc[l] # "idle" => connectionTask = l
    BY DEF StepInv, IInv, TypeOK, OutageIsAnnounced, Working, SingleCoordinator
  <1>1. ASSUME UNCHANGED service, UNCHANGED calls, pc[l] \notin {"idle", "returned"}
        PROVE  Working' /\ UNCHANGED calls /\ Stays
    <2>1. connectionState' # "ready"
      BY <1>0, <1>1 DEF Working
    <2> QED BY <1>1, <2>1 DEF Stays, Working
  <1>2. CASE ClosedOldPool(l)
    BY <1>1, <1>2 DEF ClosedOldPool
  <1>3. CASE ProbeAnswers(l)
    BY <1>1, <1>3 DEF ProbeAnswers
  <1>4. CASE TypesRefreshed(l)
    BY <1>1, <1>4 DEF TypesRefreshed
  <1>5. CASE ConnectRejects(l)
    BY <1>1, <1>5 DEF ConnectRejects
  <1>6. CASE AttemptFailed(l)
    BY <1>1, <1>6 DEF AttemptFailed
  <1>7. CASE RetryTimerFires(l)
    BY <1>1, <1>7 DEF RetryTimerFires
  <1>8. CASE NextAttempt(l)
    BY <1>1, <1>8 DEF NextAttempt
  <1>9. CASE Aborted(l)
    BY <1>1, <1>9 DEF Aborted
  <1>10. CASE CloseOldPoolFails(l)
    BY <1>1, <1>10 DEF CloseOldPoolFails
  <1>11. CASE ConnectFails(l)
    BY <1>1, <1>11 DEF ConnectFails
  <1>12. CASE Connected(l) /\ connectionState = "closing"
    BY <1>1, <1>12 DEF Connected
  <1>13. CASE Connected(l) /\ connectionState # "closing"
    <2>1. /\ pc[l] = "connected" /\ connectionState # "ready"
          /\ pc' = [pc EXCEPT ![l] = "returned"]
          /\ connectionState' = "ready"
          /\ event' = IF connectedBefore THEN "reconnected" ELSE "ready"
      BY <1>0, <1>13 DEF Connected, Publish, Working
    <2>2. \A k \in Loops \ {l} : pc[k] = "idle"
      BY <1>0, <2>1 DEF StepInv, IInv, SingleCoordinator
    <2>3. event \in {"none", "disconnected"} /\ (event = "none" <=> ~connectedBefore)
      BY <1>13, <2>1 DEF StepInv, IInv, TypeOK, AnnouncementsAgree, OutageIsAnnounced
    <2>4. ComesUp
      BY <1>13, <2>1, <2>3 DEF ComesUp
    <2>5. Working'
      BY <1>0, <2>1, <2>2 DEF Working
    <2> QED BY <1>13, <2>4, <2>5
  <1>14. CASE TaskSettles(l)
    <2> DEFINE settled == [pc EXCEPT ![l] = "idle"]
    <2>1. UNCHANGED calls
      BY <1>14 DEF TaskSettles
    <2>2. CASE BeginRepair(settled) /\ connectionState # "closing"
      BY <2>1, <2>2, RepairMoves
    <2>3. CASE pc' = settled /\ UNCHANGED <<service, driver, victim>>
      BY <1>0, <2>1, <2>3 DEF Stays, Working
    <2> QED BY <1>14, <2>2, <2>3 DEF TaskSettles
  <1> QED BY <1>2, <1>3, <1>4, <1>5, <1>6, <1>7, <1>8, <1>9, <1>10, <1>11, <1>12, <1>13,
             <1>14 DEF LoopStep

----------------------------------------------------------------------------
(* The calls.                                                              *)

StageNames == {"idle", "waiting", "granted", "holding", "querying", "failing"}

(* One call moves: let in only to a connected lane, queued only while the  *)
(* lane is not closing and there is room.                                  *)
CallMove(c) ==
    \E s \in StageNames :
        /\ stage' = [stage EXCEPT ![c] = s]
        /\ s = "granted" => /\ stage[c] # "waiting" /\ Repaired
                            /\ UNCHANGED <<service, driver, open>>
        /\ s = "waiting" => /\ stage[c] # "waiting" /\ connectionState # "closing"
                            /\ Cardinality(waiters) < QueueLimit /\ Stays
        /\ s = "idle" => Stays
        /\ s \in {"holding", "querying", "failing"} => stage[c] \notin {"idle", "waiting"}

LEMMA CallMoves ==
    ASSUME StepInv, NEW c \in Callers,
           AwaitConnection(c) \/ WaitTimeout(c) \/ CallStep(c) \/ CallLosesConnection(c)
    PROVE  CallMove(c) /\ (Stays \/ GoesDown) /\ Working'
  <1> USE DEF StageNames, Settle
  <1>0. ASSUME UNCHANGED <<service, driver, loop>> PROVE Stays /\ Working'
    BY <1>0 DEF service, loop, Stays, Working, StepInv, OutageIsAnnounced
  <1>1. CASE AwaitConnection(c)
    <2>1. CASE Repaired
      BY <1>0, <1>1, <2>1 DEF AwaitConnection, CallMove
    <2>2. CASE ~Repaired /\ Settle(c, Released(c)) /\ UNCHANGED <<service, driver, loop>>
      BY <1>0, <2>2 DEF CallMove
    <2>3. CASE /\ ~Repaired /\ connectionState # "closing"
               /\ Cardinality(waiters) < QueueLimit
               /\ stage' = [stage EXCEPT ![c] = "waiting"] /\ EnsureConnectionLoop
      <3>1. Stays /\ Working'
        BY <2>3, EnsureMoves
      <3> QED BY <1>1, <2>3, <3>1 DEF AwaitConnection, CallMove
    <2> QED BY <1>1, <2>1, <2>2, <2>3 DEF AwaitConnection
  <1>2. CASE WaitTimeout(c)
    BY <1>0, <1>2 DEF WaitTimeout, CallMove
  <1>3. CASE UsePool(c)
    BY <1>0, <1>3 DEF UsePool, CallMove
  <1>4. CASE CallReturns(c)
    BY <1>0, <1>4 DEF CallReturns, CallMove
  <1>5. CASE CallUnwinds(c)
    BY <1>0, <1>5 DEF CallUnwinds, CallMove
  <1>6. CASE CallFindsPoolEnded(c) \/ CallLosesConnection(c)
    <2>1. FatalError(c)
      BY <1>6 DEF CallFindsPoolEnded, CallLosesConnection
    <2>2. CallMove(c)
      BY <2>1 DEF FatalError, CallMove
    <2> QED BY <2>1, <2>2, ReportMoves DEF FatalError
  <1> QED BY <1>1, <1>2, <1>3, <1>4, <1>5, <1>6 DEF CallStep

(* Every step: of the coordinator or the environment, of one call, the     *)
(* publication of a pool, or close().                                      *)
LEMMA NextMoves ==
    ASSUME StepInv, [Next]_vars
    PROVE  \/ UNCHANGED calls /\ (Stays \/ GoesDown) /\ Working'
           \/ \E c \in Callers : CallMove(c) /\ (Stays \/ GoesDown) /\ Working'
           \/ \E l \in Loops : Connected(l) /\ ComesUp /\ Working'
           \/ Close
  <1> USE DEF service, driver, loop
  <1>0. ASSUME UNCHANGED <<service, loop>> PROVE Stays /\ Working'
    BY <1>0 DEF Stays, Working, StepInv, OutageIsAnnounced
  <1>1. CASE Start
    BY <1>1, EnsureMoves DEF Start
  <1>2. CASE CloseDriver
    BY <1>0, <1>2 DEF CloseDriver
  <1>3. CASE CloseDone
    BY <1>0, <1>3 DEF CloseDone
  <1>4. CASE HealthTick
    BY <1>0, <1>4 DEF HealthTick
  <1>5. CASE IdleClientFails
    BY <1>5, ReportMoves DEF IdleClientFails
  <1>6. ASSUME NEW p \in Pools, HealthPasses(p) \/ HealthFails(p)
        PROVE  UNCHANGED calls /\ (Stays \/ GoesDown) /\ Working'
    <2>1. CASE HealthPasses(p)
      BY <1>0, <2>1 DEF HealthPasses
    <2>2. CASE HealthFails(p)
      BY <2>2, ReportMoves DEF HealthFails
    <2> QED BY <1>6, <2>1, <2>2
  <1>7. CASE UNCHANGED vars
    BY <1>0, <1>7 DEF vars
  <1> QED BY <1>1, <1>2, <1>3, <1>4, <1>5, <1>6, <1>7, LoopMoves, CallMoves DEF Next

LEMMA OutageStep ==
    ASSUME StepInv, [Next]_vars
    PROVE  OutageIsAnnounced'
  <1>1. CASE (Stays \/ GoesDown) /\ Working'
    BY <1>1 DEF StepInv, OutageIsAnnounced, Stays, GoesDown, Working
  <1>2. CASE ComesUp /\ Working'
    BY <1>2 DEF OutageIsAnnounced, ComesUp, Working
  <1>3. CASE Close
    BY <1>3 DEF OutageIsAnnounced, Close
  <1> QED BY <1>1, <1>2, <1>3, NextMoves

----------------------------------------------------------------------------
(* pg's pools outlive their use.                                           *)

(* pool.end() settles only when nobody uses the pool any more.             *)
LEMMA EndedUnused ==
    ASSUME PostgresPoolsOutliveTheirUse, NEW p,
           p \in open => ~EndBlocked(p), open \ {p} \subseteq open', UNCHANGED <<calls, checks>>
    PROVE  PostgresPoolsOutliveTheirUse'
  BY DEF PostgresPoolsOutliveTheirUse, EndBlocked, PoolOf, calls

LEMMA CallKeepsPools ==
    ASSUME StepInv, NEW c \in Callers, UNCHANGED <<checks, open>>,
           AwaitConnection(c) \/ WaitTimeout(c) \/ CallStep(c) \/ CallLosesConnection(c)
    PROVE  PostgresPoolsOutliveTheirUse'
  <1> SUFFICES ASSUME Dialect = "postgresql"
               PROVE  PostgresPoolsOutliveTheirUse'
    BY DEF PostgresPoolsOutliveTheirUse
  <1> USE DEF Settle, Released, PoolOf
  <1>0. /\ checks' \subseteq open'
        /\ \A k \in Callers :
              /\ {query[k], conn[k]} \subseteq open' \cup {None}
              /\ stage[k] \in {"holding", "querying"} => PoolOf(k) # None
        /\ stage \in [Callers -> StageNames]
        /\ conn \in [Callers -> Pools \cup {None}] /\ query \in [Callers -> Pools \cup {None}]
    BY DEF StepInv, IInv, TypeOK, PostgresPoolsOutliveTheirUse, StageNames
  <1>1. CASE stage' = [stage EXCEPT ![c] = "idle"] /\ query' = [query EXCEPT ![c] = None]
             /\ conn' = [conn EXCEPT ![c] = None]
    BY <1>0, <1>1 DEF PostgresPoolsOutliveTheirUse
  <1>2. ASSUME NEW s \in StageNames \ {"holding", "querying"},
               stage' = [stage EXCEPT ![c] = s], UNCHANGED <<conn, query>>
        PROVE  PostgresPoolsOutliveTheirUse'
    BY <1>0, <1>2 DEF PostgresPoolsOutliveTheirUse
  <1>3. CASE AwaitConnection(c)
    BY <1>1, <1>2, <1>3 DEF AwaitConnection, StageNames
  <1>4. CASE WaitTimeout(c) \/ CallUnwinds(c)
    BY <1>1, <1>4 DEF WaitTimeout, CallUnwinds
  <1>5. CASE UsePool(c)
    <2>1. ready => pool \in open /\ pool # None
      BY DEF StepInv, IInv, PublishedIsWatched, TypeOK
    <2>2. CASE /\ stage' = [stage EXCEPT ![c] = "querying"]
               /\ query' = [query EXCEPT ![c] = pool] /\ UNCHANGED conn /\ ready
      BY <1>0, <2>1, <2>2 DEF PostgresPoolsOutliveTheirUse
    <2>3. CASE /\ stage' = [stage EXCEPT ![c] = "holding"]
               /\ conn' = [conn EXCEPT ![c] = pool] /\ UNCHANGED query /\ ready
      BY <1>0, <2>1, <2>3 DEF PostgresPoolsOutliveTheirUse
    <2> QED BY <1>1, <1>5, <2>2, <2>3 DEF UsePool
  <1>6. CASE CallReturns(c)
    <2>1. CASE /\ conn[c] # None /\ stage' = [stage EXCEPT ![c] = "holding"]
               /\ query' = [query EXCEPT ![c] = None] /\ UNCHANGED conn
      BY <1>0, <2>1 DEF PostgresPoolsOutliveTheirUse
    <2> QED BY <1>1, <1>6, <2>1 DEF CallReturns
  <1>7. CASE CallFindsPoolEnded(c) \/ CallLosesConnection(c)
    BY <1>2, <1>7 DEF CallFindsPoolEnded, CallLosesConnection, FatalError, StageNames
  <1> QED BY <1>3, <1>4, <1>5, <1>6, <1>7
          DEF StepInv, CallStep

LEMMA PostgresStep ==
    ASSUME StepInv, [Next]_vars
    PROVE  PostgresPoolsOutliveTheirUse'
  <1> SUFFICES ASSUME Dialect = "postgresql"
               PROVE  PostgresPoolsOutliveTheirUse'
    BY DEF PostgresPoolsOutliveTheirUse
  <1> USE DEF calls
  <1>0. PostgresPoolsOutliveTheirUse /\ open \subseteq Pools
    BY DEF StepInv, IInv, TypeOK
  <1>1. ASSUME UNCHANGED <<calls, open>>, checks' \subseteq checks \cup open
        PROVE  PostgresPoolsOutliveTheirUse'
    BY <1>0, <1>1 DEF PostgresPoolsOutliveTheirUse, PoolOf
  <1>2. CASE Close
    BY <1>0, <1>2 DEF Close, PostgresPoolsOutliveTheirUse, PoolOf
  <1>3. CASE CloseDone
    BY <1>0, <1>3, EndedUnused DEF CloseDone, EndSettles
  <1>4. CASE Start \/ CloseDriver \/ IdleClientFails
    BY <1>1, <1>4 DEF Start, CloseDriver, IdleClientFails
  <1>5. CASE HealthTick
    BY <1>1, <1>5 DEF HealthTick, StepInv, IInv, PublishedIsWatched
  <1>6. ASSUME NEW p \in Pools, HealthPasses(p) \/ HealthFails(p)
        PROVE  PostgresPoolsOutliveTheirUse'
    BY <1>1, <1>6 DEF HealthPasses, HealthFails
  <1>7. ASSUME NEW l \in Loops, LoopStep(l) \/ CloseOldPoolFails(l) \/ ConnectFails(l)
        PROVE  PostgresPoolsOutliveTheirUse'
    <2>1. CASE ClosedOldPool(l)
      <3>1. victim[l] \in open => ~EndBlocked(victim[l])
        BY <2>1 DEF ClosedOldPool, EndSettles
      <3>2. open \ {victim[l]} \subseteq open' /\ UNCHANGED <<calls, checks>>
        BY <2>1 DEF ClosedOldPool, EndSettles
      <3> QED BY <1>0, <3>1, <3>2, EndedUnused
    <2>2. CASE ConnectRejects(l) \/ AttemptFailed(l) \/ Aborted(l)
      <3>1. EndSettles(victim[l]) /\ UNCHANGED <<calls, checks>>
        BY <2>2 DEF ConnectRejects, AttemptFailed, Aborted
      <3> QED BY <1>0, <3>1, EndedUnused DEF EndSettles
    <2>3. CASE ProbeAnswers(l) \/ TypesRefreshed(l) \/ RetryTimerFires(l) \/ NextAttempt(l)
      BY <1>1, <2>3 DEF ProbeAnswers, TypesRefreshed, RetryTimerFires, NextAttempt
    <2>4. CASE TaskSettles(l) \/ ConnectFails(l)
      BY <1>1, <2>4 DEF TaskSettles, ConnectFails
    <2>5. CASE Connected(l)
      <3>1. UNCHANGED <<open, checks, conn, query>>
        BY <2>5 DEF Connected
      <3>2. \A c \in Callers : stage'[c] \in {"holding", "querying"} => stage[c] = stage'[c]
        BY <2>5 DEF Connected, ResolveWaiters
      <3> QED BY <1>0, <3>1, <3>2 DEF PostgresPoolsOutliveTheirUse, PoolOf
    <2>6. CASE CloseOldPoolFails(l)
      BY <2>6 DEF CloseOldPoolFails
    <2> QED BY <1>7, <2>1, <2>2, <2>3, <2>4, <2>5, <2>6 DEF LoopStep
  <1>8. ASSUME NEW c \in Callers,
               AwaitConnection(c) \/ WaitTimeout(c) \/ CallStep(c) \/ CallLosesConnection(c)
        PROVE  PostgresPoolsOutliveTheirUse'
    <2>1. UNCHANGED <<checks, open>>
      BY <1>8 DEF AwaitConnection, WaitTimeout, CallStep, UsePool, CallReturns, CallUnwinds,
                  CallFindsPoolEnded, CallLosesConnection, FatalError
    <2> QED BY <1>8, <2>1, CallKeepsPools
  <1>9. CASE UNCHANGED vars
    BY <1>1, <1>9 DEF vars
  <1> QED BY <1>2, <1>3, <1>4, <1>5, <1>6, <1>7, <1>8, <1>9 DEF Next

LEMMA StepInvariant == Spec => []StepInv
  <1>1. Init => OutageIsAnnounced /\ PostgresPoolsOutliveTheirUse
    BY DEF Init, OutageIsAnnounced, PostgresPoolsOutliveTheirUse
  <1>2. StepInv /\ [Next]_vars => StepInv'
    BY OutageStep, PostgresStep, InductiveStep DEF StepInv
  <1> QED BY <1>1, <1>2, InitInvariant, PTL DEF Spec, StepInv

----------------------------------------------------------------------------
(* What a step may do.                                                     *)

(* Consumers hear ready, then disconnected and reconnected in turn, and    *)
(* each in the step that changed the state, whichever of the loop, a call, *)
(* a health check or an idle client noticed it (ensureConnectionLoop() and *)
(* handleDisconnect(), database.ts:529-620).                               *)
THEOREM AnnouncementsAlternate == Spec => EventsAlternate
  <1> DEFINE Alternates ==
        /\ event' # event =>
              <<event, event'>> \in {<<"none", "ready">>, <<"ready", "disconnected">>,
                                     <<"disconnected", "reconnected">>,
                                     <<"reconnected", "disconnected">>}
        /\ connectionState' # "closing"
           /\ (connectionState = "ready") # (connectionState' = "ready") => event' # event
  <1>1. ASSUME StepInv, [Next]_vars PROVE Alternates
    <2>1. /\ event \in {"none", "ready", "disconnected", "reconnected"}
          /\ connectionState = "ready" => event \in {"ready", "reconnected"}
      BY <1>1 DEF StepInv, IInv, TypeOK, AnnouncementsAgree
    <2>2. CASE Stays
      BY <2>2 DEF Stays
    <2>3. CASE GoesDown
      BY <2>1, <2>3 DEF GoesDown
    <2>4. CASE ComesUp
      BY <2>4 DEF ComesUp
    <2>5. CASE Close
      BY <2>5 DEF Close
    <2> QED BY <1>1, <2>2, <2>3, <2>4, <2>5, NextMoves
  <1>2. StepInv /\ [Next]_vars => [Alternates]_vars
    BY <1>1
  <1> QED BY <1>2, StepInvariant, PTL DEF Spec, EventsAlternate

(* A call is let through only to a pool that is published and open, at     *)
(* awaitConnection() or when the loop resolves the waiters: not to one     *)
(* whose extension types are still being read, nor to one being closed.    *)
THEOREM AdmittedToOpenPool == Spec => AdmittedToPublishedPool
  <1> DEFINE Admitted(c) == stage[c] # "granted" /\ stage'[c] = "granted" =>
                               connectionState' = "ready" /\ pool' \in open'
  <1>1. ASSUME StepInv, [Next]_vars, NEW c \in Callers PROVE Admitted(c)
    <2>0. stage \in [Callers -> StageNames] /\ (ready => pool \in open)
      BY <1>1 DEF StepInv, IInv, TypeOK, PublishedIsWatched, StageNames
    <2>1. CASE UNCHANGED calls
      BY <2>1 DEF calls
    <2>2. ASSUME NEW d \in Callers, CallMove(d) PROVE Admitted(c)
      BY <2>0, <2>2 DEF CallMove, Repaired, service, driver
    <2>3. ASSUME NEW l \in Loops, Connected(l), ComesUp PROVE Admitted(c)
      <3>1. pool \in open /\ UNCHANGED <<pool, open>>
        BY <1>1, <2>3 DEF StepInv, IInv, LoopHolds, Connected, Publish, driver, ComesUp
      <3> QED BY <2>3, <3>1 DEF ComesUp
    <2>4. CASE Close
      BY <2>4 DEF Close
    <2> QED BY <1>1, <2>1, <2>2, <2>3, <2>4, NextMoves
  <1>2. StepInv /\ [Next]_vars => [\A c \in Callers : Admitted(c)]_vars
    BY <1>1
  <1> QED BY <1>2, StepInvariant, PTL DEF Spec, AdmittedToPublishedPool

(* After close() nothing that was under way (a loop, a late error, a       *)
(* timer, a queued call) reopens the lane, announces anything or lets a    *)
(* call through (close(), database.ts:182-195).                            *)
THEOREM CloseIsFinal == Spec => ClosingIsFinal
  <1> DEFINE Final == connectionState = "closing" =>
         /\ connectionState' = "closing" /\ event' = event /\ healthTimer' = "cleared"
         /\ \A c \in Callers : stage'[c] \in {"granted", "waiting"} => stage'[c] = stage[c]
  <1>1. ASSUME StepInv, [Next]_vars, connectionState = "closing" PROVE Final
    <2>0. stage \in [Callers -> StageNames] /\ healthTimer = "cleared"
      BY <1>1 DEF StepInv, IInv, TypeOK, OutageIsAnnounced, StageNames
    <2>1. CASE UNCHANGED calls /\ Stays
      BY <1>1, <2>0, <2>1 DEF calls, Stays
    <2>2. ASSUME NEW d \in Callers, CallMove(d), Stays PROVE Final
      BY <1>1, <2>0, <2>2 DEF CallMove, Repaired, Stays
    <2> QED BY <1>1, <2>1, <2>2, NextMoves DEF GoesDown, ComesUp, Close
  <1>2. StepInv /\ [Next]_vars => [Final]_vars
    BY <1>1
  <1> QED BY <1>2, StepInvariant, PTL DEF Spec, ClosingIsFinal

(* With pg, a connected lane has one pool, and whatever is in use is of it. *)
LEMMA OnePoolInUse ==
    ASSUME StepInv, Dialect = "postgresql", Repaired
    PROVE  /\ open \subseteq {pool} /\ checks \subseteq {pool}
           /\ \A c \in Callers : stage[c] \in {"holding", "querying"} => PoolOf(c) = pool
  <1>1. closer = "none" /\ closeVictim = None
    BY DEF StepInv, IInv, CloserAgrees, Repaired
  <1>2. \A l \in Loops : victim[l] = None
    BY DEF StepInv, IInv, LoopHolds, OutageIsAnnounced, Repaired
  <1>3. open \subseteq Pools /\ open \subseteq {pool, None}
    BY <1>1, <1>2 DEF StepInv, IInv, TypeOK, PoolsAccountedFor
  <1>4. open \subseteq {pool}
    BY <1>3
  <1> QED BY <1>4 DEF StepInv, PostgresPoolsOutliveTheirUse, PoolOf

(* A step that takes a connected lane down reports an error of a           *)
(* connection or of a health check.                                        *)
LEMMA OnlyErrorsTakeDown ==
    ASSUME StepInv, [Next]_vars, Repaired, connectionState' = "reconnecting"
    PROVE  \/ IdleClientFails
           \/ \E p \in Pools : HealthFails(p)
           \/ \E c \in Callers : CallFindsPoolEnded(c) \/ CallLosesConnection(c)
  <1> USE DEF service
  <1>1. connectionState' # connectionState
    BY DEF Repaired
  <1>2. ~(Start \/ Close \/ CloseDriver \/ CloseDone \/ HealthTick)
    BY <1>1 DEF Start, EnsureConnectionLoop, Close, CloseDriver, CloseDone, HealthTick
  <1>3. ASSUME NEW p \in Pools, HealthPasses(p) PROVE FALSE
    BY <1>1, <1>3 DEF HealthPasses
  <1>4. ASSUME NEW l \in Loops, LoopStep(l) \/ CloseOldPoolFails(l) \/ ConnectFails(l)
        PROVE  FALSE
    <2>1. ~Connected(l) /\ ~TaskSettles(l)
      BY <1>1 DEF Connected, Publish, TaskSettles
    <2> QED BY <1>1, <1>4, <2>1
            DEF LoopStep, ClosedOldPool, ProbeAnswers, TypesRefreshed, ConnectRejects,
                AttemptFailed, RetryTimerFires, NextAttempt, Aborted, CloseOldPoolFails,
                ConnectFails
  <1>5. ASSUME NEW c \in Callers,
               AwaitConnection(c) \/ WaitTimeout(c) \/ UsePool(c) \/ CallReturns(c)
               \/ CallUnwinds(c)
        PROVE  FALSE
    BY <1>1, <1>5 DEF AwaitConnection, WaitTimeout, UsePool, CallReturns, CallUnwinds
  <1>6. ~UNCHANGED vars
    BY <1>1 DEF vars
  <1> QED BY <1>2, <1>3, <1>4, <1>5, <1>6 DEF Next, CallStep

(* On PostgreSQL an outage is always one of the current pool: pg ends a    *)
(* pool only when nothing of it is in use, so no error of an earlier pool  *)
(* can arrive after the rebuild.  (mysql2 closes connections that calls    *)
(* have pinned: there the property fails, see the run of MySQL.)           *)
THEOREM StaleErrorsCannotArrive ==
    ASSUME Dialect = "postgresql"
    PROVE  Spec => StaleErrorNeverRebuilds
  <1>1. ASSUME StepInv, [Next]_vars, Repaired, connectionState' = "reconnecting"
        PROVE  ErrorOfCurrentPool
    <2>1. /\ open \subseteq {pool} /\ checks \subseteq {pool}
          /\ \A c \in Callers : stage[c] \in {"holding", "querying"} => PoolOf(c) = pool
      BY <1>1, OnePoolInUse
    <2>2. pool \in open
      BY <1>1 DEF StepInv, IInv, PublishedIsWatched, Repaired
    <2>3. ASSUME NEW p \in Pools, HealthFails(p) PROVE ErrorOfCurrentPool
      <3>1. p \in checks
        BY <2>3 DEF HealthFails
      <3>2. p = pool
        BY <2>1, <3>1
      <3> QED BY <2>3, <3>1, <3>2 DEF ErrorOfCurrentPool
    <2>4. ASSUME NEW c \in Callers, CallFindsPoolEnded(c) PROVE FALSE
      BY <2>1, <2>2, <2>4 DEF CallFindsPoolEnded, FatalError
    <2>5. ASSUME NEW c \in Callers, CallLosesConnection(c) PROVE ErrorOfCurrentPool
      <3>1. PoolOf(c) = pool
        BY <2>1, <2>5 DEF CallLosesConnection, FatalError
      <3> QED BY <2>5, <3>1 DEF ErrorOfCurrentPool
    <2>6. CASE IdleClientFails
      BY <2>6 DEF ErrorOfCurrentPool
    <2> QED BY <1>1, <2>3, <2>4, <2>5, <2>6, OnlyErrorsTakeDown
  <1>2. StepInv /\ [Next]_vars =>
           [Repaired /\ connectionState' = "reconnecting" => ErrorOfCurrentPool]_vars
    BY <1>1
  <1> QED BY <1>2, StepInvariant, PTL DEF Spec, StaleErrorNeverRebuilds

----------------------------------------------------------------------------
(* The coordinator implements LifecycleContract, its fairness apart.       *)

(* What a stage of a call is to the contract.                              *)
Seen(s) == IF s = "idle" THEN "out" ELSE IF s = "waiting" THEN "queued" ELSE "in"

LEMMA RequestIsSeen ==
    /\ request = [c \in Callers |-> Seen(stage[c])]
    /\ request' = [c \in Callers |-> Seen(stage'[c])]
  BY DEF request, Seen

LEMMA QueuedAreWaiters == Contract!Cardinality(Contract!Queued) = Cardinality(waiters)
  <1>1. Contract!Queued = waiters
    BY DEF Contract!Queued, waiters, request
  <1>2. Contract!Cardinality(waiters) = Cardinality(waiters)
    BY DEF Cardinality, Contract!Cardinality
  <1> QED BY <1>1, <1>2

LEMMA PhaseIs ==
    ASSUME StepInv
    PROVE  /\ phase = "closed" <=> connectionState = "closing"
           /\ phase \in {"starting", "down"} <=>
                 connectionState # "closing" /\ event \in {"none", "disconnected"}
           /\ phase = "up" <=> connectionState # "closing" /\ event \notin {"none", "disconnected"}
           /\ Repaired => phase = "up"
  BY DEF phase, StepInv, IInv, AnnouncementsAgree, Repaired

LEMMA PhaseMoves ==
    ASSUME StepInv, Stays \/ GoesDown
    PROVE  \/ phase' = phase
           \/ phase = "up" /\ phase' = "down" /\ ~Stays
  BY DEF phase, Stays, GoesDown

LEMMA StepImplements ==
    ASSUME StepInv, [Next]_vars
    PROVE  [Contract!Next]_(Contract!vars)
  <1> USE DEF Contract!Next, Contract!vars
  <1>0. stage \in [Callers -> StageNames]
    BY DEF StepInv, IInv, TypeOK, StageNames
  <1>1. CASE UNCHANGED calls /\ (Stays \/ GoesDown)
    <2>1. request' = request
      BY <1>1 DEF calls, request
    <2> QED BY <1>1, <2>1, PhaseMoves DEF Contract!GoDown
  <1>2. ASSUME NEW c \in Callers, CallMove(c), Stays \/ GoesDown
        PROVE  [Contract!Next]_(Contract!vars)
    <2>1. PICK s \in StageNames :
             /\ stage' = [stage EXCEPT ![c] = s]
             /\ s = "granted" => /\ stage[c] # "waiting" /\ Repaired
                                 /\ UNCHANGED <<service, driver, open>>
             /\ s = "waiting" => /\ stage[c] # "waiting" /\ connectionState # "closing"
                                 /\ Cardinality(waiters) < QueueLimit /\ Stays
             /\ s = "idle" => Stays
             /\ s \in {"holding", "querying", "failing"} => stage[c] \notin {"idle", "waiting"}
      BY <1>2 DEF CallMove
    <2>2. /\ request' = [request EXCEPT ![c] = Seen(s)]
          /\ request[c] = Seen(stage[c]) /\ request \in [Callers -> {"out", "queued", "in"}]
      BY <1>0, <2>1, RequestIsSeen DEF Seen
    <2>3. CASE s = "granted"
      <3>1. phase = "up" /\ phase' = phase
        BY <2>1, <2>3, PhaseIs DEF service, phase
      <3>2. Contract!Ask(c)
        BY <2>1, <2>2, <2>3, <3>1 DEF Contract!Ask, Seen
      <3> QED BY <3>2
    <2>4. CASE s = "waiting"
      <3>1. phase # "closed" /\ phase' = phase
        BY <2>1, <2>4, PhaseIs, PhaseMoves
      <3>2. Contract!Ask(c)
        BY <2>1, <2>2, <2>4, <3>1, QueuedAreWaiters DEF Contract!Ask, Seen
      <3> QED BY <3>2
    <2>5. CASE s = "idle"
      <3>1. phase' = phase /\ Seen(s) = "out"
        BY <2>1, <2>5, PhaseMoves DEF Seen
      <3>2. Contract!Ask(c) \/ Contract!Expire(c)
        BY <2>2, <3>1 DEF Contract!Ask, Contract!Expire
      <3> QED BY <3>2
    <2>6. CASE s \in {"holding", "querying", "failing"}
      <3>1. request' = request
        BY <2>1, <2>2, <2>6 DEF Seen
      <3> QED BY <1>2, <3>1, PhaseMoves DEF Contract!GoDown
    <2> QED BY <2>3, <2>4, <2>5, <2>6 DEF StageNames
  <1>3. ASSUME NEW l \in Loops, Connected(l), ComesUp
        PROVE  [Contract!Next]_(Contract!vars)
    <2>1. phase \in {"starting", "down"} /\ phase' = "up"
      BY <1>3, PhaseIs DEF ComesUp, phase
    <2>2. request' = [c \in Callers |-> IF request[c] = "queued" THEN "in" ELSE request[c]]
      BY <1>3 DEF Connected, ResolveWaiters, request, ComesUp
    <2> QED BY <2>1, <2>2 DEF Contract!ComeUp
  <1>4. CASE Close
    <2>1. phase # "closed" /\ phase' = "closed"
      BY <1>4, PhaseIs DEF Close, phase
    <2>2. request' = [c \in Callers |-> IF request[c] = "queued" THEN "out" ELSE request[c]]
      BY <1>4 DEF Close, request
    <2> QED BY <2>1, <2>2 DEF Contract!Close
  <1> QED BY <1>1, <1>2, <1>3, <1>4, NextMoves

(* Every behaviour of the coordinator is one of the contract: consumers    *)
(* see a lane that starts, comes up, goes down and closes, calls are let   *)
(* in at once only while it is up, queued only within the limit, all let   *)
(* in when it comes up and all refused when it closes.                     *)
THEOREM KeepsContract == Spec => Contract!Spec
  <1>1. Init => Contract!Init
    BY DEF Init, Contract!Init, phase, request
  <1>2. StepInv /\ [Next]_vars => [Contract!Next]_(Contract!vars)
    BY StepImplements
  <1> QED BY <1>1, <1>2, StepInvariant, PTL DEF Spec, Contract!Spec

=============================================================================
