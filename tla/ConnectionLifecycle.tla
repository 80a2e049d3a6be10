------------------------ MODULE ConnectionLifecycle ------------------------
(***************************************************************************)
(* The connection coordinator of one database lane: DatabaseService in     *)
(* src/core/database.ts over MySqlDriver / PostgresDriver.                 *)
(*                                                                         *)
(* JavaScript runs to completion between two awaits, so one action is the  *)
(* code from one await to the next, every call it makes included.  A pool  *)
(* stands for the pair (query pool, schema pool) one connect() creates.    *)
(* The database server and the driver libraries are the environment: a     *)
(* probe, a statement, a health check or a pool.end() may fail, at most    *)
(* MaxFaults times in a behaviour.  Calls are the API calls of consumers;  *)
(* a call may run one pooled statement, or pin a connection (transaction,  *)
(* prepared batch, schema session) and ask for the pool again while it     *)
(* holds it, as the schema managers do.                                    *)
(***************************************************************************)
EXTENDS Naturals, FiniteSets

CONSTANTS Callers,     \* API calls that may be in progress at once
          Loops,       \* identities of connectionLoop() activations
          Pools,       \* identities of driver pools
          None,        \* null
          Dialect,     \* "mysql" or "postgresql"
          QueueLimit,  \* connectionQueueLimit
          MaxFaults    \* bound on failures of the environment

ASSUME ConstantsAssumption ==
    /\ Dialect \in {"mysql", "postgresql"}
    /\ QueueLimit \in Nat
    /\ MaxFaults \in Nat
    /\ None \notin Loops \cup Pools

VARIABLES
    connectionState,      \* "connecting", "ready", "reconnecting", "closing"
    connectionTask,       \* the loop this.connectionTask refers to, or None
    flags,                \* which of connectedBefore, disconnectAnnounced are true
    healthTimer,          \* the health-check interval: "armed" or "cleared"
    retryTimer,           \* the loop whose retry wait is armed, or None
    event,                \* the last lifecycle event emitted
    readiness,            \* driver.ready: "ready" or "unready"
    pool,                 \* driver.pool, or None
    open,                 \* pools created and not yet ended
    pc,                   \* where each connectionLoop() is suspended
    victim,               \* the pool each loop is opening or ending, or None
    stage,                \* where each call is suspended
    conn,                 \* the pool whose connection a call has pinned, or None
    query,                \* the pool a call's pooled statement runs on, or None
    checks,               \* pools with a health check in flight
    closer,               \* where close() is suspended
    closeTask,            \* the connectionTask close() captured, or None
    closeVictim,          \* the pool close() is ending, or None
    faults

service == <<connectionState, flags, healthTimer, event>>
driver  == <<readiness, pool>>
loop    == <<connectionTask, pc, victim>>
calls   == <<stage, conn, query>>
closing == <<closer, closeTask, closeVictim>>
vars == <<service, driver, loop, calls, closing, retryTimer, checks, open, faults>>

connectedBefore == "connectedBefore" \in flags
disconnectAnnounced == "disconnectAnnounced" \in flags
ready == readiness = "ready"

Active == {"closing", "connecting", "refreshing", "connected", "ending",
           "failed", "aborting", "retrying", "woken", "returned"}

Init ==
    /\ connectionState = "connecting" /\ connectionTask = None
    /\ flags = {} /\ healthTimer = "cleared"
    /\ retryTimer = None /\ event = "none"
    /\ readiness = "unready" /\ pool = None /\ open = {}
    /\ pc = [l \in Loops |-> "idle"] /\ victim = [l \in Loops |-> None]
    /\ stage = [c \in Callers |-> "idle"]
    /\ conn = [c \in Callers |-> None] /\ query = [c \in Callers |-> None]
    /\ checks = {}
    /\ closer = "none" /\ closeTask = None /\ closeVictim = None
    /\ faults = 0

----------------------------------------------------------------------------
(* The environment.                                                        *)

Fault == faults < MaxFaults /\ faults' = faults + 1

(* pool.end() of pg waits for every client checked out of the pool; that   *)
(* of mysql2 waits for the running commands only, and then closes even the *)
(* connections a call still has pinned.                                    *)
EndBlocked(p) ==
    \/ p \in checks
    \/ \E c \in Callers : query[c] = p \/ (Dialect = "postgresql" /\ conn[c] = p)

Unused(p) == /\ p \notin open \cup checks
             /\ \A c \in Callers : conn[c] # p /\ query[c] # p

waiters == {c \in Callers : stage[c] = "waiting"}

----------------------------------------------------------------------------
(* Shared pieces of the handlers.                                          *)

(* connectionLoop() up to its first await: driver.close() detaches the     *)
(* pool at once.  base is pc as the caller of the loop leaves it.          *)
StartLoop(base) ==
    \E l \in Loops :
        /\ base[l] = "idle"
        /\ connectionTask' = l
        /\ pc' = [base EXCEPT ![l] = "closing"]
        /\ victim' = [victim EXCEPT ![l] = pool]
        /\ pool' = None /\ readiness' = "unready"

(* Faulty: the state takes the name of the lifecycle event.                *)
BeginRepairNamesEvent(base) ==
    /\ connectionState' = IF connectedBefore THEN "disconnected" ELSE "connecting"
    /\ StartLoop(base)
    /\ UNCHANGED <<flags, event, healthTimer>>

(* ensureConnectionLoop() past its guard.                                  *)
BeginRepair(base) ==
    /\ connectionState' = IF connectedBefore THEN "reconnecting" ELSE "connecting"
    /\ IF connectedBefore /\ ~disconnectAnnounced
       THEN flags' = flags \cup {"disconnectAnnounced"} /\ event' = "disconnected"
       ELSE UNCHANGED <<flags, event>>
    /\ StartLoop(base)
    /\ UNCHANGED healthTimer

(* Faulty: the driver's flag alone decides.                                *)
RepairedByDriver == ready

Repaired == connectionState = "ready" /\ ready

(* Faulty: a running loop is not noticed.                                  *)
EnsureAnotherLoop ==
    IF connectionState = "closing" \/ Repaired
    THEN UNCHANGED <<service, driver, loop>>
    ELSE BeginRepair(pc)

EnsureConnectionLoop ==
    IF connectionState = "closing" \/ Repaired \/ connectionTask # None
    THEN UNCHANGED <<service, driver, loop>>
    ELSE BeginRepair(pc)

(* driver.reportFatalError() with its listener, handleDisconnect().        *)
ReportFatalError ==
    LET reported == IF Dialect = "mysql" THEN "unready" ELSE readiness IN
    IF connectionState = "closing" \/ ~connectedBefore
    THEN readiness' = reported /\ UNCHANGED <<service, pool, loop>>
    ELSE /\ connectionState' = "reconnecting"
         /\ healthTimer' = "cleared"
         /\ flags' = flags \cup {"disconnectAnnounced"}
         /\ event' = IF disconnectAnnounced THEN event ELSE "disconnected"
         /\ IF connectionTask = None
            THEN StartLoop(pc)
            ELSE readiness' = reported /\ UNCHANGED <<pool, loop>>

----------------------------------------------------------------------------
(* Calls.                                                                  *)

(* Back to "idle": the call has settled and let go of what it held.        *)
Settle(c, nextConn) ==
    /\ stage' = [stage EXCEPT ![c] = "idle"]
    /\ conn' = nextConn
    /\ query' = [query EXCEPT ![c] = None]

Released(c) == [conn EXCEPT ![c] = None]

(* awaitConnection(), from a call that starts or from one that holds a     *)
(* pinned connection; a refused call unwinds and releases what it pinned.  *)
AwaitConnection(c) ==
    /\ stage[c] \in {"idle", "holding"}
    /\ \/ /\ Repaired
          /\ stage' = [stage EXCEPT ![c] = "granted"]
          /\ UNCHANGED <<service, driver, loop, conn, query>>
       \/ /\ ~Repaired
          /\ connectionState = "closing" \/ Cardinality(waiters) >= QueueLimit
          /\ Settle(c, Released(c))
          /\ UNCHANGED <<service, driver, loop>>
       \/ /\ ~Repaired
          /\ connectionState # "closing" /\ Cardinality(waiters) < QueueLimit
          /\ stage' = [stage EXCEPT ![c] = "waiting"]
          /\ EnsureConnectionLoop
          /\ UNCHANGED <<conn, query>>
    /\ UNCHANGED <<closing, retryTimer, checks, open, faults>>

(* Faulty: a call that has pinned a connection waits without limit.        *)
WaitTimeoutUnlessPinned(c) ==
    /\ stage[c] = "waiting" /\ conn[c] = None
    /\ Settle(c, conn)
    /\ UNCHANGED <<service, driver, loop, closing, retryTimer, checks, open, faults>>

(* The waiter's own timer.                                                 *)
WaitTimeout(c) ==
    /\ stage[c] = "waiting"
    /\ Settle(c, Released(c))
    /\ UNCHANGED <<service, driver, loop, closing, retryTimer, checks, open, faults>>

(* The continuation of awaitConnection(): requirePool() throws when the    *)
(* driver is no longer ready, else the call runs a pooled statement or     *)
(* pins a connection.                                                      *)
UsePool(c) ==
    /\ stage[c] = "granted"
    /\ \/ /\ ~ready \/ pool = None
          /\ Settle(c, Released(c))
       \/ /\ ready /\ pool # None
          /\ stage' = [stage EXCEPT ![c] = "querying"]
          /\ query' = [query EXCEPT ![c] = pool]
          /\ UNCHANGED conn
       \/ /\ ready /\ pool # None /\ conn[c] = None
          /\ stage' = [stage EXCEPT ![c] = "holding"]
          /\ conn' = [conn EXCEPT ![c] = pool]
          /\ UNCHANGED query
    /\ UNCHANGED <<service, driver, loop, closing, retryTimer, checks, open, faults>>

PoolOf(c) == IF query[c] # None THEN query[c] ELSE conn[c]

(* The statement returns, or fails without losing the connection; the call *)
(* goes on with its pinned connection or settles.                          *)
CallReturns(c) ==
    /\ stage[c] \in {"holding", "querying"} /\ PoolOf(c) \in open
    /\ \/ Settle(c, Released(c))
       \/ /\ stage[c] = "querying" /\ conn[c] # None
          /\ stage' = [stage EXCEPT ![c] = "holding"]
          /\ query' = [query EXCEPT ![c] = None]
          /\ UNCHANGED conn
    /\ UNCHANGED <<service, driver, loop, closing, retryTimer, checks, open, faults>>

(* guard() reports the fatal error before the call sees it: the call       *)
(* unwinds in a later step.                                                *)
FatalError(c) ==
    /\ stage[c] \in {"holding", "querying"}
    /\ ReportFatalError
    /\ stage' = [stage EXCEPT ![c] = "failing"]
    /\ UNCHANGED <<conn, query, closing, retryTimer, checks, open>>

(* The server drops the connection a call uses.                            *)
CallLosesConnection(c) == PoolOf(c) \in open /\ Fault /\ FatalError(c)

(* The call uses a connection whose pool has been ended meanwhile.         *)
CallFindsPoolEnded(c) == PoolOf(c) \notin open /\ FatalError(c) /\ UNCHANGED faults

CallUnwinds(c) ==
    /\ stage[c] = "failing"
    /\ Settle(c, Released(c))
    /\ UNCHANGED <<service, driver, loop, closing, retryTimer, checks, open, faults>>

----------------------------------------------------------------------------
(* The health check: one outstanding check per interval that was started.  *)

HealthTick ==
    /\ healthTimer = "armed" /\ connectionState = "ready"
    /\ ready /\ pool # None /\ pool \notin checks
    /\ checks' = checks \cup {pool}
    /\ UNCHANGED <<service, driver, loop, calls, closing, retryTimer, open, faults>>

(* Faulty: a check that failed for a busy pool counts as a disconnect.     *)
AnyCheckDisconnects(p) ==
    /\ p \in checks
    /\ checks' = checks \ {p}
    /\ ReportFatalError
    /\ UNCHANGED <<calls, closing, retryTimer, open, faults>>

(* It passes, or fails with an error isFatalError() does not recognise.    *)
HealthPasses(p) ==
    /\ p \in checks
    /\ checks' = checks \ {p}
    /\ UNCHANGED <<service, driver, loop, calls, closing, retryTimer, open, faults>>

(* The driver reports the fatal error, and the catch of startHealthCheck() *)
(* runs handleDisconnect() again, which changes nothing more.              *)
HealthFails(p) ==
    /\ p \in checks
    /\ IF p \in open THEN Fault ELSE UNCHANGED faults
    /\ checks' = checks \ {p}
    /\ ReportFatalError
    /\ UNCHANGED <<calls, closing, retryTimer, open>>

(* pg's pool emits 'error' for an idle client.                             *)
IdleClientFails ==
    /\ Dialect = "postgresql" /\ pool # None
    /\ Fault
    /\ ReportFatalError
    /\ UNCHANGED <<calls, closing, retryTimer, checks, open>>

----------------------------------------------------------------------------
(* connectionLoop(): one action per suspension point.                      *)

Goto(l, where) == pc' = [pc EXCEPT ![l] = where]

(* driver.close() up to its await.                                         *)
DetachPool(l) ==
    /\ victim' = [victim EXCEPT ![l] = pool]
    /\ pool' = None /\ readiness' = "unready"

(* pool.end() settles; nothing to wait for when there was no pool.         *)
EndSettles(p) == (p \in open => ~EndBlocked(p)) /\ open' = open \ {p}

(* Faulty: connect() does not wait for driver.close().                     *)
ConnectsBeforeClosed(l) ==
    /\ pc[l] = "closing"
    /\ \E p \in Pools :
        /\ Unused(p)
        /\ open' = (open \ {victim[l]}) \cup {p}
        /\ victim' = [victim EXCEPT ![l] = p]
    /\ Goto(l, "connecting")
    /\ UNCHANGED <<service, driver, calls, closing, connectionTask, retryTimer, checks, faults>>

(* driver.close() at the top of the loop has ended the old pool;           *)
(* driver.connect() creates the new one and probes it.                     *)
ClosedOldPool(l) ==
    /\ pc[l] = "closing"
    /\ IF ready
       THEN /\ EndSettles(victim[l])
            /\ Goto(l, "connected") /\ victim' = [victim EXCEPT ![l] = None]
       ELSE \E p \in Pools :
            /\ Unused(p)
            /\ victim[l] \in open => ~EndBlocked(victim[l])
            /\ open' = (open \ {victim[l]}) \cup {p}
            /\ victim' = [victim EXCEPT ![l] = p]
            /\ Goto(l, "connecting")
    /\ UNCHANGED <<service, driver, calls, closing, connectionTask, retryTimer, checks, faults>>

(* mysql2's pool.end() rejects when a connection is already dead: the      *)
(* catch of the loop runs driver.close() again.                            *)
CloseOldPoolFails(l) ==
    /\ pc[l] = "closing" /\ victim[l] \in open /\ Dialect = "mysql"
    /\ Fault
    /\ open' = open \ {victim[l]}
    /\ DetachPool(l) /\ Goto(l, "failed")
    /\ UNCHANGED <<service, calls, closing, connectionTask, retryTimer, checks>>

(* The probe answers.  MySqlDriver is done; PostgresDriver is already      *)
(* ready and reads the extension types.                                    *)
ProbeAnswers(l) ==
    /\ pc[l] = "connecting"
    /\ pool' = victim[l] /\ readiness' = "ready"
    /\ IF Dialect = "mysql"
       THEN Goto(l, "connected") /\ victim' = [victim EXCEPT ![l] = None]
       ELSE Goto(l, "refreshing") /\ UNCHANGED victim
    /\ UNCHANGED <<service, calls, closing, connectionTask, retryTimer, checks, open, faults>>

TypesRefreshed(l) ==
    /\ pc[l] = "refreshing"
    /\ Goto(l, "connected") /\ victim' = [victim EXCEPT ![l] = None]
    /\ UNCHANGED <<service, driver, calls, closing, connectionTask, retryTimer, checks, open, faults>>

(* connect() fails and ends the pool it created.                           *)
ConnectFails(l) ==
    /\ pc[l] \in {"connecting", "refreshing"}
    /\ Fault
    /\ IF Dialect = "postgresql" THEN pool' = None /\ readiness' = "unready" ELSE UNCHANGED driver
    /\ Goto(l, "ending")
    /\ UNCHANGED <<service, calls, closing, connectionTask, victim, retryTimer, checks, open>>

(* connect() has rejected: the catch of the loop runs driver.close().      *)
ConnectRejects(l) ==
    /\ pc[l] = "ending"
    /\ EndSettles(victim[l])
    /\ DetachPool(l) /\ Goto(l, "failed")
    /\ UNCHANGED <<service, calls, closing, connectionTask, retryTimer, checks, faults>>

(* The rest of the catch: give up when closing, else wait for a retry.     *)
AttemptFailed(l) ==
    /\ pc[l] = "failed"
    /\ EndSettles(victim[l])
    /\ victim' = [victim EXCEPT ![l] = None]
    /\ IF connectionState = "closing"
       THEN Goto(l, "returned") /\ UNCHANGED retryTimer
       ELSE Goto(l, "retrying") /\ retryTimer' = l
    /\ UNCHANGED <<service, driver, calls, closing, connectionTask, checks, faults>>

RetryTimerFires(l) ==
    /\ pc[l] = "retrying" /\ retryTimer = l
    /\ retryTimer' = None
    /\ Goto(l, "woken")
    /\ UNCHANGED <<service, driver, calls, closing, connectionTask, victim, checks, open, faults>>

(* The head of the while loop.                                             *)
NextAttempt(l) ==
    /\ pc[l] = "woken"
    /\ IF connectionState = "closing"
       THEN Goto(l, "returned") /\ UNCHANGED <<victim, driver>>
       ELSE Goto(l, "closing") /\ DetachPool(l)
    /\ UNCHANGED <<service, calls, closing, connectionTask, retryTimer, checks, open, faults>>

(* resolveWaiters().                                                       *)
ResolveWaiters ==
    stage' = [c \in Callers |-> IF stage[c] = "waiting" THEN "granted" ELSE stage[c]]

(* Faulty: the outage counts as announced for ever.                        *)
PublishesStillAnnounced(l) ==
    /\ flags' = flags \cup {"connectedBefore"}
    /\ connectionState' = "ready"
    /\ healthTimer' = "armed"
    /\ event' = IF connectedBefore THEN "reconnected" ELSE "ready"
    /\ Goto(l, "returned") /\ UNCHANGED <<driver, victim>>

(* The loop publishes the new pool.                                        *)
Publish(l) ==
    /\ flags' = {"connectedBefore"}
    /\ connectionState' = "ready"
    /\ healthTimer' = "armed"
    /\ event' = IF connectedBefore THEN "reconnected" ELSE "ready"
    /\ Goto(l, "returned") /\ UNCHANGED <<driver, victim>>

(* Faulty: close() during connect() goes unnoticed.                        *)
PublishesWhileClosing(l) ==
    /\ pc[l] = "connected"
    /\ Publish(l) /\ ResolveWaiters
    /\ UNCHANGED <<conn, query, closing, connectionTask, retryTimer, checks, open, faults>>

(* Faulty: the waiters are left to their timers.                           *)
PublishesWithoutResolving(l) ==
    /\ pc[l] = "connected"
    /\ IF connectionState = "closing"
       THEN DetachPool(l) /\ Goto(l, "aborting") /\ UNCHANGED service
       ELSE Publish(l)
    /\ UNCHANGED <<calls, closing, connectionTask, retryTimer, checks, open, faults>>

(* connect() has resolved; the pool is given back when close() was called  *)
(* meanwhile.                                                              *)
Connected(l) ==
    /\ pc[l] = "connected"
    /\ IF connectionState = "closing"
       THEN DetachPool(l) /\ Goto(l, "aborting") /\ UNCHANGED <<service, stage>>
       ELSE Publish(l) /\ ResolveWaiters
    /\ UNCHANGED <<conn, query, closing, connectionTask, retryTimer, checks, open, faults>>

Aborted(l) ==
    /\ pc[l] = "aborting"
    /\ EndSettles(victim[l])
    /\ victim' = [victim EXCEPT ![l] = None]
    /\ Goto(l, "returned")
    /\ UNCHANGED <<service, driver, calls, closing, connectionTask, retryTimer, checks, faults>>

(* Faulty: a fatal error since the pool was published is not looked at.    *)
TaskSettlesForGood(l) ==
    /\ pc[l] = "returned"
    /\ Goto(l, "idle")
    /\ connectionTask' = IF connectionTask = l THEN None ELSE connectionTask
    /\ UNCHANGED <<service, driver, victim, calls, closing, retryTimer, checks, open, faults>>

(* Faulty: the state alone is looked at, not the driver.                   *)
TaskSettlesByState(l) ==
    /\ pc[l] = "returned"
    /\ LET settled == [pc EXCEPT ![l] = "idle"] IN
       IF connectionTask = l /\ connectionState \notin {"closing", "ready"}
       THEN BeginRepair(settled)
       ELSE /\ pc' = settled
            /\ connectionTask' = IF connectionTask = l THEN None ELSE connectionTask
            /\ UNCHANGED <<service, driver, victim>>
    /\ UNCHANGED <<calls, closing, retryTimer, checks, open, faults>>

(* task.finally(): what happened between the last step of the loop and     *)
(* this callback is looked at once more.                                   *)
TaskSettles(l) ==
    /\ pc[l] = "returned"
    /\ LET settled == [pc EXCEPT ![l] = "idle"] IN
       IF connectionTask = l /\ connectionState # "closing" /\ ~Repaired
       THEN BeginRepair(settled)
       ELSE /\ pc' = settled
            /\ connectionTask' = IF connectionTask = l THEN None ELSE connectionTask
            /\ UNCHANGED <<service, driver, victim>>
    /\ UNCHANGED <<calls, closing, retryTimer, checks, open, faults>>

----------------------------------------------------------------------------
(* start() and close().                                                    *)

Start ==
    /\ EnsureConnectionLoop
    /\ UNCHANGED <<calls, closing, retryTimer, checks, open, faults>>

(* Faulty: the retry timer is cleared, its wait is never released.         *)
CloseKeepsRetryWaiting ==
    /\ connectionState # "closing"
    /\ connectionState' = "closing"
    /\ healthTimer' = "cleared" /\ retryTimer' = None
    /\ stage' = [c \in Callers |-> IF stage[c] = "waiting" THEN "idle" ELSE stage[c]]
    /\ conn' = [c \in Callers |-> IF stage[c] = "waiting" THEN None ELSE conn[c]]
    /\ closer' = "awaitingTask" /\ closeTask' = connectionTask
    /\ UNCHANGED <<flags, event, driver, loop,
                   query, closeVictim, checks, open, faults>>

(* close(): every waiter is rejected, the retry wait is released.          *)
Close ==
    /\ connectionState # "closing"
    /\ connectionState' = "closing"
    /\ healthTimer' = "cleared"
    /\ pc' = [l \in Loops |-> IF l = retryTimer THEN "woken" ELSE pc[l]]
    /\ retryTimer' = None
    /\ stage' = [c \in Callers |-> IF stage[c] = "waiting" THEN "idle" ELSE stage[c]]
    /\ conn' = [c \in Callers |-> IF stage[c] = "waiting" THEN None ELSE conn[c]]
    /\ closer' = "awaitingTask" /\ closeTask' = connectionTask
    /\ UNCHANGED <<flags, event, driver, connectionTask,
                   victim, query, closeVictim, checks, open, faults>>

(* Faulty: close() does not wait for the loop.                             *)
CloseDriverAtOnce ==
    /\ closer = "awaitingTask"
    /\ closer' = "awaitingDriver" /\ closeVictim' = pool
    /\ pool' = None /\ readiness' = "unready"
    /\ UNCHANGED <<service, loop, calls, closeTask, retryTimer, checks, open, faults>>

(* The loop that close() captured is over: driver.close().                 *)
CloseDriver ==
    /\ closer = "awaitingTask"
    /\ closeTask # None => pc[closeTask] \in {"returned", "idle"}
    /\ closer' = "awaitingDriver" /\ closeVictim' = pool
    /\ pool' = None /\ readiness' = "unready"
    /\ UNCHANGED <<service, loop, calls, closeTask, retryTimer, checks, open, faults>>

CloseDone ==
    /\ closer = "awaitingDriver"
    /\ EndSettles(closeVictim)
    /\ closer' = "closed" /\ closeVictim' = None
    /\ UNCHANGED <<service, driver, loop, calls, closeTask, retryTimer, checks, faults>>

----------------------------------------------------------------------------
LoopStep(l) ==
    \/ ClosedOldPool(l) \/ ProbeAnswers(l) \/ TypesRefreshed(l)
    \/ ConnectRejects(l) \/ AttemptFailed(l) \/ RetryTimerFires(l) \/ NextAttempt(l)
    \/ Connected(l) \/ Aborted(l) \/ TaskSettles(l)

CallStep(c) ==
    \/ UsePool(c) \/ CallReturns(c) \/ CallFindsPoolEnded(c) \/ CallUnwinds(c)

Next ==
    \/ Start \/ Close \/ CloseDriver \/ CloseDone
    \/ HealthTick \/ IdleClientFails
    \/ \E p \in Pools : HealthPasses(p) \/ HealthFails(p)
    \/ \E l \in Loops : LoopStep(l) \/ CloseOldPoolFails(l) \/ ConnectFails(l)
    \/ \E c \in Callers :
          AwaitConnection(c) \/ WaitTimeout(c) \/ CallStep(c) \/ CallLosesConnection(c)

(* Timers fire, promises of the driver settle and their continuations run; *)
(* nobody has to start, to call, to fail or to close.                      *)
Fairness ==
    /\ \A l \in Loops : WF_vars(LoopStep(l))
    /\ \A c \in Callers : WF_vars(CallStep(c)) /\ WF_vars(WaitTimeout(c))
    /\ \A p \in Pools : WF_vars(HealthPasses(p))
    /\ WF_vars(CloseDriver) /\ WF_vars(CloseDone)

Spec == Init /\ [][Next]_vars
FairSpec == Spec /\ Fairness

----------------------------------------------------------------------------
(* Properties.                                                             *)

TypeOK ==
    /\ connectionState \in {"connecting", "ready", "reconnecting", "closing"}
    /\ connectionTask \in Loops \cup {None} /\ retryTimer \in Loops \cup {None}
    /\ flags \subseteq {"connectedBefore", "disconnectAnnounced"}
    /\ healthTimer \in {"armed", "cleared"} /\ readiness \in {"ready", "unready"}
    /\ event \in {"none", "ready", "disconnected", "reconnected"}
    /\ pool \in Pools \cup {None} /\ closeVictim \in Pools \cup {None}
    /\ open \subseteq Pools /\ checks \subseteq Pools
    /\ pc \in [Loops -> Active \cup {"idle"}]
    /\ victim \in [Loops -> Pools \cup {None}]
    /\ stage \in [Callers -> {"idle", "waiting", "granted", "holding", "querying", "failing"}]
    /\ conn \in [Callers -> Pools \cup {None}] /\ query \in [Callers -> Pools \cup {None}]
    /\ closer \in {"none", "awaitingTask", "awaitingDriver", "closed"}
    /\ closeTask \in Loops \cup {None}
    /\ faults \in 0..MaxFaults

(* There is never a second connectionLoop(): two of them would each create *)
(* a pool and close the other's.  ensureConnectionLoop() is reached from   *)
(* calls, from fatal errors, from start() and from task.finally().         *)
SingleCoordinator == \A l \in Loops : pc[l] # "idle" => connectionTask = l

(* A queued call always has somebody who will serve it: a loop is running, *)
(* and one that already resolved the waiters will look again when its      *)
(* promise settles.                                                        *)
NoStrandedWaiter ==
    waiters # {} =>
        /\ connectionState # "closing" /\ connectionTask # None
        /\ pc[connectionTask] = "returned" => ~Repaired

(* With no loop running, a lane that has been connected once is connected: *)
(* an outage reported at any moment, also between connect() and the end of *)
(* the loop, has been repaired, and the health check watches the pool.     *)
RestsConnected ==
    connectedBefore /\ connectionTask = None /\ connectionState # "closing" =>
        Repaired /\ pool \in open /\ healthTimer = "armed"

(* No pool leaks: every pool that is not ended is the driver's, or some    *)
(* suspended close() or connect() is about to end or publish it; after     *)
(* close() nothing is left, whatever connect() was doing when it came.     *)
PoolsAccountedFor ==
    /\ open \subseteq {pool, closeVictim} \cup {victim[l] : l \in Loops}
    /\ closer = "closed" => open = {} /\ pool = None

(* What consumers were told last agrees with the state they would read.    *)
AnnouncementsAgree ==
    /\ disconnectAnnounced <=> event = "disconnected"
    /\ connectedBefore <=> event # "none"
    /\ connectionState = "ready" => event \in {"ready", "reconnected"}
    /\ connectionState = "connecting" => event = "none"

(* Consumers see ready, then disconnected and reconnected in turn, and     *)
(* each in the step that made it so: no outage goes unannounced, whoever   *)
(* noticed it, and none is announced twice.                                *)
EventsAlternate ==
    [][/\ event' # event =>
            <<event, event'>> \in {<<"none", "ready">>, <<"ready", "disconnected">>,
                                   <<"disconnected", "reconnected">>,
                                   <<"reconnected", "disconnected">>}
       /\ connectionState' # "closing"
          /\ (connectionState = "ready") # (connectionState' = "ready") => event' # event]_vars

(* A call is let through only to a published pool, never to one connect()  *)
(* is still preparing (PostgresDriver is ready before it has read the      *)
(* extension types) or one being closed.                                   *)
AdmittedToPublishedPool ==
    [][\A c \in Callers :
         stage[c] # "granted" /\ stage'[c] = "granted" =>
            connectionState' = "ready" /\ pool' \in open']_vars

(* Nothing a loop, a late error or a timer does after close() reopens the  *)
(* lane, announces anything or lets a call through.                        *)
ClosingIsFinal ==
    [][connectionState = "closing" =>
         /\ connectionState' = "closing" /\ event' = event /\ healthTimer' = "cleared"
         /\ \A c \in Callers : stage'[c] \in {"granted", "waiting"} => stage'[c] = stage[c]]_vars

(* A healthy pool is torn down only for an error of its own: an error of a *)
(* connection of an earlier pool, arriving after the rebuild, is not an    *)
(* outage.  (One rebuild per outage.)                                      *)
ErrorOfCurrentPool ==
    \/ IdleClientFails
    \/ pool \in checks /\ HealthFails(pool)
    \/ \E c \in Callers : PoolOf(c) = pool /\ CallLosesConnection(c)

StaleErrorNeverRebuilds ==
    [][Repaired /\ connectionState' = "reconnecting" => ErrorOfCurrentPool]_vars

(* An outage ends: the loop gets through, although pool.end() may have to  *)
(* wait for calls that hold a connection and themselves wait for the loop. *)
OutageEnds == connectionState = "reconnecting" ~> connectionState \in {"ready", "closing"}

(* close() terminates from every point of the loop.                        *)
CloseCompletes == connectionState = "closing" ~> closer = "closed"

(* Finitely many failures of the environment cause finitely many rebuilds. *)
RebuildsStop ==
    <>[](connectedBefore => Repaired \/ connectionState = "closing")

----------------------------------------------------------------------------
(* The inductive invariant.                                                *)

(* What the pool, the driver and the loop's own pool are while the loop is *)
(* suspended at each point.                                                *)
LoopHolds(l) ==
    /\ pc[l] \notin {"closing", "connecting", "refreshing", "ending", "failed", "aborting"}
          => victim[l] = None
    /\ pc[l] \in {"connecting", "refreshing", "ending"} => victim[l] \in Pools
    /\ pc[l] \in Active \ {"refreshing", "connected", "returned"} => pool = None /\ ~ready
    /\ pc[l] = "connecting" => victim[l] \in open
    /\ pc[l] = "refreshing" => pool = victim[l] /\ pool \in open /\ Dialect = "postgresql"
    /\ pc[l] = "connected" => pool \in open
    /\ pc[l] = "aborting" => connectionState = "closing"

(* Where close() is decides what may still be there.                       *)
CloserAgrees ==
    /\ closer = "none" <=> connectionState # "closing"
    /\ closer = "awaitingTask" => connectionTask \in {closeTask, None}
    /\ closer \in {"awaitingDriver", "closed"} =>
          pool = None /\ ~ready /\ \A l \in Loops : pc[l] \in {"idle", "returned"}
    /\ closer # "awaitingDriver" => closeVictim = None

RetryIsArmed == \A l \in Loops : retryTimer = l <=> pc[l] = "retrying"

TaskIsRunning == connectionTask # None => pc[connectionTask] # "idle"

PublishedIsWatched ==
    /\ ready => pool \in open
    /\ connectionState = "ready" => healthTimer = "armed"

IInv ==
    /\ TypeOK
    /\ SingleCoordinator /\ TaskIsRunning /\ RetryIsArmed
    /\ \A l \in Loops : LoopHolds(l)
    /\ CloserAgrees /\ PoolsAccountedFor
    /\ PublishedIsWatched /\ AnnouncementsAgree
    /\ NoStrandedWaiter /\ RestsConnected

(* The state and the last event between the steps that announce: while a   *)
(* loop repairs the lane, the last thing consumers heard was not that it   *)
(* is connected.                                                           *)
OutageIsAnnounced ==
    /\ connectionState = "reconnecting" => event = "disconnected"
    /\ connectionState = "closing" => healthTimer = "cleared"
    /\ \A l \in Loops : pc[l] \notin {"idle", "returned"} => connectionState # "ready"

(* pg ends a pool only when nobody has anything left in it.                *)
PostgresPoolsOutliveTheirUse ==
    Dialect = "postgresql" =>
        /\ checks \subseteq open
        /\ \A c \in Callers :
              /\ {query[c], conn[c]} \subseteq open \cup {None}
              /\ stage[c] \in {"holding", "querying"} => PoolOf(c) # None

(* What the promises about steps need beyond IInv.                         *)
StepInv == IInv /\ OutageIsAnnounced /\ PostgresPoolsOutliveTheirUse

----------------------------------------------------------------------------
(* The coordinator implements what consumers are promised.                 *)

phase ==
    CASE connectionState = "closing" -> "closed"
      [] connectionState # "closing" /\ event = "none" -> "starting"
      [] connectionState # "closing" /\ event = "disconnected" -> "down"
      [] OTHER -> "up"

request == [c \in Callers |->
    CASE stage[c] = "idle" -> "out"
      [] stage[c] = "waiting" -> "queued"
      [] OTHER -> "in"]

Contract ==
    INSTANCE LifecycleContract
    WITH Callers <- Callers, QueueLimit <- QueueLimit, phase <- phase, request <- request
ImplementsContract == Contract!FairSpec

=============================================================================
