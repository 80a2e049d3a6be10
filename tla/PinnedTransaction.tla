------------------------- MODULE PinnedTransaction -------------------------
(***************************************************************************)
(* Calls that pin one pooled connection: the callback transaction          *)
(* (withTransaction), the statement list (transactionResults) and the      *)
(* prepared batch (executePreparedBatch) of DatabaseService.               *)
(*                                                                         *)
(* A connection carries out its commands in the order they were issued.    *)
(* `waiting` counts the statements of a call that come before its BEGIN /  *)
(* COMMIT / ROLLBACK reply, `late` those issued behind one of these, which *)
(* is all the order the protocol can tell apart.  What a statement writes  *)
(* is a unit of effect: pending in the server's transaction, or durable.   *)
(* The pool is that of a lane that stays up; a lost connection is an event *)
(* of the environment, at most MaxFaults of which happen, as are the       *)
(* statements the server refuses.                                          *)
(***************************************************************************)
EXTENDS Naturals, FiniteSets

CONSTANTS Txns,       \* the calls
          Sessions,   \* connections of the pool (connectionLimit of them)
          None,
          Kind,       \* of each call: "callback", "list" or "batch"
          Size,       \* statements a list or batch has, a callback issues at most
          Habits,     \* what the callback of each call does: some of "parallel"
                      \* (issue a statement before the last one answered),
                      \* "detached" (a branch outlives the callback's promise),
                      \* "swallows" (carry on after a failed statement)
          Dialect,    \* "mysql" or "postgresql"
          MaxFaults   \* bound on failures of the environment

ASSUME PinnedAssumption ==
    /\ Kind \in [Txns -> {"callback", "list", "batch"}]
    /\ Size \in Nat \ {0}
    /\ None \notin Txns \cup Sessions
    /\ Habits \in [Txns -> SUBSET {"parallel", "detached", "swallows"}]
    /\ MaxFaults \in Nat
    /\ Dialect \in {"mysql", "postgresql"}

VARIABLES
    stage,       \* where each call is suspended
    verdict,     \* what the call resolves to: "none", "true", "false", "error"
    connection,  \* the session a call's connection object stands for, or None
    sent,        \* statements the call has issued
    waiting,     \* ... of which are ahead of its pending control command
    late,        \* ... of which are behind it
    failed,      \* calls one of whose statements has failed
    holder,      \* the call a session is checked out to, or None
    lost,        \* sessions whose connection has broken
    tx,          \* the call whose transaction is open on the server, or None
    aborted,     \* PostgreSQL: sessions whose transaction refuses statements
    pending,     \* effects of a call inside its open transaction
    durable,     \* effects of a call that will stay
    confirmed,   \* statements whose success was reported to the call
    unknown,     \* calls whose connection broke while COMMIT was running
    faults

call    == <<stage, verdict, connection>>
program == <<sent, waiting, late, failed>>
pool    == <<holder, lost>>
server  == <<tx, aborted, pending, durable>>
vars == <<call, program, pool, server, confirmed, unknown, faults>>

Control == {"beginning", "committing", "rollingBack"}
Pinned(t) == stage[t] \in Control \cup {"working"}
Transactional(t) == Kind[t] # "batch"

Init ==
    /\ stage = [t \in Txns |-> "acquiring"] /\ verdict = [t \in Txns |-> "none"]
    /\ connection = [t \in Txns |-> None]
    /\ sent = [t \in Txns |-> 0] /\ waiting = [t \in Txns |-> 0]
    /\ late = [t \in Txns |-> 0] /\ failed = {}
    /\ holder = [s \in Sessions |-> None] /\ lost = {}
    /\ tx = [s \in Sessions |-> None] /\ aborted = {}
    /\ pending = [t \in Txns |-> 0] /\ durable = [t \in Txns |-> 0]
    /\ confirmed = [t \in Txns |-> 0] /\ unknown = {}
    /\ faults = 0

Fault == faults < MaxFaults /\ faults' = faults + 1

Goto(t, where) == stage' = [stage EXCEPT ![t] = where]

----------------------------------------------------------------------------
(* Leaving a connection.                                                   *)

Resolve(t, with) ==
    /\ Goto(t, "settled")
    /\ verdict' = [verdict EXCEPT ![t] = with]
    /\ UNCHANGED connection

(* release(): a broken connection is dropped by the pool.                  *)
Release(t) ==
    /\ holder' = [holder EXCEPT ![connection[t]] = None]
    /\ lost' = lost \ {connection[t]}

(* destroy(): the connection is closed, what it still had queued with it;  *)
(* the release() in the finally block then does nothing.                   *)
Destroy(t) ==
    /\ Release(t)
    /\ waiting' = [waiting EXCEPT ![t] = 0] /\ late' = [late EXCEPT ![t] = 0]

(* The server's side of a connection that breaks or is closed: the open    *)
(* transaction is rolled back, unless its COMMIT was under way and got     *)
(* through.                                                                *)
Committing(t) == stage[t] = "committing" /\ waiting[t] = 0

ServerEnds(t) ==
    LET s == connection[t] IN
    /\ tx' = [tx EXCEPT ![s] = None] /\ aborted' = aborted \ {s}
    /\ pending' = [pending EXCEPT ![t] = 0]
    /\ \/ durable' = durable
       \/ Committing(t) /\ tx[s] = t /\ s \notin aborted
          /\ durable' = [durable EXCEPT ![t] = @ + pending[t]]
    /\ unknown' = IF Committing(t) THEN unknown \cup {t} ELSE unknown

(* The next control command goes behind everything issued so far.          *)
Queue(t, where, with) ==
    /\ Goto(t, where)
    /\ verdict' = [verdict EXCEPT ![t] = with]
    /\ waiting' = [waiting EXCEPT ![t] = @ + late[t]] /\ late' = [late EXCEPT ![t] = 0]
    /\ UNCHANGED connection

(* Faulty: the connection goes back to the pool without ROLLBACK.          *)
ThrowReleases(t) ==
    Resolve(t, "error") /\ Release(t) /\ UNCHANGED <<waiting, late>>

(* The catch block: ROLLBACK; a batch has nothing to roll back.            *)
Throw(t) ==
    IF Transactional(t)
    THEN Queue(t, "rollingBack", "error") /\ UNCHANGED pool
    ELSE Resolve(t, "error") /\ Release(t) /\ UNCHANGED <<waiting, late>>

----------------------------------------------------------------------------
(* Acquiring a connection; a call enters the pool's queue when             *)
(* awaitConnection() has let it through.                                   *)

(* driver.acquire() resolves: BEGIN, or the first statement of a batch.    *)
Acquire(t) ==
    /\ stage[t] = "acquiring"
    /\ \E s \in Sessions :
        /\ holder[s] = None
        /\ holder' = [holder EXCEPT ![s] = t]
        /\ connection' = [connection EXCEPT ![t] = s]
    /\ Goto(t, IF Transactional(t) THEN "beginning" ELSE "working")
    /\ UNCHANGED <<verdict, program, lost, server, confirmed, unknown, faults>>

(* The pool's own queue limit or acquisition timeout.                      *)
AcquireFails(t) ==
    /\ stage[t] = "acquiring"
    /\ Resolve(t, "error")
    /\ UNCHANGED <<program, pool, server, confirmed, unknown, faults>>

----------------------------------------------------------------------------
(* The connection carries out commands, in order.                          *)

Up(t) == connection[t] \notin lost

(* Statements a former holder left on the session come first.              *)
Turn(t) == \A u \in Txns \ {t} : connection[u] = connection[t] => late[u] = 0

(* BEGIN makes what an earlier transaction left open durable (MySQL at     *)
(* once, PostgreSQL with the COMMIT to come).                              *)
Begun(t) ==
    LET s == connection[t] IN
    /\ stage[t] = "beginning" /\ Up(t) /\ Turn(t)
    /\ Goto(t, "working")
    /\ tx' = [tx EXCEPT ![s] = t]
    /\ durable' = [u \in Txns |-> IF tx[s] = u THEN durable[u] + pending[u] ELSE durable[u]]
    /\ pending' = [u \in Txns |-> IF tx[s] = u THEN 0 ELSE pending[u]]
    /\ UNCHANGED <<verdict, connection, program, pool, aborted, confirmed, unknown, faults>>

BeginFails(t) ==
    /\ stage[t] = "beginning"
    /\ IF Up(t) THEN Turn(t) /\ Fault ELSE UNCHANGED faults
    /\ Throw(t)
    /\ UNCHANGED <<sent, failed, server, confirmed, unknown>>

(* What a statement does on the server.                                    *)
Effect(t) ==
    LET s == connection[t] IN
    IF tx[s] = t
    THEN pending' = [pending EXCEPT ![t] = @ + 1] /\ UNCHANGED durable
    ELSE durable' = [durable EXCEPT ![t] = @ + 1] /\ UNCHANGED pending

StatementSucceeds(t) ==
    /\ Pinned(t) /\ waiting[t] > 0 /\ Up(t) /\ Turn(t)
    /\ connection[t] \notin aborted
    /\ waiting' = [waiting EXCEPT ![t] = @ - 1]
    /\ confirmed' = [confirmed EXCEPT ![t] = @ + 1]
    /\ Effect(t)
    /\ UNCHANGED <<call, sent, late, failed, pool, tx, aborted, unknown, faults>>

(* A refused statement leaves a PostgreSQL transaction aborted; MySQL goes *)
(* on without it, or has rolled the whole transaction back (a deadlock).   *)
Refusals == IF Dialect = "postgresql" THEN {"aborts"} ELSE {"skips", "deadlock"}

StatementFails(t) ==
    LET s == connection[t] IN
    /\ Pinned(t) /\ waiting[t] > 0
    /\ IF Up(t) /\ s \notin aborted THEN Turn(t) /\ Fault ELSE UNCHANGED faults
    /\ waiting' = [waiting EXCEPT ![t] = @ - 1]
    /\ failed' = failed \cup {t}
    /\ \E refusal \in Refusals :
        /\ aborted' = aborted \cup {x \in {s} : refusal = "aborts" /\ tx[x] = t}
        /\ tx' = [x \in Sessions |->
                    IF x = s /\ refusal = "deadlock" THEN None ELSE tx[x]]
        /\ pending' = [pending EXCEPT ![t] = IF refusal = "deadlock" THEN 0 ELSE @]
    /\ UNCHANGED <<call, sent, late, pool, durable, confirmed, unknown>>

(* A statement behind the COMMIT or ROLLBACK of a call that has settled.   *)
LateStatement(t) ==
    /\ stage[t] = "settled" /\ late[t] > 0
    /\ late' = [late EXCEPT ![t] = @ - 1]
    /\ Effect(t)
    /\ UNCHANGED <<call, sent, waiting, failed, pool, tx, aborted, confirmed, unknown, faults>>

----------------------------------------------------------------------------
(* What the call itself does between replies.                              *)

(* Faulty: one statement too many.                                         *)
NextStatementOverruns(t) ==
    /\ Kind[t] # "callback" /\ stage[t] = "working"
    /\ waiting[t] = 0 /\ t \notin failed /\ sent[t] <= Size
    /\ sent' = [sent EXCEPT ![t] = @ + 1] /\ waiting' = [waiting EXCEPT ![t] = 1]
    /\ UNCHANGED <<call, late, failed, pool, server, confirmed, unknown, faults>>

(* The loop over the statements of a list or batch.                        *)
NextStatement(t) ==
    /\ Kind[t] # "callback" /\ stage[t] = "working"
    /\ waiting[t] = 0 /\ t \notin failed /\ sent[t] < Size
    /\ sent' = [sent EXCEPT ![t] = @ + 1] /\ waiting' = [waiting EXCEPT ![t] = 1]
    /\ UNCHANGED <<call, late, failed, pool, server, confirmed, unknown, faults>>

(* The callback calls query(), which refuses only once `closed` is set;    *)
(* after a failed statement it is another branch that does, or one that    *)
(* ignores the failure.                                                    *)
Query(t) ==
    /\ Kind[t] = "callback" /\ sent[t] < Size
    /\ t \in failed => Habits[t] # {}
    /\ \/ /\ stage[t] = "working"
          /\ waiting[t] > 0 => "parallel" \in Habits[t]
          /\ waiting' = [waiting EXCEPT ![t] = @ + 1] /\ UNCHANGED late
       \/ /\ "detached" \in Habits[t] /\ sent[t] > 0 /\ stage[t] \in {"committing", "rollingBack"}
          /\ late' = [late EXCEPT ![t] = @ + 1] /\ UNCHANGED waiting
    /\ sent' = [sent EXCEPT ![t] = @ + 1]
    /\ UNCHANGED <<call, failed, pool, server, confirmed, unknown, faults>>

(* The callback's promise resolves (a careful callback has awaited every   *)
(* statement, and throws when one failed), or the list is through.         *)
Through(t) ==
    /\ stage[t] = "working"
    /\ t \in failed => Kind[t] = "callback" /\ "swallows" \in Habits[t]
    /\ waiting[t] > 0 => Kind[t] = "callback" /\ "detached" \in Habits[t]
    /\ Kind[t] # "callback" => sent[t] = Size

(* Faulty: the call resolves without waiting for the reply.                *)
FinishUnawaited(t) ==
    /\ Through(t)
    /\ Resolve(t, "true") /\ Release(t)
    /\ UNCHANGED <<program, server, confirmed, unknown, faults>>

Finish(t) ==
    /\ Through(t)
    /\ IF Transactional(t)
       THEN Queue(t, "committing", "true") /\ UNCHANGED pool
       ELSE Resolve(t, "true") /\ Release(t) /\ UNCHANGED <<waiting, late>>
    /\ UNCHANGED <<sent, failed, server, confirmed, unknown, faults>>

(* The callback resolves to false.                                         *)
Decline(t) ==
    /\ Kind[t] = "callback" /\ Through(t)
    /\ Queue(t, "rollingBack", "false")
    /\ UNCHANGED <<sent, failed, pool, server, confirmed, unknown, faults>>

(* The callback throws, whenever it likes; a list or batch does when a     *)
(* statement failed or normalize() refuses the next one.                   *)
Fails(t) ==
    /\ stage[t] = "working"
    /\ Kind[t] = "callback" \/ t \in failed \/ (waiting[t] = 0 /\ sent[t] < Size)
    /\ Throw(t)
    /\ UNCHANGED <<sent, failed, server, confirmed, unknown, faults>>

----------------------------------------------------------------------------
(* COMMIT and ROLLBACK.                                                    *)

(* COMMIT of an aborted PostgreSQL transaction rolls back and reports no   *)
(* error.                                                                  *)
Committed(t) ==
    LET s == connection[t] IN
    /\ Committing(t) /\ Up(t)
    /\ durable' = IF tx[s] = t /\ s \notin aborted
                  THEN [durable EXCEPT ![t] = @ + pending[t]] ELSE durable
    /\ pending' = [pending EXCEPT ![t] = 0]
    /\ tx' = [tx EXCEPT ![s] = None] /\ aborted' = aborted \ {s}
    /\ Resolve(t, "true") /\ Release(t)
    /\ UNCHANGED <<program, confirmed, unknown, faults>>

(* The server refuses the COMMIT (a deferred constraint, a serialisation   *)
(* failure), which rolls back; or the connection has broken.               *)
CommitFails(t) ==
    LET s == connection[t] IN
    /\ Committing(t)
    /\ IF Up(t) THEN Fault ELSE UNCHANGED faults
    /\ tx' = [tx EXCEPT ![s] = None] /\ aborted' = aborted \ {s}
    /\ pending' = [pending EXCEPT ![t] = 0]
    /\ Throw(t)
    /\ UNCHANGED <<sent, failed, durable, confirmed, unknown>>

RolledBack(t) ==
    LET s == connection[t] IN
    /\ stage[t] = "rollingBack" /\ waiting[t] = 0 /\ Up(t) /\ Turn(t)
    /\ tx' = [tx EXCEPT ![s] = None] /\ aborted' = aborted \ {s}
    /\ pending' = [pending EXCEPT ![t] = 0]
    /\ Resolve(t, verdict[t]) /\ Release(t)
    /\ UNCHANGED <<program, durable, confirmed, unknown, faults>>

(* ROLLBACK fails: the connection has broken, or the server reports an     *)
(* error and leaves the transaction open.                                  *)
Unanswered(t) ==
    /\ stage[t] = "rollingBack" /\ waiting[t] = 0
    /\ IF Up(t) THEN Turn(t) /\ Fault ELSE UNCHANGED faults
    /\ UNCHANGED <<sent, failed, confirmed>>

(* After "false" the catch block tries once more.                          *)
TriesAgain(t) ==
    /\ verdict[t] = "false"
    /\ Queue(t, "rollingBack", "error")
    /\ UNCHANGED <<pool, server, unknown>>

(* Faulty: the connection goes back to the pool as it is.                  *)
RollbackReleases(t) ==
    /\ Unanswered(t)
    /\ TriesAgain(t) \/ ( /\ verdict[t] = "error"
                         /\ Resolve(t, "error") /\ Release(t)
                         /\ UNCHANGED <<waiting, late, server, unknown>> )

(* In the catch block the connection is destroyed, and the transaction     *)
(* with it.                                                                *)
RollbackFails(t) ==
    /\ Unanswered(t)
    /\ TriesAgain(t) \/ ( /\ verdict[t] = "error"
                         /\ Resolve(t, "error") /\ Destroy(t) /\ ServerEnds(t) )

----------------------------------------------------------------------------
(* The transaction timer, armed from acquire() to the finally block.       *)

(* Faulty: the session goes back to the pool as it is.                     *)
TimeoutReleases(t) ==
    /\ Kind[t] = "callback" /\ Pinned(t)
    /\ Resolve(t, "error") /\ Release(t)
    /\ UNCHANGED <<program, server, confirmed, unknown, faults>>

(* Faulty: the connection is destroyed, but nobody rejects the race.       *)
TimeoutDestroysOnly(t) ==
    /\ Kind[t] = "callback" /\ Pinned(t)
    /\ Destroy(t) /\ ServerEnds(t)
    /\ UNCHANGED <<call, sent, failed, confirmed, faults>>

(* The connection is destroyed and every race loses at once.               *)
Timeout(t) ==
    /\ Kind[t] = "callback" /\ Pinned(t)
    /\ Resolve(t, "error") /\ Destroy(t) /\ ServerEnds(t)
    /\ UNCHANGED <<sent, failed, confirmed, faults>>

(* The connection of a call breaks.                                        *)
Lose(t) ==
    /\ Pinned(t) /\ Up(t)
    /\ Fault
    /\ lost' = lost \cup {connection[t]}
    /\ ServerEnds(t)
    /\ UNCHANGED <<call, program, holder, confirmed>>

----------------------------------------------------------------------------
Reply(t) ==
    \/ Begun(t) \/ BeginFails(t) \/ StatementSucceeds(t) \/ StatementFails(t)
    \/ Committed(t) \/ CommitFails(t) \/ RolledBack(t) \/ RollbackFails(t)
    \/ LateStatement(t)

Next ==
    \E t \in Txns :
        \/ Acquire(t) \/ AcquireFails(t)
        \/ Reply(t)
        \/ NextStatement(t) \/ Query(t) \/ Finish(t) \/ Decline(t) \/ Fails(t)
        \/ Timeout(t) \/ Lose(t)

(* The server answers, the timer fires, and the loop over a list goes on;  *)
(* a callback need not ever return.                                        *)
Fairness ==
    \A t \in Txns :
        /\ WF_vars(Acquire(t)) /\ WF_vars(Reply(t)) /\ WF_vars(Timeout(t))
        /\ WF_vars(Kind[t] # "callback" /\ (NextStatement(t) \/ Finish(t) \/ Fails(t)))

Spec == Init /\ [][Next]_vars
FairSpec == Spec /\ Fairness

----------------------------------------------------------------------------
(* Properties.                                                             *)

TypeOK ==
    /\ stage \in [Txns -> {"acquiring", "working", "settled"} \cup Control]
    /\ verdict \in [Txns -> {"none", "true", "false", "error"}]
    /\ connection \in [Txns -> Sessions \cup {None}]
    /\ sent \in [Txns -> 0..Size] /\ waiting \in [Txns -> 0..Size] /\ late \in [Txns -> 0..Size]
    /\ failed \subseteq Txns /\ unknown \subseteq Txns
    /\ holder \in [Sessions -> Txns \cup {None}]
    /\ lost \subseteq Sessions /\ aborted \subseteq Sessions
    /\ tx \in [Sessions -> Txns \cup {None}]
    /\ pending \in [Txns -> Nat] /\ durable \in [Txns -> Nat] /\ confirmed \in [Txns -> Nat]
    /\ faults \in 0..MaxFaults

(* A session is checked out to the one call that is using it: no timeout,  *)
(* failed rollback or lost connection gives it to somebody else as well.   *)
NoSharedSession ==
    \A t \in Txns : Pinned(t) => holder[connection[t]] = t

(* A callback that awaits its statements and throws when one fails; on     *)
(* MySQL, where a deadlock ends the transaction for the statements queued  *)
(* behind it too, one that issues them one at a time.                      *)
Careful(t) == Habits[t] \subseteq IF Dialect = "postgresql" THEN {"parallel"} ELSE {}

(* A session goes back to the pool without an open transaction, without a  *)
(* broken connection and without commands of a careful user.               *)
CleanHandover ==
    \A s \in Sessions : holder[s] = None =>
        /\ tx[s] = None /\ s \notin aborted \cup lost
        /\ \A t \in Txns : connection[t] = s /\ Careful(t) => waiting[t] + late[t] = 0

(* The call has left nothing behind if it resolved to false or an error,   *)
(* unless its connection broke during COMMIT.                              *)
FailureLeavesNothing(t) ==
    stage[t] = "settled" /\ verdict[t] # "true" /\ Transactional(t) /\ t \notin unknown =>
        durable[t] = 0

(* The call has made durable what it was told had succeeded, if it         *)
(* resolved to true.                                                       *)
SuccessIsDurable(t) ==
    stage[t] = "settled" /\ verdict[t] = "true" => durable[t] = confirmed[t]

(* A careful transaction is all or nothing and says which, whatever the    *)
(* careless ones do on the connection before it or at the same time.       *)
CarefulFailureLeavesNothing == \A t \in Txns : Careful(t) => FailureLeavesNothing(t)
CarefulSuccessIsDurable == \A t \in Txns : Careful(t) => SuccessIsDurable(t)

(* "pins one connection and commits only when the callback succeeds"       *)
(* (docs/postgresql.md): a failed transaction, of any callback, has        *)
(* committed nothing.                                                      *)
CommitsOnlyOnSuccess == \A t \in Txns : FailureLeavesNothing(t)

(* A transaction that resolves to true has committed what its callback was *)
(* told had succeeded; only a disconnect or timeout during commit leaves   *)
(* the outcome open (docs/operations.md).                                  *)
TrueMeansCommitted == \A t \in Txns : SuccessIsDurable(t)

(* Every call ends, also one whose callback never returns and so keeps its *)
(* connection from the others.                                             *)
CallsSettle == \A t \in Txns : <>(stage[t] = "settled")

----------------------------------------------------------------------------
(* The inductive invariant.                                                *)

(* Checked out and pinned are the same thing.                              *)
PinsAgree ==
    /\ \A t \in Txns : Pinned(t) => connection[t] \in Sessions /\ holder[connection[t]] = t
    /\ \A s \in Sessions : holder[s] # None => Pinned(holder[s]) /\ connection[holder[s]] = s

(* What the server still has of a session belongs to its present user.     *)
ServerAgrees ==
    \A s \in Sessions :
        /\ tx[s] # None => /\ tx[s] = holder[s] /\ s \notin lost
                           /\ stage[tx[s]] # "beginning" /\ Transactional(tx[s])
        /\ s \in aborted => tx[s] # None /\ Dialect = "postgresql"
        /\ s \in lost => holder[s] # None

(* Where a call is decides what it may have issued.                        *)
StageAgrees(t) ==
    /\ stage[t] = "acquiring" => connection[t] = None
    /\ stage[t] \in {"acquiring", "beginning"} =>
          sent[t] = 0 /\ waiting[t] = 0 /\ t \notin failed
          /\ confirmed[t] = 0 /\ pending[t] = 0
    /\ stage[t] = "settled" => waiting[t] = 0
    /\ stage[t] \in {"acquiring", "beginning", "working"} => verdict[t] = "none"
    /\ stage[t] = "committing" => verdict[t] = "true"
    /\ stage[t] = "rollingBack" => verdict[t] \in {"false", "error"}
    /\ Kind[t] = "batch" => stage[t] \notin Control
    /\ Kind[t] # "callback" => waiting[t] <= 1 /\ late[t] = 0 /\ (t \in failed => waiting[t] = 0)
    /\ waiting[t] + late[t] <= sent[t]
    /\ t \in unknown => stage[t] = "settled" \/ connection[t] \in lost

(* A careful transaction writes inside its own transaction only.           *)
CarefulAgrees(t) ==
    /\ late[t] = 0
    /\ stage[t] = "committing" => waiting[t] = 0 /\ t \notin failed
    /\ waiting[t] > 1 => Dialect = "postgresql"
    /\ stage[t] = "working" /\ waiting[t] > 0 /\ t \in failed => Dialect = "postgresql"
    /\ Transactional(t) /\ Pinned(t) /\ Up(t) =>
          /\ waiting[t] > 0 => tx[connection[t]] = t
          /\ stage[t] \in {"working", "committing"} /\ (t \in failed => Dialect = "postgresql")
                => tx[connection[t]] = t
          /\ t \notin failed => connection[t] \notin aborted
    /\ Transactional(t) /\ t \notin unknown /\ verdict[t] # "true" => durable[t] = 0
    /\ Transactional(t) /\ Pinned(t) /\ t \notin unknown => durable[t] = 0
    /\ Transactional(t) /\ Pinned(t) /\ tx[connection[t]] = t => pending[t] = confirmed[t]
    /\ Kind[t] = "batch" => durable[t] = confirmed[t]

IInv ==
    /\ TypeOK /\ PinsAgree /\ ServerAgrees
    /\ \A t \in Txns : StageAgrees(t)
    /\ \A t \in Txns : Careful(t) => CarefulAgrees(t) /\ SuccessIsDurable(t)
=============================================================================
