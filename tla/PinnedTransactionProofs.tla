---------------------- MODULE PinnedTransactionProofs ----------------------
(***************************************************************************)
(* Theorems about pinned calls, for every number of calls and sessions,    *)
(* both dialects and any number of failures.                               *)
(***************************************************************************)
EXTENDS PinnedTransaction, TLAPS

USE PinnedAssumption

(* Two pinned calls are on two sessions.                                   *)
LEMMA Apart ==
    ASSUME IInv, NEW t \in Txns, NEW u \in Txns \ {t}, Pinned(t), Pinned(u)
    PROVE  connection[u] # connection[t]
  BY DEF IInv, PinsAgree

(* A step of another call leaves u and its session alone.                  *)
Same(u) ==
    /\ stage'[u] = stage[u] /\ verdict'[u] = verdict[u] /\ connection'[u] = connection[u]
    /\ sent'[u] = sent[u] /\ waiting'[u] = waiting[u] /\ late'[u] = late[u]
    /\ pending'[u] = pending[u] /\ durable'[u] = durable[u] /\ confirmed'[u] = confirmed[u]
    /\ u \in failed' <=> u \in failed
    /\ u \in unknown' <=> u \in unknown
    /\ Pinned(u) => LET s == connection[u] IN
          tx'[s] = tx[s] /\ (s \in aborted' <=> s \in aborted) /\ (s \in lost' <=> s \in lost)

LEMMA SameKeeps ==
    ASSUME IInv, NEW u \in Txns, Same(u)
    PROVE  StageAgrees(u)' /\ (Careful(u) => CarefulAgrees(u)' /\ SuccessIsDurable(u)')
  <1>1. StageAgrees(u) /\ (Careful(u) => CarefulAgrees(u) /\ SuccessIsDurable(u))
    BY DEF IInv
  <1>2. Pinned(u)' <=> Pinned(u)
    BY DEF Same, Pinned
  <1>3. u \in unknown /\ stage[u] # "settled" => Pinned(u)
    <2>1. stage[u] = "acquiring" => connection[u] \notin lost
      BY <1>1 DEF IInv, TypeOK, StageAgrees
    <2> QED BY <1>1, <2>1 DEF IInv, TypeOK, StageAgrees, Pinned
  <1>4. StageAgrees(u)'
    BY <1>1, <1>3 DEF Same, StageAgrees
  <1>5. ASSUME Careful(u) PROVE CarefulAgrees(u)'
    BY <1>1, <1>2, <1>5 DEF Same, CarefulAgrees, Transactional, Up
  <1>6. ASSUME Careful(u) PROVE SuccessIsDurable(u)'
    BY <1>1, <1>6 DEF Same, SuccessIsDurable
  <1> QED BY <1>4, <1>5, <1>6

(* What is left to show of a step of call t.                               *)
LEMMA Step ==
    ASSUME IInv, TypeOK', NEW t \in Txns, \A u \in Txns \ {t} : Same(u),
           PinsAgree', ServerAgrees', StageAgrees(t)',
           Careful(t) => CarefulAgrees(t)' /\ SuccessIsDurable(t)'
    PROVE  IInv'
  <1>1. ASSUME NEW u \in Txns
        PROVE  StageAgrees(u)' /\ (Careful(u) => CarefulAgrees(u)' /\ SuccessIsDurable(u)')
    BY SameKeeps, u = t \/ u \in Txns \ {t}
  <1>2. \A u \in Txns : Careful(u)' <=> Careful(u)
    BY DEF Careful
  <1> QED BY <1>1, <1>2 DEF IInv

(* A call that stays pinned on its session.                                *)
LEMMA StaysPinned ==
    ASSUME IInv, TypeOK', NEW t \in Txns, Pinned(t), Pinned(t)',
           \A u \in Txns \ {t} : Same(u), UNCHANGED <<holder, connection>>
    PROVE  PinsAgree'
  <1>1. \A u \in Txns : Pinned(u)' <=> Pinned(u)
    BY DEF Same, Pinned
  <1> QED BY <1>1 DEF IInv, TypeOK, PinsAgree

(* A call that lets go of its session.                                     *)
LEMMA LetsGo ==
    ASSUME IInv, TypeOK', NEW t \in Txns, Pinned(t), stage'[t] = "settled",
           \A u \in Txns \ {t} : Same(u), UNCHANGED connection, Release(t)
    PROVE  PinsAgree'
  <1>1. \A u \in Txns \ {t} : Pinned(u)' <=> Pinned(u)
    BY DEF Same, Pinned
  <1>2. ~Pinned(t)'
    BY DEF Pinned, Control
  <1>3. connection[t] \in Sessions /\ holder[connection[t]] = t
    BY DEF IInv, PinsAgree
  <1>4. holder' = [holder EXCEPT ![connection[t]] = None]
    BY DEF Release
  <1> QED BY <1>1, <1>2, <1>3, <1>4, Apart DEF IInv, TypeOK, PinsAgree

----------------------------------------------------------------------------
(* Types.                                                                  *)

LEMMA TypeStep ==
    ASSUME IInv, [Next]_vars
    PROVE  TypeOK'
  <1> USE DEF call, program, pool, server, Fault, Goto, Resolve, Release, Queue, Control
  <1>0. /\ TypeOK /\ \A t \in Txns : StageAgrees(t)
        /\ \A t \in Txns : Pinned(t) => connection[t] \in Sessions
    BY DEF IInv, PinsAgree
  <1>1. CASE UNCHANGED vars
    BY <1>0, <1>1 DEF vars, TypeOK
  <1> SUFFICES ASSUME NEW t \in Txns,
                      \/ Acquire(t) \/ AcquireFails(t) \/ Reply(t)
                      \/ NextStatement(t) \/ Query(t) \/ Finish(t) \/ Decline(t) \/ Fails(t)
                      \/ Timeout(t) \/ Lose(t)
               PROVE  TypeOK'
    BY <1>1 DEF Next
  <1>2. /\ waiting[t] + late[t] \in 0..Size /\ waiting[t] \in Nat /\ late[t] \in Nat
        /\ sent[t] \in Nat /\ sent[t] <= Size
    BY <1>0 DEF TypeOK, StageAgrees
  <1>3. ASSUME Throw(t), UNCHANGED <<sent, failed, confirmed, unknown>>,
               faults' \in 0..MaxFaults, tx' \in [Sessions -> Txns \cup {None}],
               aborted' \subseteq Sessions, pending' \in [Txns -> Nat], UNCHANGED durable
        PROVE  TypeOK'
    <2>1. CASE Transactional(t)
      <3>1. waiting' \in [Txns -> 0..Size] /\ late' \in [Txns -> 0..Size]
        BY <1>0, <1>2, <1>3, <2>1 DEF Throw, TypeOK
      <3> QED BY <1>0, <1>3, <2>1, <3>1 DEF Throw, TypeOK
    <2>2. CASE ~Transactional(t)
      BY <1>0, <1>3, <2>2 DEF Throw, TypeOK
    <2> QED BY <2>1, <2>2
  <1>4. ASSUME ServerEnds(t), Pinned(t)
        PROVE  /\ tx' \in [Sessions -> Txns \cup {None}] /\ aborted' \subseteq Sessions
               /\ pending' \in [Txns -> Nat] /\ durable' \in [Txns -> Nat]
               /\ unknown' \subseteq Txns
    BY <1>0, <1>4 DEF ServerEnds, TypeOK
  <1>5. CASE Acquire(t)
    BY <1>0, <1>5 DEF Acquire, TypeOK
  <1>6. CASE AcquireFails(t)
    BY <1>0, <1>6 DEF AcquireFails, TypeOK
  <1>7. CASE Begun(t)
    <2>1. durable' \in [Txns -> Nat] /\ pending' \in [Txns -> Nat]
      BY <1>0, <1>7 DEF Begun, TypeOK
    <2> QED BY <1>0, <1>7, <2>1 DEF Begun, TypeOK
  <1>8. CASE BeginFails(t)
    BY <1>0, <1>3, <1>8 DEF BeginFails, TypeOK
  <1>9. CASE StatementSucceeds(t)
    BY <1>0, <1>2, <1>9 DEF StatementSucceeds, Effect, TypeOK
  <1>10. CASE StatementFails(t)
    BY <1>0, <1>2, <1>10 DEF StatementFails, TypeOK
  <1>11. CASE LateStatement(t)
    BY <1>0, <1>2, <1>11 DEF LateStatement, Effect, TypeOK
  <1>12. CASE NextStatement(t)
    BY <1>0, <1>2, <1>12 DEF NextStatement, TypeOK
  <1>13. CASE Query(t)
    <2>1. /\ sent[t] < Size /\ sent' = [sent EXCEPT ![t] = @ + 1]
          /\ \/ waiting' = [waiting EXCEPT ![t] = @ + 1] /\ UNCHANGED late
             \/ late' = [late EXCEPT ![t] = @ + 1] /\ UNCHANGED waiting
          /\ UNCHANGED <<call, failed, pool, server, confirmed, unknown, faults>>
      BY <1>13 DEF Query
    <2>2. waiting[t] + 1 \in 0..Size /\ late[t] + 1 \in 0..Size /\ sent[t] + 1 \in 0..Size
      BY <1>0, <1>2, <2>1 DEF StageAgrees, TypeOK
    <2>3. sent' \in [Txns -> 0..Size]
      BY <1>0, <2>1, <2>2 DEF TypeOK
    <2>4. waiting' \in [Txns -> 0..Size] /\ late' \in [Txns -> 0..Size]
      BY <1>0, <2>1, <2>2 DEF TypeOK
    <2> QED BY <1>0, <2>1, <2>3, <2>4 DEF TypeOK
  <1>14. CASE Finish(t)
    <2>1. CASE Transactional(t)
      BY <1>0, <1>2, <1>14, <2>1 DEF Finish, TypeOK
    <2>2. CASE ~Transactional(t)
      BY <1>0, <1>14, <2>2 DEF Finish, TypeOK
    <2> QED BY <2>1, <2>2
  <1>15. CASE Decline(t)
    BY <1>0, <1>2, <1>15 DEF Decline, TypeOK
  <1>16. CASE Fails(t)
    BY <1>0, <1>3, <1>16 DEF Fails, TypeOK
  <1>17. CASE Committed(t)
    <2>1. durable' \in [Txns -> Nat] /\ pending' \in [Txns -> Nat]
      BY <1>0, <1>17 DEF Committed, TypeOK
    <2> QED BY <1>0, <1>17, <2>1 DEF Committed, TypeOK
  <1>18. CASE CommitFails(t)
    <2>1. tx' \in [Sessions -> Txns \cup {None}] /\ aborted' \subseteq Sessions
      BY <1>0, <1>18 DEF CommitFails, TypeOK
    <2>2. pending' \in [Txns -> Nat]
      BY <1>0, <1>18 DEF CommitFails, TypeOK
    <2>3. faults' \in 0..MaxFaults
      BY <1>0, <1>18 DEF CommitFails, TypeOK
    <2> QED BY <1>3, <1>18, <2>1, <2>2, <2>3 DEF CommitFails
  <1>19. CASE RolledBack(t)
    BY <1>0, <1>19 DEF RolledBack, TypeOK
  <1>20. CASE RollbackFails(t)
    <2>1. Unanswered(t) /\ Pinned(t)
      BY <1>20 DEF RollbackFails, Unanswered, Pinned, Control
    <2>2. CASE TriesAgain(t)
      BY <1>0, <1>2, <2>1, <2>2 DEF Unanswered, TriesAgain, TypeOK
    <2>3. CASE Resolve(t, "error") /\ Destroy(t) /\ ServerEnds(t)
      BY <1>0, <1>4, <2>1, <2>3 DEF Unanswered, Destroy, TypeOK
    <2> QED BY <1>20, <2>2, <2>3 DEF RollbackFails
  <1>21. CASE Timeout(t)
    BY <1>0, <1>4, <1>21 DEF Timeout, Destroy, TypeOK
  <1>22. CASE Lose(t)
    BY <1>0, <1>4, <1>22 DEF Lose, TypeOK
  <1> QED BY <1>5, <1>6, <1>7, <1>8, <1>9, <1>10, <1>11, <1>12, <1>13, <1>14, <1>15, <1>16,
             <1>17, <1>18, <1>19, <1>20, <1>21, <1>22 DEF Reply

----------------------------------------------------------------------------
(* What the server keeps of a session.                                     *)

LEMMA ServerKeeps ==
    ASSUME IInv, TypeOK', NEW t \in Txns, \A u \in Txns \ {t} : stage'[u] = stage[u],
           UNCHANGED <<holder, tx, aborted, lost>>, stage'[t] # "beginning"
    PROVE  ServerAgrees'
  BY DEF IInv, TypeOK, ServerAgrees, Transactional

LEMMA ServerLetsGo ==
    ASSUME IInv, TypeOK', NEW t \in Txns, Pinned(t), Release(t),
           \A u \in Txns \ {t} : stage'[u] = stage[u],
           tx'[connection[t]] = None, connection[t] \notin aborted', aborted' \subseteq aborted,
           \A s \in Sessions \ {connection[t]} : tx'[s] = tx[s]
    PROVE  ServerAgrees'
  <1>1. connection[t] \in Sessions /\ holder[connection[t]] = t
    BY DEF IInv, PinsAgree
  <1>2. /\ holder' = [holder EXCEPT ![connection[t]] = None]
        /\ lost' = lost \ {connection[t]}
    BY DEF Release
  <1>3. SUFFICES ASSUME NEW s \in Sessions \ {connection[t]}
                 PROVE  /\ tx'[s] # None => /\ tx'[s] = holder'[s] /\ s \notin lost'
                                            /\ stage'[tx'[s]] # "beginning"
                                            /\ Transactional(tx'[s])
                        /\ s \in aborted' => tx'[s] # None /\ Dialect = "postgresql"
                        /\ s \in lost' => holder'[s] # None
    BY <1>1, <1>2 DEF ServerAgrees, Transactional
  <1>4. holder'[s] = holder[s] /\ tx'[s] = tx[s] /\ (s \in lost' <=> s \in lost)
    BY <1>1, <1>2 DEF IInv, TypeOK
  <1>5. tx[s] # None => tx[s] \in Txns \ {t}
    BY <1>1 DEF IInv, TypeOK, ServerAgrees, PinsAgree
  <1> QED BY <1>4, <1>5 DEF IInv, ServerAgrees

----------------------------------------------------------------------------
(* Acquiring and beginning.                                                *)

LEMMA AcquireInv ==
    ASSUME IInv, TypeOK', NEW t \in Txns, Acquire(t)
    PROVE  IInv'
  <1> USE DEF program, server, Goto
  <1>1. PICK s \in Sessions : /\ holder[s] = None
                             /\ holder' = [holder EXCEPT ![s] = t]
                             /\ connection' = [connection EXCEPT ![t] = s]
    BY DEF Acquire
  <1>2. /\ stage[t] = "acquiring" /\ connection'[t] = s /\ ~Pinned(t)
        /\ stage'[t] = IF Transactional(t) THEN "beginning" ELSE "working"
        /\ UNCHANGED <<verdict, program, lost, server, confirmed, unknown>>
        /\ \A u \in Txns \ {t} : stage'[u] = stage[u] /\ connection'[u] = connection[u]
    BY <1>1 DEF Acquire, IInv, TypeOK, Pinned, Control
  <1>3. tx[s] = None /\ s \notin aborted /\ s \notin lost
    BY <1>1 DEF IInv, TypeOK, ServerAgrees
  <1>4. Pinned(t)' /\ \A u \in Txns \ {t} : Pinned(u)' <=> Pinned(u)
    BY <1>2 DEF Pinned, Control
  <1>5. \A u \in Txns \ {t} : Same(u)
    BY <1>2 DEF Same
  <1>6. PinsAgree'
    BY <1>1, <1>2, <1>4 DEF IInv, TypeOK, PinsAgree
  <1>7. ServerAgrees'
    <2>1. \A x \in Sessions : tx[x] # None => x # s /\ tx[x] \in Txns \ {t}
      BY <1>2, <1>3 DEF IInv, TypeOK, ServerAgrees, PinsAgree
    <2> QED BY <1>1, <1>2, <1>3, <2>1 DEF IInv, TypeOK, ServerAgrees, Transactional
  <1>80. t \notin unknown
    BY <1>2 DEF IInv, TypeOK, StageAgrees
  <1>8. StageAgrees(t)'
    BY <1>2, <1>80 DEF IInv, StageAgrees, Transactional, Control
  <1>9. ASSUME Careful(t) PROVE CarefulAgrees(t)' /\ SuccessIsDurable(t)'
    <2>1. StageAgrees(t) /\ CarefulAgrees(t)
      BY <1>9 DEF IInv
    <2> QED BY <1>2, <1>3, <1>80, <2>1
            DEF StageAgrees, CarefulAgrees, SuccessIsDurable, Transactional, Up, Pinned, Control
  <1> QED BY <1>5, <1>6, <1>7, <1>8, <1>9, Step

(* A call that never got a connection.                                     *)
LEMMA AcquireFailsInv ==
    ASSUME IInv, TypeOK', NEW t \in Txns, AcquireFails(t)
    PROVE  IInv'
  <1> USE DEF program, pool, server, Goto, Resolve
  <1>1. /\ stage[t] = "acquiring" /\ stage'[t] = "settled" /\ verdict'[t] = "error"
        /\ ~Pinned(t) /\ ~Pinned(t)'
        /\ UNCHANGED <<connection, program, pool, server, confirmed, unknown>>
        /\ \A u \in Txns \ {t} : stage'[u] = stage[u] /\ verdict'[u] = verdict[u]
    BY DEF AcquireFails, IInv, TypeOK, Pinned, Control
  <1>2. \A u \in Txns \ {t} : Same(u)
    BY <1>1 DEF Same
  <1>3. PinsAgree'
    BY <1>1 DEF IInv, TypeOK, PinsAgree, Pinned
  <1>4. ServerAgrees'
    BY <1>1, ServerKeeps
  <1>5. StageAgrees(t)'
    BY <1>1 DEF IInv, StageAgrees, Control
  <1>6. ASSUME Careful(t) PROVE CarefulAgrees(t)' /\ SuccessIsDurable(t)'
    <2>1. StageAgrees(t) /\ CarefulAgrees(t)
      BY <1>6 DEF IInv
    <2> QED BY <1>1, <2>1 DEF StageAgrees, CarefulAgrees, SuccessIsDurable, Transactional
  <1> QED BY <1>2, <1>3, <1>4, <1>5, <1>6, Step

LEMMA BegunInv ==
    ASSUME IInv, TypeOK', NEW t \in Txns, Begun(t)
    PROVE  IInv'
  <1> USE DEF program, pool, Goto
  <1>1. /\ stage[t] = "beginning" /\ stage'[t] = "working" /\ Up(t)
        /\ Pinned(t) /\ Pinned(t)'
        /\ UNCHANGED <<verdict, connection, program, pool, aborted, confirmed, unknown>>
        /\ \A u \in Txns \ {t} : stage'[u] = stage[u]
        /\ tx' = [tx EXCEPT ![connection[t]] = t]
    BY DEF Begun, IInv, TypeOK, Pinned, Control
  <1>2. /\ connection[t] \in Sessions /\ holder[connection[t]] = t /\ tx[connection[t]] = None
        /\ Transactional(t) /\ connection[t] \notin aborted
    BY <1>1 DEF IInv, TypeOK, PinsAgree, ServerAgrees, StageAgrees, Transactional, Control
  <1>3. UNCHANGED <<pending, durable>>
    BY <1>1, <1>2 DEF Begun, IInv, TypeOK
  <1>4. \A u \in Txns \ {t} : Same(u)
    BY <1>1, <1>2, <1>3, Apart DEF Same, IInv, TypeOK, PinsAgree
  <1>5. PinsAgree'
    BY <1>1, <1>4, StaysPinned
  <1>6. ServerAgrees'
    BY <1>1, <1>2 DEF IInv, TypeOK, ServerAgrees, Transactional, Up
  <1>7. StageAgrees(t)'
    BY <1>1 DEF IInv, StageAgrees, Control
  <1>8. ASSUME Careful(t) PROVE CarefulAgrees(t)' /\ SuccessIsDurable(t)'
    <2>1. StageAgrees(t) /\ CarefulAgrees(t)
      BY <1>8 DEF IInv
    <2>2. tx'[connection[t]] = t
      BY <1>1, <1>2 DEF IInv, TypeOK
    <2> QED BY <1>1, <1>2, <1>3, <2>1, <2>2
            DEF StageAgrees, CarefulAgrees, SuccessIsDurable, Transactional, Up
  <1> QED BY <1>4, <1>5, <1>6, <1>7, <1>8, Step

----------------------------------------------------------------------------
(* Statements.                                                             *)

(* What a statement does, seen from the invariant.                         *)
LEMMA EffectFacts ==
    ASSUME IInv, NEW t \in Txns, Effect(t)
    PROVE  /\ \A u \in Txns \ {t} : pending'[u] = pending[u] /\ durable'[u] = durable[u]
           /\ tx[connection[t]] = t => /\ pending'[t] = pending[t] + 1
                                      /\ durable'[t] = durable[t]
           /\ tx[connection[t]] # t => /\ durable'[t] = durable[t] + 1
                                      /\ pending'[t] = pending[t]
  BY DEF IInv, TypeOK, Effect

LEMMA StatementSucceedsInv ==
    ASSUME IInv, TypeOK', NEW t \in Txns, StatementSucceeds(t)
    PROVE  IInv'
  <1> USE DEF call, pool
  <1>1. /\ Pinned(t) /\ Pinned(t)' /\ waiting[t] > 0 /\ Up(t) /\ Effect(t)
        /\ waiting' = [waiting EXCEPT ![t] = @ - 1]
        /\ confirmed' = [confirmed EXCEPT ![t] = @ + 1]
        /\ UNCHANGED <<call, sent, late, failed, pool, tx, aborted, unknown>>
    BY DEF StatementSucceeds, Pinned
  <1>2. stage[t] # "beginning" /\ stage[t] # "settled"
    BY <1>1 DEF IInv, TypeOK, StageAgrees
  <1>3. \A u \in Txns \ {t} : Same(u)
    BY <1>1, EffectFacts DEF Same, IInv, TypeOK
  <1>4. PinsAgree'
    BY <1>1, <1>3, StaysPinned
  <1>5. ServerAgrees'
    BY <1>1, <1>2, ServerKeeps
  <1>6. waiting'[t] = waiting[t] - 1 /\ waiting[t] \in Nat /\ confirmed'[t] = confirmed[t] + 1
        /\ late[t] \in Nat /\ sent[t] \in Nat /\ confirmed[t] \in Nat /\ durable[t] \in Nat
        /\ pending[t] \in Nat
    BY <1>1 DEF IInv, TypeOK
  <1>7. StageAgrees(t)'
    BY <1>1, <1>2, <1>6 DEF IInv, StageAgrees, Pinned
  <1>8. ASSUME Careful(t) PROVE CarefulAgrees(t)' /\ SuccessIsDurable(t)'
    <2>1. StageAgrees(t) /\ CarefulAgrees(t)
      BY <1>8 DEF IInv
    <2>2. CASE Transactional(t)
      <3>1. tx[connection[t]] = t
        BY <1>1, <2>1, <2>2 DEF CarefulAgrees
      <3>2. pending'[t] = pending[t] + 1 /\ durable'[t] = durable[t]
        BY <1>1, <3>1, EffectFacts
      <3> QED BY <1>1, <1>2, <1>6, <2>1, <2>2, <3>1, <3>2
              DEF CarefulAgrees, SuccessIsDurable, Transactional, Up
    <2>3. CASE ~Transactional(t)
      <3>1. tx[connection[t]] # t
        BY <1>1, <2>3 DEF IInv, PinsAgree, ServerAgrees, TypeOK
      <3>2. durable'[t] = durable[t] + 1
        BY <1>1, <3>1, EffectFacts
      <3> QED BY <1>1, <1>2, <1>6, <2>1, <2>3, <3>2
              DEF CarefulAgrees, SuccessIsDurable, Transactional
    <2> QED BY <2>2, <2>3
  <1> QED BY <1>3, <1>4, <1>5, <1>7, <1>8, Step

LEMMA StatementFailsInv ==
    ASSUME IInv, TypeOK', NEW t \in Txns, StatementFails(t)
    PROVE  IInv'
  <1> USE DEF call, pool
  <1>1. PICK refusal \in Refusals :
          /\ aborted' = aborted \cup {x \in {connection[t]} : refusal = "aborts" /\ tx[x] = t}
          /\ tx' = [x \in Sessions |->
                      IF x = connection[t] /\ refusal = "deadlock" THEN None ELSE tx[x]]
          /\ pending' = [pending EXCEPT ![t] = IF refusal = "deadlock" THEN 0 ELSE @]
    BY DEF StatementFails
  <1>2. /\ Pinned(t) /\ Pinned(t)' /\ waiting[t] > 0
        /\ waiting' = [waiting EXCEPT ![t] = @ - 1] /\ failed' = failed \cup {t}
        /\ UNCHANGED <<call, sent, late, pool, durable, confirmed, unknown>>
    BY DEF StatementFails, Pinned
  <1>3. /\ stage[t] # "beginning" /\ stage[t] # "settled"
        /\ connection[t] \in Sessions /\ holder[connection[t]] = t
    BY <1>2 DEF IInv, TypeOK, StageAgrees, PinsAgree
  <1>4. \A u \in Txns \ {t} : Same(u)
    BY <1>1, <1>2, Apart DEF Same, IInv, TypeOK, PinsAgree
  <1>5. PinsAgree'
    BY <1>2, <1>4, StaysPinned
  <1>6. ServerAgrees'
    <2>1. SUFFICES ASSUME NEW s \in Sessions
                   PROVE  /\ tx'[s] # None => /\ tx'[s] = holder[s] /\ s \notin lost
                                              /\ stage[tx'[s]] # "beginning"
                                              /\ Transactional(tx'[s])
                          /\ s \in aborted' => tx'[s] # None /\ Dialect = "postgresql"
                          /\ s \in lost => holder[s] # None
      BY <1>2 DEF ServerAgrees, Transactional
    <2>2. /\ tx[s] # None => /\ tx[s] = holder[s] /\ s \notin lost
                             /\ stage[tx[s]] # "beginning" /\ Transactional(tx[s])
          /\ s \in aborted => tx[s] # None /\ Dialect = "postgresql"
      BY DEF IInv, ServerAgrees
    <2>20. s \in lost => holder[s] # None
      BY DEF IInv, ServerAgrees
    <2>3. tx'[s] # None => tx'[s] = tx[s]
      BY <1>1
    <2>4. s \in aborted' => tx'[s] # None /\ Dialect = "postgresql"
      <3>1. CASE Dialect = "postgresql"
        BY <1>1, <2>2, <3>1 DEF Refusals
      <3>2. CASE Dialect = "mysql"
        BY <1>1, <2>2, <3>2 DEF Refusals
      <3> QED BY <3>1, <3>2
    <2> QED BY <2>2, <2>20, <2>3, <2>4
  <1>7. waiting'[t] = waiting[t] - 1 /\ waiting[t] \in Nat
        /\ late[t] \in Nat /\ sent[t] \in Nat
    BY <1>2 DEF IInv, TypeOK
  <1>8. StageAgrees(t)'
    BY <1>2, <1>3, <1>7 DEF IInv, StageAgrees, Pinned
  <1>9. ASSUME Careful(t) PROVE CarefulAgrees(t)' /\ SuccessIsDurable(t)'
    <2>1. StageAgrees(t) /\ CarefulAgrees(t)
      BY <1>9 DEF IInv
    <2>2. waiting'[t] > 0 => Dialect = "postgresql"
      BY <1>7, <2>1 DEF CarefulAgrees
    <2>3. Dialect = "postgresql" => tx' = tx /\ pending' = pending
      BY <1>1 DEF Refusals, IInv, TypeOK
    <2>4. tx'[connection[t]] = t => tx[connection[t]] = t /\ pending'[t] = pending[t]
      BY <1>1, <1>3 DEF IInv, TypeOK
    <2>5. t \in failed' /\ stage[t] # "committing"
      BY <1>2, <2>1 DEF CarefulAgrees
    <2> QED BY <1>2, <1>3, <1>7, <2>1, <2>2, <2>3, <2>4, <2>5
            DEF CarefulAgrees, SuccessIsDurable, Transactional, Up
  <1> QED BY <1>4, <1>5, <1>6, <1>8, <1>9, Step

(* A statement behind the end of a call that has settled: not careful.     *)
LEMMA LateStatementInv ==
    ASSUME IInv, TypeOK', NEW t \in Txns, LateStatement(t)
    PROVE  IInv'
  <1> USE DEF call, pool
  <1>1. /\ stage[t] = "settled" /\ late[t] > 0 /\ Effect(t)
        /\ late' = [late EXCEPT ![t] = @ - 1]
        /\ UNCHANGED <<call, sent, waiting, failed, pool, tx, aborted, confirmed, unknown>>
    BY DEF LateStatement
  <1>2. \A u \in Txns \ {t} : Same(u)
    BY <1>1, EffectFacts DEF Same, IInv, TypeOK
  <1>3. PinsAgree'
    BY <1>1 DEF IInv, PinsAgree, Pinned
  <1>4. ServerAgrees'
    BY <1>1, ServerKeeps
  <1>5. late'[t] = late[t] - 1 /\ late[t] \in Nat /\ waiting[t] \in Nat /\ sent[t] \in Nat
    BY <1>1 DEF IInv, TypeOK
  <1>6. StageAgrees(t)'
    BY <1>1, <1>5 DEF IInv, StageAgrees, Control
  <1>7. ~Careful(t)
    BY <1>1 DEF IInv, CarefulAgrees
  <1> QED BY <1>2, <1>3, <1>4, <1>6, <1>7, Step

LEMMA NextStatementInv ==
    ASSUME IInv, TypeOK', NEW t \in Txns, NextStatement(t)
    PROVE  IInv'
  <1> USE DEF call, pool, server
  <1>1. /\ Kind[t] # "callback" /\ stage[t] = "working" /\ Pinned(t) /\ Pinned(t)'
        /\ waiting[t] = 0 /\ t \notin failed
        /\ sent' = [sent EXCEPT ![t] = @ + 1] /\ waiting' = [waiting EXCEPT ![t] = 1]
        /\ UNCHANGED <<call, late, failed, pool, server, confirmed, unknown>>
    BY DEF NextStatement, Pinned
  <1>2. \A u \in Txns \ {t} : Same(u)
    BY <1>1 DEF Same, IInv, TypeOK
  <1>3. PinsAgree'
    BY <1>1, <1>2, StaysPinned
  <1>4. ServerAgrees'
    BY <1>1, ServerKeeps
  <1>5. waiting'[t] = 1 /\ sent'[t] = sent[t] + 1 /\ late[t] \in Nat /\ sent[t] \in Nat
    BY <1>1 DEF IInv, TypeOK
  <1>6. StageAgrees(t)'
    BY <1>1, <1>5 DEF IInv, StageAgrees, Control
  <1>7. ASSUME Careful(t) PROVE CarefulAgrees(t)' /\ SuccessIsDurable(t)'
    <2>1. CarefulAgrees(t)
      BY <1>7 DEF IInv
    <2> QED BY <1>1, <1>5, <2>1 DEF CarefulAgrees, SuccessIsDurable, Transactional, Up, Pinned
  <1> QED BY <1>2, <1>3, <1>4, <1>6, <1>7, Step

(* A careful callback issues a statement behind another one on PostgreSQL  *)
(* only, where a refused one keeps the transaction.                        *)
LEMMA QueryInv ==
    ASSUME IInv, TypeOK', NEW t \in Txns, Query(t)
    PROVE  IInv'
  <1> USE DEF call, pool, server
  <1>1. /\ Kind[t] = "callback" /\ (t \in failed => Habits[t] # {})
        /\ \/ /\ stage[t] = "working" /\ (waiting[t] > 0 => "parallel" \in Habits[t])
              /\ waiting' = [waiting EXCEPT ![t] = @ + 1] /\ UNCHANGED late
           \/ /\ "detached" \in Habits[t] /\ stage[t] \in {"committing", "rollingBack"}
              /\ late' = [late EXCEPT ![t] = @ + 1] /\ UNCHANGED waiting
        /\ sent' = [sent EXCEPT ![t] = @ + 1]
        /\ UNCHANGED <<call, failed, pool, server, confirmed, unknown>>
    BY DEF Query
  <1>2. Pinned(t) /\ Pinned(t)' /\ stage[t] \notin {"acquiring", "beginning", "settled"}
    BY <1>1 DEF Pinned, Control
  <1>3. \A u \in Txns \ {t} : Same(u)
    BY <1>1 DEF Same, IInv, TypeOK
  <1>4. PinsAgree'
    BY <1>1, <1>2, <1>3, StaysPinned
  <1>5. ServerAgrees'
    BY <1>1, <1>2, ServerKeeps
  <1>6. /\ waiting[t] \in Nat /\ late[t] \in Nat /\ sent[t] \in Nat
        /\ sent'[t] = sent[t] + 1
        /\ \/ waiting'[t] = waiting[t] + 1 /\ late'[t] = late[t]
           \/ waiting'[t] = waiting[t] /\ late'[t] = late[t] + 1
    BY <1>1 DEF IInv, TypeOK
  <1>7. StageAgrees(t)'
    BY <1>1, <1>2, <1>6 DEF IInv, StageAgrees
  <1>8. ASSUME Careful(t) PROVE CarefulAgrees(t)' /\ SuccessIsDurable(t)'
    <2>1. CarefulAgrees(t)
      BY <1>8 DEF IInv
    <2>2. "detached" \notin Habits[t] /\ (Habits[t] # {} => Dialect = "postgresql")
      BY <1>8 DEF Careful
    <2>3. /\ stage[t] = "working" /\ waiting'[t] = waiting[t] + 1 /\ late'[t] = late[t]
          /\ (t \in failed => Dialect = "postgresql")
          /\ (waiting[t] > 0 => Dialect = "postgresql")
      BY <1>1, <2>2 DEF IInv, TypeOK
    <2> QED BY <1>1, <1>2, <1>6, <2>1, <2>3
            DEF CarefulAgrees, SuccessIsDurable, Transactional, Up
  <1> QED BY <1>3, <1>4, <1>5, <1>7, <1>8, Step

----------------------------------------------------------------------------
(* Rolling back.                                                           *)

LEMMA ServerEmpties ==
    ASSUME IInv, TypeOK', NEW t \in Txns, Pinned(t), UNCHANGED holder,
           \A u \in Txns \ {t} : stage'[u] = stage[u],
           lost' \subseteq lost \cup {connection[t]},
           tx'[connection[t]] = None, connection[t] \notin aborted', aborted' \subseteq aborted,
           \A s \in Sessions \ {connection[t]} : tx'[s] = tx[s]
    PROVE  ServerAgrees'
  <1>1. connection[t] \in Sessions /\ holder[connection[t]] = t
    BY DEF IInv, PinsAgree
  <1>2. \A s \in Sessions \ {connection[t]} : tx[s] # None => tx[s] \in Txns \ {t}
    BY <1>1 DEF IInv, TypeOK, ServerAgrees, PinsAgree
  <1> QED BY <1>1, <1>2 DEF IInv, ServerAgrees, Transactional

(* ROLLBACK is queued, inside the transaction or after it has ended.       *)
LEMMA RollsBack ==
    ASSUME IInv, TypeOK', NEW t \in Txns, NEW with \in {"false", "error"},
           Pinned(t), Transactional(t), Queue(t, "rollingBack", with),
           UNCHANGED <<pool, sent, failed, durable, confirmed, unknown>>,
           \A u \in Txns \ {t} : pending'[u] = pending[u],
           \A s \in Sessions \ {connection[t]} :
               tx'[s] = tx[s] /\ (s \in aborted' <=> s \in aborted),
           \/ UNCHANGED <<tx, aborted, pending>>
           \/ /\ waiting[t] = 0 /\ tx'[connection[t]] = None
              /\ connection[t] \notin aborted' /\ aborted' \subseteq aborted
    PROVE  IInv'
  <1> USE DEF pool, Queue, Goto
  <1>1. /\ stage'[t] = "rollingBack" /\ verdict'[t] = with /\ Pinned(t)'
        /\ waiting'[t] = waiting[t] + late[t] /\ late'[t] = 0
        /\ waiting[t] \in Nat /\ late[t] \in Nat /\ sent[t] \in Nat
        /\ connection' = connection
        /\ \A u \in Txns \ {t} : stage'[u] = stage[u] /\ verdict'[u] = verdict[u]
                               /\ waiting'[u] = waiting[u] /\ late'[u] = late[u]
    BY DEF IInv, TypeOK, Pinned, Control
  <1>2. connection[t] \in Sessions /\ holder[connection[t]] = t
    BY DEF IInv, PinsAgree
  <1>3. \A u \in Txns \ {t} : Same(u)
    BY <1>1, <1>2, Apart DEF Same, IInv, TypeOK, PinsAgree
  <1>4. PinsAgree'
    BY <1>1, <1>3, StaysPinned
  <1>5. ServerAgrees'
    <2>1. CASE UNCHANGED <<tx, aborted, pending>>
      BY <1>1, <2>1, ServerKeeps
    <2>2. CASE tx'[connection[t]] = None /\ connection[t] \notin aborted' /\ aborted' \subseteq aborted
      BY <1>1, <2>2, ServerEmpties
    <2> QED BY <2>1, <2>2
  <1>6. StageAgrees(t)'
    <2>1. StageAgrees(t) /\ stage[t] \notin {"acquiring", "settled"}
      BY DEF IInv, Pinned, Control
    <2> QED BY <1>1, <2>1 DEF StageAgrees, Control, Transactional
  <1>7. ASSUME Careful(t) PROVE CarefulAgrees(t)' /\ SuccessIsDurable(t)'
    <2>1. CarefulAgrees(t)
      BY <1>7 DEF IInv
    <2>2. waiting'[t] = waiting[t] /\ t # None
      BY <1>1, <2>1 DEF CarefulAgrees
    <2> QED BY <1>1, <1>2, <2>1, <2>2 DEF CarefulAgrees, SuccessIsDurable, Transactional, Up
  <1> QED BY <1>3, <1>4, <1>5, <1>6, <1>7, Step

(* The call lets go of its session, which the server has done with.        *)
LetGo(t) ==
    /\ stage' = [stage EXCEPT ![t] = "settled"] /\ connection' = connection
    /\ sent' = sent /\ failed' = failed /\ confirmed' = confirmed
    /\ waiting'[t] = 0 /\ (late'[t] = late[t] \/ late'[t] = 0)
    /\ \A u \in Txns \ {t} :
         /\ verdict'[u] = verdict[u] /\ pending'[u] = pending[u] /\ durable'[u] = durable[u]
         /\ waiting'[u] = waiting[u] /\ late'[u] = late[u]
         /\ u \in unknown' <=> u \in unknown
    /\ tx'[connection[t]] = None /\ connection[t] \notin aborted'
    /\ \A s \in Sessions \ {connection[t]} :
         tx'[s] = tx[s] /\ (s \in aborted' <=> s \in aborted)

LEMMA Settles ==
    ASSUME IInv, TypeOK', NEW t \in Txns, Pinned(t), Release(t), LetGo(t),
           Careful(t) =>
               /\ Transactional(t) /\ t \notin unknown' /\ verdict'[t] # "true" => durable'[t] = 0
               /\ Kind[t] = "batch" \/ verdict'[t] = "true" => durable'[t] = confirmed[t]
    PROVE  IInv'
  <1> USE DEF LetGo
  <1>1. connection[t] \in Sessions /\ holder[connection[t]] = t
    BY DEF IInv, PinsAgree
  <1>2. /\ stage'[t] = "settled" /\ ~Pinned(t)'
        /\ waiting[t] \in Nat /\ late[t] \in Nat /\ late'[t] \in Nat /\ sent[t] \in Nat
        /\ \A u \in Txns \ {t} : stage'[u] = stage[u]
    BY DEF IInv, TypeOK, Pinned, Control
  <1>3. lost' = lost \ {connection[t]}
    BY DEF Release
  <1>4. \A u \in Txns \ {t} : Same(u)
    BY <1>1, <1>2, <1>3, Apart DEF Same, IInv, TypeOK, PinsAgree
  <1>5. PinsAgree'
    BY <1>2, <1>4, LetsGo
  <1>6. ServerAgrees'
    <2>1. aborted' \subseteq aborted
      BY DEF IInv, TypeOK
    <2> QED BY <1>2, <2>1, ServerLetsGo
  <1>7. StageAgrees(t)'
    BY <1>2 DEF IInv, StageAgrees, Control
  <1>8. ASSUME Careful(t) PROVE CarefulAgrees(t)' /\ SuccessIsDurable(t)'
    <2>1. CarefulAgrees(t)
      BY <1>8 DEF IInv
    <2> QED BY <1>2, <1>8, <2>1 DEF CarefulAgrees, SuccessIsDurable, Transactional
  <1> QED BY <1>4, <1>5, <1>6, <1>7, <1>8, Step

----------------------------------------------------------------------------
(* The steps that end in one of these two ways.                            *)

LEMMA BeginFailsInv ==
    ASSUME IInv, TypeOK', NEW t \in Txns, BeginFails(t)
    PROVE  IInv'
  <1> USE DEF pool, server
  <1>1. Pinned(t) /\ Transactional(t)
    BY DEF BeginFails, Pinned, Control, Transactional, IInv, StageAgrees
  <1>2. Queue(t, "rollingBack", "error") /\ UNCHANGED <<pool, sent, failed, server, confirmed, unknown>>
    BY <1>1 DEF BeginFails, Throw
  <1> QED BY <1>1, <1>2, RollsBack

LEMMA DeclineInv ==
    ASSUME IInv, TypeOK', NEW t \in Txns, Decline(t)
    PROVE  IInv'
  <1> USE DEF pool, server
  <1>1. Pinned(t) /\ Transactional(t)
    BY DEF Decline, Through, Pinned, Transactional
  <1>2. Queue(t, "rollingBack", "false") /\ UNCHANGED <<pool, sent, failed, server, confirmed, unknown>>
    BY DEF Decline
  <1> QED BY <1>1, <1>2, RollsBack

(* A batch lets go of its session as soon as its loop ends.                *)
LEMMA BatchEnds ==
    ASSUME IInv, TypeOK', NEW t \in Txns, stage[t] = "working", ~Transactional(t),
           NEW with \in {"true", "error"}, Resolve(t, with), Release(t), waiting[t] = 0,
           UNCHANGED <<waiting, late, sent, failed, server, confirmed, unknown>>
    PROVE  IInv'
  <1> USE DEF server, Resolve, Goto
  <1>1. Pinned(t) /\ Kind[t] = "batch"
    BY DEF Pinned, Transactional
  <1>2. connection[t] \in Sessions /\ holder[connection[t]] = t
    BY <1>1 DEF IInv, PinsAgree
  <1>3. tx[connection[t]] = None /\ connection[t] \notin aborted
    BY <1>2 DEF IInv, ServerAgrees
  <1>4. Careful(t) => durable[t] = confirmed[t]
    BY <1>1 DEF IInv, CarefulAgrees
  <1>5. late[t] \in Nat /\ \A u \in Txns \ {t} : verdict'[u] = verdict[u]
    BY DEF IInv, TypeOK
  <1>6. LetGo(t)
    BY <1>3, <1>5 DEF LetGo
  <1>7. Release(t) /\ (Careful(t) => durable'[t] = confirmed[t])
    BY <1>4
  <1> QED BY <1>1, <1>6, <1>7, Settles

LEMMA FinishInv ==
    ASSUME IInv, TypeOK', NEW t \in Txns, Finish(t)
    PROVE  IInv'
  <1>1. stage[t] = "working" /\ Through(t) /\ UNCHANGED <<sent, failed, server, confirmed, unknown>>
    BY DEF Finish, Through
  <1>2. CASE ~Transactional(t)
    <2>1. waiting[t] = 0
      <3>1. ~(waiting[t] > 0)
        BY <1>1, <1>2 DEF Through, Transactional
      <3> QED BY <3>1 DEF IInv, TypeOK
    <2> QED BY <1>1, <1>2, <2>1, BatchEnds DEF Finish
  <1>3. CASE Transactional(t)
    <2> USE DEF Queue, Goto, pool, server
    <2>1. /\ stage'[t] = "committing" /\ verdict'[t] = "true" /\ Pinned(t) /\ Pinned(t)'
          /\ waiting'[t] = waiting[t] + late[t] /\ late'[t] = 0
          /\ waiting[t] \in Nat /\ late[t] \in Nat /\ sent[t] \in Nat
          /\ UNCHANGED <<connection, pool, sent, failed, server, confirmed, unknown>>
          /\ \A u \in Txns \ {t} : stage'[u] = stage[u] /\ verdict'[u] = verdict[u]
                                 /\ waiting'[u] = waiting[u] /\ late'[u] = late[u]
      BY <1>1, <1>3 DEF Finish, IInv, TypeOK, Pinned, Control
    <2>2. \A u \in Txns \ {t} : Same(u)
      BY <2>1 DEF Same
    <2>3. PinsAgree'
      BY <2>1, <2>2, StaysPinned
    <2>4. ServerAgrees'
      BY <2>1, ServerKeeps
    <2>5. StageAgrees(t)'
      BY <1>1, <1>3, <2>1 DEF IInv, StageAgrees, Transactional
    <2>6. ASSUME Careful(t) PROVE CarefulAgrees(t)' /\ SuccessIsDurable(t)'
      <3>1. CarefulAgrees(t)
        BY <2>6 DEF IInv
      <3>2. waiting[t] = 0 /\ t \notin failed
        BY <1>1, <2>1, <2>6 DEF Careful, Through
      <3> QED BY <1>1, <2>1, <3>1, <3>2 DEF CarefulAgrees, SuccessIsDurable, Transactional, Up
    <2> QED BY <2>2, <2>3, <2>4, <2>5, <2>6, Step
  <1> QED BY <1>2, <1>3

LEMMA FailsInv ==
    ASSUME IInv, TypeOK', NEW t \in Txns, Fails(t)
    PROVE  IInv'
  <1>1. /\ stage[t] = "working" /\ Pinned(t)
        /\ Kind[t] = "callback" \/ t \in failed \/ waiting[t] = 0
        /\ UNCHANGED <<sent, failed, server, confirmed, unknown>>
    BY DEF Fails, Pinned
  <1>2. CASE ~Transactional(t)
    <2>1. waiting[t] = 0
      BY <1>1, <1>2 DEF IInv, StageAgrees, Transactional
    <2> QED BY <1>1, <1>2, <2>1, BatchEnds DEF Fails, Throw
  <1>3. CASE Transactional(t)
    <2>1. Queue(t, "rollingBack", "error") /\ UNCHANGED pool
      BY <1>3 DEF Fails, Throw
    <2> QED BY <1>1, <1>3, <2>1, RollsBack DEF pool, server
  <1> QED BY <1>2, <1>3

----------------------------------------------------------------------------
(* COMMIT, ROLLBACK, the timer and lost connections.                       *)

LEMMA CommittedInv ==
    ASSUME IInv, TypeOK', NEW t \in Txns, Committed(t)
    PROVE  IInv'
  <1> USE DEF Resolve, Goto, program
  <1>1. /\ stage[t] = "committing" /\ waiting[t] = 0 /\ Pinned(t) /\ Up(t) /\ Release(t)
        /\ stage' = [stage EXCEPT ![t] = "settled"] /\ verdict' = [verdict EXCEPT ![t] = "true"]
        /\ UNCHANGED <<connection, program, confirmed, unknown>>
    BY DEF Committed, Committing, Pinned, Control
  <1>2. connection[t] \in Sessions /\ holder[connection[t]] = t
    BY <1>1 DEF IInv, PinsAgree
  <1>3. /\ tx' = [tx EXCEPT ![connection[t]] = None] /\ aborted' = aborted \ {connection[t]}
        /\ pending' = [pending EXCEPT ![t] = 0]
        /\ durable' = IF tx[connection[t]] = t /\ connection[t] \notin aborted
                      THEN [durable EXCEPT ![t] = @ + pending[t]] ELSE durable
    BY DEF Committed
  <1>4. \A u \in Txns \ {t} : /\ verdict'[u] = verdict[u] /\ pending'[u] = pending[u]
                            /\ durable'[u] = durable[u]
    BY <1>1, <1>3 DEF IInv, TypeOK
  <1>5. verdict'[t] = "true" /\ Transactional(t) /\ late[t] \in Nat
    BY <1>1 DEF IInv, TypeOK, StageAgrees, Transactional, Control
  <1>6. ASSUME Careful(t) PROVE durable'[t] = confirmed[t]
    <2>1. CarefulAgrees(t) /\ t \notin unknown
      BY <1>1, <1>6 DEF IInv, StageAgrees, Up
    <2>2. /\ tx[connection[t]] = t /\ connection[t] \notin aborted
          /\ durable[t] = 0 /\ pending[t] = confirmed[t]
      BY <1>1, <1>5, <2>1 DEF CarefulAgrees
    <2>3. durable'[t] = durable[t] + pending[t] /\ pending[t] \in Nat
      BY <1>3, <2>2 DEF IInv, TypeOK
    <2> QED BY <2>2, <2>3
  <1>7. tx'[connection[t]] = None /\ \A s \in Sessions \ {connection[t]} : tx'[s] = tx[s]
    BY <1>2, <1>3 DEF IInv, TypeOK
  <1>8. LetGo(t)
    BY <1>1, <1>3, <1>4, <1>5, <1>7 DEF LetGo
  <1>9. Release(t) /\ Pinned(t)
    BY <1>1
  <1> QED BY <1>5, <1>6, <1>8, <1>9, Settles

LEMMA CommitFailsInv ==
    ASSUME IInv, TypeOK', NEW t \in Txns, CommitFails(t)
    PROVE  IInv'
  <1>1. /\ stage[t] = "committing" /\ waiting[t] = 0 /\ Pinned(t)
        /\ UNCHANGED <<sent, failed, durable, confirmed, unknown>>
    BY DEF CommitFails, Committing, Pinned, Control
  <1>2. connection[t] \in Sessions /\ Transactional(t)
    BY <1>1 DEF IInv, PinsAgree, StageAgrees, Transactional, Control
  <1>3. Queue(t, "rollingBack", "error") /\ UNCHANGED pool
    BY <1>2 DEF CommitFails, Throw
  <1>4. /\ tx' = [tx EXCEPT ![connection[t]] = None] /\ aborted' = aborted \ {connection[t]}
        /\ pending' = [pending EXCEPT ![t] = 0]
    BY DEF CommitFails
  <1>5. /\ tx'[connection[t]] = None /\ \A s \in Sessions \ {connection[t]} : tx'[s] = tx[s]
        /\ \A u \in Txns \ {t} : pending'[u] = pending[u]
    BY <1>2, <1>4 DEF IInv, TypeOK
  <1> QED BY <1>1, <1>2, <1>3, <1>4, <1>5, RollsBack

LEMMA RolledBackInv ==
    ASSUME IInv, TypeOK', NEW t \in Txns, RolledBack(t)
    PROVE  IInv'
  <1> USE DEF Resolve, Goto, program
  <1>1. /\ stage[t] = "rollingBack" /\ waiting[t] = 0 /\ Pinned(t) /\ Up(t) /\ Release(t)
        /\ stage' = [stage EXCEPT ![t] = "settled"]
        /\ verdict' = [verdict EXCEPT ![t] = verdict[t]]
        /\ UNCHANGED <<connection, program, durable, confirmed, unknown>>
    BY DEF RolledBack, Pinned, Control
  <1>2. connection[t] \in Sessions /\ holder[connection[t]] = t
    BY <1>1 DEF IInv, PinsAgree
  <1>3. /\ tx' = [tx EXCEPT ![connection[t]] = None] /\ aborted' = aborted \ {connection[t]}
        /\ pending' = [pending EXCEPT ![t] = 0]
    BY DEF RolledBack
  <1>4. /\ \A u \in Txns \ {t} : verdict'[u] = verdict[u] /\ pending'[u] = pending[u]
        /\ tx'[connection[t]] = None /\ \A s \in Sessions \ {connection[t]} : tx'[s] = tx[s]
    BY <1>1, <1>2, <1>3 DEF IInv, TypeOK
  <1>5. verdict'[t] \in {"false", "error"} /\ Kind[t] # "batch" /\ late[t] \in Nat
    BY <1>1 DEF IInv, TypeOK, StageAgrees, Control
  <1>6. Careful(t) /\ t \notin unknown => durable[t] = 0
    BY <1>1, <1>5 DEF IInv, CarefulAgrees, Transactional
  <1>7. LetGo(t)
    BY <1>1, <1>3, <1>4, <1>5 DEF LetGo
  <1>8. /\ Release(t) /\ Pinned(t) /\ verdict'[t] # "true" /\ Kind[t] # "batch"
        /\ (Careful(t) /\ t \notin unknown' => durable'[t] = 0)
    BY <1>1, <1>5, <1>6
  <1> QED BY <1>7, <1>8, Settles

(* The server drops its transaction when the connection ends.              *)
Ended(t) ==
    /\ tx'[connection[t]] = None /\ connection[t] \notin aborted'
    /\ \A s \in Sessions \ {connection[t]} :
         tx'[s] = tx[s] /\ (s \in aborted' <=> s \in aborted)
    /\ \A u \in Txns \ {t} :
         pending'[u] = pending[u] /\ durable'[u] = durable[u] /\ (u \in unknown' <=> u \in unknown)
    /\ pending'[t] = 0
    /\ t \in unknown => t \in unknown'
    /\ t \notin unknown' => durable'[t] = durable[t]
    /\ t \in unknown' => t \in unknown \/ stage[t] = "committing"
    /\ stage[t] # "committing" => durable' = durable
    /\ aborted' \subseteq aborted

LEMMA EndFacts ==
    ASSUME IInv, NEW t \in Txns, Pinned(t), ServerEnds(t)
    PROVE  Ended(t)
  BY DEF IInv, TypeOK, PinsAgree, ServerEnds, Committing, Ended

LEMMA RollbackFailsInv ==
    ASSUME IInv, TypeOK', NEW t \in Txns, RollbackFails(t)
    PROVE  IInv'
  <1>1. /\ stage[t] = "rollingBack" /\ waiting[t] = 0 /\ Pinned(t)
        /\ UNCHANGED <<sent, failed, confirmed>>
    BY DEF RollbackFails, Unanswered, Pinned, Control
  <1>2. Transactional(t) /\ verdict[t] \in {"false", "error"} /\ Kind[t] # "batch"
    BY <1>1 DEF IInv, StageAgrees, Transactional, Control
  <1>3. CASE TriesAgain(t)
    <2>1. Queue(t, "rollingBack", "error") /\ UNCHANGED <<pool, server, unknown>>
      BY <1>3 DEF TriesAgain
    <2> QED BY <1>1, <1>2, <2>1, RollsBack DEF pool, server
  <1>4. CASE Resolve(t, "error") /\ Destroy(t) /\ ServerEnds(t)
    <2> USE DEF Resolve, Goto, Destroy
    <2>1. Ended(t)
      BY <1>1, <1>4, EndFacts
    <2>2. /\ stage' = [stage EXCEPT ![t] = "settled"] /\ verdict' = [verdict EXCEPT ![t] = "error"]
          /\ waiting' = [waiting EXCEPT ![t] = 0] /\ late' = [late EXCEPT ![t] = 0]
          /\ Release(t) /\ UNCHANGED connection
      BY <1>4
    <2>3. /\ waiting'[t] = 0 /\ late'[t] = 0 /\ late[t] \in Nat /\ verdict'[t] = "error"
          /\ \A u \in Txns \ {t} : /\ verdict'[u] = verdict[u]
                                 /\ waiting'[u] = waiting[u] /\ late'[u] = late[u]
      BY <2>2 DEF IInv, TypeOK
    <2>4. ASSUME Careful(t), t \notin unknown' PROVE durable'[t] = 0
      BY <1>1, <1>2, <2>1, <2>4 DEF Ended, IInv, CarefulAgrees
    <2>5. LetGo(t)
      BY <1>1, <2>1, <2>2, <2>3 DEF Ended, LetGo
    <2> QED BY <1>1, <1>2, <2>2, <2>3, <2>4, <2>5, Settles
  <1> QED BY <1>3, <1>4 DEF RollbackFails

LEMMA TimeoutInv ==
    ASSUME IInv, TypeOK', NEW t \in Txns, Timeout(t)
    PROVE  IInv'
  <1> USE DEF Resolve, Goto, Destroy
  <1>1. /\ Kind[t] = "callback" /\ Pinned(t) /\ ServerEnds(t) /\ Release(t)
        /\ stage' = [stage EXCEPT ![t] = "settled"] /\ verdict' = [verdict EXCEPT ![t] = "error"]
        /\ waiting' = [waiting EXCEPT ![t] = 0] /\ late' = [late EXCEPT ![t] = 0]
        /\ UNCHANGED <<connection, sent, failed, confirmed>>
    BY DEF Timeout
  <1>0. Ended(t)
    BY <1>1, EndFacts
  <1>2. /\ waiting'[t] = 0 /\ late'[t] = 0 /\ late[t] \in Nat /\ verdict'[t] = "error"
        /\ \A u \in Txns \ {t} : /\ verdict'[u] = verdict[u]
                               /\ waiting'[u] = waiting[u] /\ late'[u] = late[u]
    BY <1>1 DEF IInv, TypeOK
  <1>3. ASSUME Careful(t), t \notin unknown' PROVE durable'[t] = 0
    BY <1>1, <1>3, <1>0 DEF Ended, IInv, CarefulAgrees, Transactional
  <1>4. LetGo(t)
    BY <1>1, <1>2, <1>0 DEF Ended, LetGo
  <1>5. /\ Release(t) /\ Pinned(t) /\ verdict'[t] # "true" /\ Kind[t] # "batch"
    BY <1>1, <1>2
  <1> QED BY <1>3, <1>4, <1>5, Settles

LEMMA LoseInv ==
    ASSUME IInv, TypeOK', NEW t \in Txns, Lose(t)
    PROVE  IInv'
  <1> USE DEF call, program
  <1>1. /\ Pinned(t) /\ Pinned(t)' /\ Up(t) /\ ServerEnds(t)
        /\ lost' = lost \cup {connection[t]}
        /\ UNCHANGED <<call, program, holder, confirmed>>
    BY DEF Lose, Pinned
  <1>0. Ended(t)
    BY <1>1, EndFacts
  <1>2. connection[t] \in Sessions /\ holder[connection[t]] = t
    BY <1>1 DEF IInv, PinsAgree
  <1>3. ASSUME NEW u \in Txns \ {t} PROVE Same(u)
    <2>1. Pinned(u) => connection[u] \in Sessions \ {connection[t]}
      BY <1>1, Apart DEF IInv, PinsAgree
    <2>2. /\ pending'[u] = pending[u] /\ durable'[u] = durable[u]
          /\ (u \in unknown' <=> u \in unknown)
      BY <1>0 DEF Ended
    <2>3. Pinned(u) => /\ tx'[connection[u]] = tx[connection[u]]
                      /\ (connection[u] \in aborted' <=> connection[u] \in aborted)
                      /\ (connection[u] \in lost' <=> connection[u] \in lost)
      BY <1>1, <2>1, <1>0 DEF Ended
    <2> QED BY <1>1, <2>2, <2>3 DEF Same
  <1>4. PinsAgree'
    BY <1>1, <1>3, StaysPinned
  <1>5. ServerAgrees'
    BY <1>1, <1>0, ServerEmpties DEF Ended
  <1>6. StageAgrees(t)'
    BY <1>1, <1>0 DEF Ended, IInv, StageAgrees, Pinned
  <1>7. ASSUME Careful(t) PROVE CarefulAgrees(t)' /\ SuccessIsDurable(t)'
    <2>1. CarefulAgrees(t) /\ StageAgrees(t)
      BY <1>7 DEF IInv
    <2>2. ~Up(t)' /\ tx'[connection'[t]] # t /\ stage'[t] # "settled"
      BY <1>1, <1>0 DEF Ended, Up, Pinned, Control
    <2>3. Kind[t] = "batch" => durable' = durable
      BY <1>1, <2>1, <1>0 DEF Ended, StageAgrees, Control
    <2> QED BY <1>1, <2>1, <2>2, <2>3, <1>0 DEF Ended, CarefulAgrees, SuccessIsDurable, Transactional
  <1> QED BY <1>3, <1>4, <1>5, <1>6, <1>7, Step

----------------------------------------------------------------------------
(* The invariant and what follows from it.                                 *)

LEMMA InitInvariant == Init => IInv
  <1> SUFFICES ASSUME Init PROVE IInv
    OBVIOUS
  <1>1. TypeOK
    BY DEF Init, TypeOK, Control
  <1>2. PinsAgree /\ ServerAgrees
    BY DEF Init, PinsAgree, ServerAgrees, Pinned, Control
  <1>3. ASSUME NEW t \in Txns
        PROVE  StageAgrees(t) /\ CarefulAgrees(t) /\ SuccessIsDurable(t)
    BY DEF Init, StageAgrees, CarefulAgrees, SuccessIsDurable, Pinned, Control
  <1> QED BY <1>1, <1>2, <1>3 DEF IInv

LEMMA InductiveStep == IInv /\ [Next]_vars => IInv'
  <1> SUFFICES ASSUME IInv, [Next]_vars PROVE IInv'
    OBVIOUS
  <1>1. TypeOK'
    BY TypeStep
  <1>2. CASE UNCHANGED vars
    <2>1. \A u \in Txns : Same(u)
      BY <1>2 DEF vars, call, program, pool, server, Same
    <2>2. \A u \in Txns : StageAgrees(u)' /\ (Careful(u)' => CarefulAgrees(u)' /\ SuccessIsDurable(u)')
      BY <2>1, SameKeeps DEF Careful
    <2>3. PinsAgree' /\ ServerAgrees'
      BY <1>2 DEF IInv, vars, call, program, pool, server, PinsAgree, ServerAgrees, Pinned, Transactional
    <2> QED BY <1>1, <2>2, <2>3 DEF IInv
  <1>3. CASE Next
    <2>1. PICK t \in Txns :
            \/ Acquire(t) \/ AcquireFails(t) \/ Reply(t)
            \/ NextStatement(t) \/ Query(t) \/ Finish(t) \/ Decline(t) \/ Fails(t)
            \/ Timeout(t) \/ Lose(t)
      BY <1>3 DEF Next
    <2>2. CASE Reply(t)
      BY <1>1, <2>2, BegunInv, BeginFailsInv, StatementSucceedsInv, StatementFailsInv,
         CommittedInv, CommitFailsInv, RolledBackInv, RollbackFailsInv, LateStatementInv
         DEF Reply
    <2> QED BY <1>1, <2>1, <2>2, AcquireInv, AcquireFailsInv, NextStatementInv, QueryInv,
               FinishInv, DeclineInv, FailsInv, TimeoutInv, LoseInv
  <1> QED BY <1>2, <1>3

\* The inductive invariant holds in every reachable state: each call, its
\* connection and the server's session agree on how far a transaction is.
THEOREM Inductive == Spec => []IInv
  <1>1. Init => IInv
    BY InitInvariant
  <1>2. IInv /\ [Next]_vars => IInv'
    BY InductiveStep
  <1> QED BY <1>1, <1>2, PTL DEF Spec

(* Every variable keeps its type.                                          *)
THEOREM TypeCorrect == Spec => []TypeOK
  <1>1. IInv => TypeOK
    BY DEF IInv
  <1> QED BY <1>1, Inductive, PTL

(* The session a call is using is checked out to it and to nobody else:    *)
(* acquire, release and destroy of withTransaction, transactionResults and *)
(* executePreparedBatch, on every path.                                    *)
THEOREM SessionsNotShared == Spec => []NoSharedSession
  <1>1. IInv => NoSharedSession
    BY DEF IInv, PinsAgree, NoSharedSession
  <1> QED BY <1>1, Inductive, PTL

(* No call leaves an open transaction, a broken connection or, if it was   *)
(* careful, a command behind on the session it gives back.                 *)
THEOREM SessionsHandedOverClean == Spec => []CleanHandover
  <1>1. ASSUME IInv PROVE CleanHandover
    <2>1. SUFFICES ASSUME NEW s \in Sessions, holder[s] = None
                   PROVE  /\ tx[s] = None /\ s \notin aborted \cup lost
                          /\ \A t \in Txns : connection[t] = s /\ Careful(t)
                                          => waiting[t] + late[t] = 0
      BY DEF CleanHandover
    <2>2. tx[s] = None /\ s \notin aborted \cup lost
      BY <1>1, <2>1 DEF IInv, ServerAgrees
    <2>3. ASSUME NEW t \in Txns, connection[t] = s, Careful(t)
          PROVE  waiting[t] + late[t] = 0
      <3>1. ~Pinned(t) /\ stage[t] # "acquiring"
        BY <1>1, <2>1, <2>3 DEF IInv, PinsAgree, StageAgrees
      <3>2. stage[t] = "settled"
        BY <1>1, <3>1 DEF IInv, TypeOK, Pinned
      <3> QED BY <1>1, <2>3, <3>2 DEF IInv, StageAgrees, CarefulAgrees
    <2> QED BY <2>2, <2>3
  <1> QED BY <1>1, Inductive, PTL

(* A careful transaction that failed or was declined has changed nothing,  *)
(* unless its connection broke during COMMIT.                              *)
THEOREM CarefulFailureIsEmpty == Spec => []CarefulFailureLeavesNothing
  <1>1. ASSUME IInv PROVE CarefulFailureLeavesNothing
    BY <1>1 DEF IInv, CarefulAgrees, CarefulFailureLeavesNothing, FailureLeavesNothing
  <1> QED BY <1>1, Inductive, PTL

(* A careful call that resolves to true has made durable all it was told   *)
(* had succeeded.                                                          *)
THEOREM CarefulSuccessIsLasting == Spec => []CarefulSuccessIsDurable
  <1>1. ASSUME IInv PROVE CarefulSuccessIsDurable
    BY <1>1 DEF IInv, CarefulSuccessIsDurable
  <1> QED BY <1>1, Inductive, PTL
=============================================================================
