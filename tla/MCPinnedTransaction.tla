------------------------ MODULE MCPinnedTransaction ------------------------
(* Instances of PinnedTransaction for TLC.                                 *)
EXTENDS PinnedTransaction, TLC

CONSTANTS t1, t2, t3, t4

\* A careless callback, a careful one, a list and a batch share the pool.
AllKinds == t1 :> "callback" @@ t2 :> "callback" @@ t3 :> "list" @@ t4 :> "batch"
OneCareless == t1 :> {"parallel", "detached", "swallows"} @@ t2 :> {"parallel"}
               @@ t3 :> {} @@ t4 :> {}

\* On MySQL a careful callback issues its statements one at a time.
NoBatch == t1 :> "callback" @@ t2 :> "callback" @@ t3 :> "list"
OneBranching == t1 :> {"parallel", "detached", "swallows"} @@ t2 :> {} @@ t3 :> {}

Callbacks == [t \in Txns |-> "callback"]
Branching == [t \in Txns |-> {"detached"}]
Forgiving == [t \in Txns |-> {"swallows"}]
=============================================================================
