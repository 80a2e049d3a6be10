------------------------- MODULE LifecycleContract -------------------------
(***************************************************************************)
(* What a database lane promises to the resources that use it: the life    *)
(* cycle they are told of (the events ready, disconnected, reconnected and *)
(* the refusal after close()) and what may happen to a call.  Nothing of   *)
(* pools, retries or health checks appears here.                           *)
(***************************************************************************)
EXTENDS Naturals, FiniteSets

CONSTANTS Callers, QueueLimit

VARIABLES phase,    \* "starting", "up", "down" or "closed"
          request   \* of each call: "out", "queued" or "in"

vars == <<phase, request>>

Queued == {c \in Callers : request[c] = "queued"}

Init == phase = "starting" /\ request = [c \in Callers |-> "out"]

(* A call, or one already let in that asks again, is let in at once only   *)
(* while the lane is up, is queued only while there is room, and is        *)
(* otherwise refused.                                                      *)
Ask(c) ==
    /\ request[c] # "queued"
    /\ \/ phase = "up" /\ request' = [request EXCEPT ![c] = "in"]
       \/ phase # "closed" /\ Cardinality(Queued) < QueueLimit
          /\ request' = [request EXCEPT ![c] = "queued"]
       \/ request' = [request EXCEPT ![c] = "out"]
    /\ UNCHANGED phase

(* A queued call's time is up.                                             *)
Expire(c) ==
    /\ request[c] = "queued"
    /\ request' = [request EXCEPT ![c] = "out"]
    /\ UNCHANGED phase

(* The lane comes up: everybody queued is let in.                          *)
ComeUp ==
    /\ phase \in {"starting", "down"}
    /\ phase' = "up"
    /\ request' = [c \in Callers |-> IF request[c] = "queued" THEN "in" ELSE request[c]]

GoDown == phase = "up" /\ phase' = "down" /\ UNCHANGED request

(* close(): everybody queued is refused.                                   *)
Close ==
    /\ phase # "closed" /\ phase' = "closed"
    /\ request' = [c \in Callers |-> IF request[c] = "queued" THEN "out" ELSE request[c]]

Next == ComeUp \/ GoDown \/ Close \/ \E c \in Callers : Ask(c) \/ Expire(c)

Spec == Init /\ [][Next]_vars
FairSpec == Spec /\ \A c \in Callers : WF_vars(Expire(c))
=============================================================================
