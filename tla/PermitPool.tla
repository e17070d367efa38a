----------------------------- MODULE PermitPool -----------------------------
(***************************************************************************)
(* What a set of semaphores promises to the clients that share it: at most *)
(* Capacity[p] clients hold a permit of pool p at a time.  The System V    *)
(* and the POSIX semaphore modules are shown to implement this module.     *)
(***************************************************************************)
EXTENDS Naturals, FiniteSets

CONSTANTS Client,    \* who may hold permits
          Pool,      \* the semaphores
          Capacity   \* how many permits each semaphore hands out

VARIABLE holders     \* holders[p]: the clients that hold a permit of p

Init == holders = [p \in Pool |-> {}]

Acquire(c, p) ==
    /\ c \notin holders[p]
    /\ Cardinality(holders[p]) < Capacity[p]
    /\ holders' = [holders EXCEPT ![p] = @ \union {c}]

Release(c, p) ==
    /\ c \in holders[p]
    /\ holders' = [holders EXCEPT ![p] = @ \ {c}]

Next == \E c \in Client, p \in Pool : Acquire(c, p) \/ Release(c, p)

Spec == Init /\ [][Next]_holders

=============================================================================
