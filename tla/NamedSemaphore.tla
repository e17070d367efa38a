--------------------------- MODULE NamedSemaphore ---------------------------
(***************************************************************************)
(* `main named_posix show|wait|trywait|timewait|release` of                *)
(* semaphore_example/main.c: one POSIX semaphore that lives under a name   *)
(* and outlives every process, shared by one-shot commands.                *)
(***************************************************************************)
EXTENDS Integers, FiniteSets

CONSTANTS
    Session,         \* the users of the program, one command at a time each
    SEM_NUM,         \* the value sem_open creates the semaphore with
    SEM_VALUE_MAX    \* the largest value sem_post may reach

ASSUME NamedAssumption ==
    /\ SEM_VALUE_MAX \in Nat
    /\ SEM_NUM \in 1 .. SEM_VALUE_MAX

VARIABLES
    careful,   \* whether the users keep to Proper; never changes
    exists,    \* the name is bound to a semaphore
    value,     \* its value
    op,        \* what each session's process is doing
    holders    \* history: the sessions whose waits outnumber their releases

vars == <<careful, exists, value, op, holders>>

\* "other" is an unknown word: it opens the semaphore, prints the help, closes.
Commands == {"show", "wait", "trywait", "timewait", "release", "other"}
Running == Commands \union {"asleep"}

Init ==
    /\ careful \in BOOLEAN
    /\ exists = FALSE
    /\ value = 0
    /\ op = [s \in Session |-> "idle"]
    /\ holders = {}

\* Careful users take the semaphore for a lock (an assumption on them): a session
\* takes a permit it does not have and returns only one it has.
Proper(s, o) ==
    CASE o \in {"wait", "trywait", "timewait"} -> s \notin holders
      [] o = "release" -> s \in holders
      [] OTHER -> TRUE

Becomes(s, result) == op' = [op EXCEPT ![s] = result]

BugOpened == SEM_NUM   \* wrong on purpose: every sem_open sets the value

\* sem_open with O_CREAT creates the semaphore with SEM_NUM permits, or finds
\* the one that is there with the value it has.
Opened == IF exists THEN value ELSE SEM_NUM

\* posix_named_init, before the command word is looked at.
Start(s, o) ==
    /\ op[s] = "idle"
    /\ careful => Proper(s, o)
    /\ exists' = TRUE
    /\ value' = Opened
    /\ Becomes(s, o)
    /\ UNCHANGED <<careful, holders>>

\* Wrong on purpose: a wait that takes what is not there.
BugTakesAnyway == value >= 0

CanTake == value > 0

\* sem_wait, sem_trywait or sem_timedwait takes a permit, at once or when the
\* process is woken.
Take(s) ==
    /\ op[s] \in {"wait", "trywait", "timewait", "asleep"}
    /\ CanTake
    /\ value' = value - 1
    /\ holders' = holders \union {s}
    /\ Becomes(s, "ok")
    /\ UNCHANGED <<careful, exists>>

\* sem_timedwait finds no permit and sleeps until woken or until the deadline.
\* (A sem_wait that sleeps is a session in "wait" with no permit to take.)
Sleep(s) ==
    /\ op[s] = "timewait" /\ ~CanTake
    /\ Becomes(s, "asleep")
    /\ UNCHANGED <<careful, exists, value, holders>>

\* Wrong on purpose: the deadline is noticed only when the process is woken.
BugTimeout(s) ==
    /\ op[s] = "asleep" /\ CanTake
    /\ Becomes(s, "err")
    /\ UNCHANGED <<careful, exists, value, holders>>

\* The deadline passes: ETIMEDOUT, even when a permit has just come back.
Timeout(s) ==
    /\ op[s] = "asleep"
    /\ Becomes(s, "err")
    /\ UNCHANGED <<careful, exists, value, holders>>

\* sem_trywait answers EAGAIN.
Busy(s) ==
    /\ op[s] = "trywait" /\ ~CanTake
    /\ Becomes(s, "err")
    /\ UNCHANGED <<careful, exists, value, holders>>

Release(s) ==
    /\ op[s] = "release"
    /\ \/ /\ value < SEM_VALUE_MAX
          /\ value' = value + 1
          /\ holders' = holders \ {s}
          /\ Becomes(s, "ok")
       \/ /\ value >= SEM_VALUE_MAX            \* EOVERFLOW
          /\ Becomes(s, "err")
          /\ UNCHANGED <<value, holders>>
    /\ UNCHANGED <<careful, exists>>

\* posix_named_show reads the value, print_help prints: nothing changes.
Look(s) ==
    /\ op[s] \in {"show", "other"}
    /\ Becomes(s, "ok")
    /\ UNCHANGED <<careful, exists, value, holders>>

\* posix_named_fin closes the semaphore; it does not unlink the name.
Fin(s) ==
    /\ op[s] \in {"ok", "err"}
    /\ Becomes(s, "idle")
    /\ UNCHANGED <<careful, exists, value, holders>>

\* The user interrupts a running or sleeping command.
Kill(s) ==
    /\ op[s] \in Running
    /\ Becomes(s, "idle")
    /\ UNCHANGED <<careful, exists, value, holders>>

Command(s) ==
    Take(s) \/ Sleep(s) \/ Timeout(s) \/ Busy(s) \/ Release(s) \/ Look(s) \/ Fin(s)

Next == \E s \in Session :
    \/ \E o \in Commands : Start(s, o)
    \/ Command(s)
    \/ Kill(s)

Spec == Init /\ [][Next]_vars

\* A process that can go on does, and the clock reaches every deadline.  No
\* assumption on the users, and none that a sleeper is served before others.
FairSpec == Spec /\ \A s \in Session : WF_vars(Command(s))
-----------------------------------------------------------------------------
TypeOK ==
    /\ careful \in BOOLEAN
    /\ exists \in BOOLEAN
    /\ value \in 0 .. SEM_VALUE_MAX
    /\ op \in [Session -> Running \union {"idle", "ok", "err"}]
    /\ holders \subseteq Session

\* The ledger of the permits: from creation on, whatever waits, time-outs,
\* releases and interrupts happen, what is in the semaphore and what is in the
\* hands of careful users add up to SEM_NUM.
Ledger ==
    IF exists THEN value + Cardinality(holders) = SEM_NUM
              ELSE value = 0 /\ holders = {} /\ \A s \in Session : op[s] = "idle"

PermitLedger == careful => Ledger

\* To careful users the named semaphore hands out permits as the abstract pool
\* does.  (Of others nothing is claimed: to the pool they do nothing.)
Pool == INSTANCE PermitPool WITH
            Client <- Session, Pool <- {"named"},
            Capacity <- [p \in {"named"} |-> SEM_NUM],
            holders <- [p \in {"named"} |-> IF careful THEN holders ELSE {}]
PoolSpec == Pool!Spec

\* With careful users trywait fails only when every permit is in someone's hands
\* at that moment (a timewait may fail although one has just come back).
BusyMeansTaken ==
    [][\A s \in Session :
        careful /\ op[s] = "trywait" /\ op'[s] = "err"
            => Cardinality(holders) = SEM_NUM]_vars

\* Every command but wait ends, whatever the other users do: the deadline of
\* timewait (main.c:278-285) is what bounds it.
OnlyWaitHangs ==
    \A s \in Session : (op[s] \notin {"idle", "wait"}) ~> (op[s] = "idle")
=============================================================================
