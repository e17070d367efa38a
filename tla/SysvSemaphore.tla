--------------------------- MODULE SysvSemaphore ----------------------------
(***************************************************************************)
(* `main sysv init|get I|release I|wait0 I` of semaphore_example/main.c.   *)
(* Each session runs one command at a time, each in a process of its own:  *)
(* Start is the argument parsing up to the system call, SetVal one turn of *)
(* the loop of sysv_sem_init, Get/Release/WaitZero/Fail the semop call of  *)
(* sysv_sem_get/release/wait, Exit and Kill the end of the process.  A     *)
(* command that sleeps in semop is a session whose semop action is not     *)
(* enabled.  `show` changes nothing and is left out.                       *)
(***************************************************************************)
EXTENDS Integers, FiniteSets

CONSTANTS
    Session,      \* the users of the program, one command at a time each
    Arg,          \* the values atoi may return for SEM_IDX
    SEM_NUM,      \* semaphores of the set
    SEM_COUNT,    \* initial value of a counting semaphore
    SEM_BINARY,   \* initial value of a binary semaphore
    SEMVMX,       \* the kernel's largest semaphore value
    Garbage       \* for each build: the flag sets its uninitialised sem_flg may hold

ASSUME SysvAssumption ==
    /\ Arg \subseteq Int
    /\ SEM_NUM \in Nat \ {0}
    /\ {SEM_COUNT, SEM_BINARY} \subseteq 1 .. SEMVMX
    /\ SEMVMX \in Nat
    /\ Garbage \subseteq SUBSET SUBSET {"NOWAIT", "UNDO"}

VARIABLES
    careful,   \* whether the users keep to Proper; never changes
    garbage,   \* what sem_flg may hold in the build they use; never changes
    semval,    \* the semaphore set in the kernel
    op,        \* the command each session's process is executing
    num,       \* its sem_num; in sysv_sem_init the loop's i - 1
    flg,       \* its sem_flg
    adj,       \* the kernel's semadj of each process
    ready,     \* history: the semaphores SETVAL has reached
    holders    \* history: the sessions whose gets outnumber their releases

fixed == <<careful, garbage>>
vars == <<fixed, semval, op, num, flg, adj, ready, holders>>

Idx == 0 .. SEM_NUM - 1
Semops == {"get", "release", "wait0"}
Commands == Semops \union {"init"}

\* The int index is stored in sem_num, an unsigned short.
SemNum(a) == a % 65536

\* The value the loop of sysv_sem_init gives to index k = i - 1.
InitValue(k) == IF (k + 1) % 2 = 0 THEN SEM_COUNT ELSE SEM_BINARY

-----------------------------------------------------------------------------
\* IPC_CREAT in sysv_sem_setting: a new set, which Linux fills with zeros.
Init ==
    /\ careful \in BOOLEAN /\ garbage \in Garbage
    /\ semval = [i \in Idx |-> 0]
    /\ op = [s \in Session |-> "idle"]
    /\ num = [s \in Session |-> 0]
    /\ flg = [s \in Session |-> {}]
    /\ adj = [s \in Session |-> [i \in Idx |-> 0]]
    /\ ready = [i \in Idx |-> FALSE]
    /\ holders = [i \in Idx |-> {}]

\* What careful users, who treat the set as locks, keep to (an assumption on
\* them, the program enforces none of it): the set is initialised once, a
\* session takes a permit it does not have and returns only one it has.
Proper(s, o, i) ==
    CASE o = "init"    -> \A j \in Idx : ~ready[j] /\ \A x \in Session : op[x] # "init"
      [] o = "get"     -> i \in Idx => s \notin holders[i]
      [] o = "release" -> i \in Idx => s \in holders[i]
      [] OTHER         -> TRUE

\* sysv_main: the command and its index are parsed, sembuf is filled except
\* for sem_flg, and the process is about to enter semctl or semop.
Start(s, o, a) ==
    /\ op[s] = "idle"
    /\ careful => Proper(s, o, SemNum(a))
    /\ op' = [op EXCEPT ![s] = o]
    /\ num' = [num EXCEPT ![s] = IF o = "init" THEN 0 ELSE SemNum(a)]
    /\ \E f \in garbage : flg' = [flg EXCEPT ![s] = f]
    /\ UNCHANGED <<fixed, semval, adj, ready, holders>>

\* The call has returned; nothing of num or flg is used any more.
Return(s, result) ==
    /\ UNCHANGED fixed
    /\ op' = [op EXCEPT ![s] = result]
    /\ num' = [num EXCEPT ![s] = 0]
    /\ flg' = [flg EXCEPT ![s] = {}]

\* One turn of the loop.  SETVAL also forgets every process's adjustment of
\* that semaphore.
SetVal(s) ==
    LET k == num[s] IN
    /\ op[s] = "init"
    /\ semval' = [semval EXCEPT ![k] = InitValue(k)]
    /\ adj' = [x \in Session |-> [adj[x] EXCEPT ![k] = 0]]
    /\ ready' = [ready EXCEPT ![k] = TRUE]
    /\ IF k + 1 \in Idx
         THEN num' = [num EXCEPT ![s] = k + 1] /\ UNCHANGED <<fixed, op, flg>>
         ELSE Return(s, "ok")
    /\ UNCHANGED holders

\* Wrong on purpose: every semop behaves as if sem_flg had SEM_UNDO.
BugApply(s, delta) ==
    LET k == num[s] IN
    /\ semval' = [semval EXCEPT ![k] = @ + delta]
    /\ adj' = [adj EXCEPT ![s][k] = @ - delta]
    /\ Return(s, "ok")
    /\ UNCHANGED ready

\* semop adds delta to the semaphore; with SEM_UNDO it books the opposite.
Apply(s, delta) ==
    LET k == num[s] IN
    /\ semval' = [semval EXCEPT ![k] = @ + delta]
    /\ adj' = IF "UNDO" \in flg[s] THEN [adj EXCEPT ![s][k] = @ - delta] ELSE adj
    /\ Return(s, "ok")
    /\ UNCHANGED ready

\* Wrong on purpose: a get that does not wait, a wait0 that does not wait.
BugGetRuns(s) == op[s] = "wait0" /\ semval[num[s]] # 0
BugWaitRuns(s) == op[s] = "get" /\ semval[num[s]] = 0

\* semop would put the process to sleep.
Blocks(s) ==
    \/ op[s] = "get" /\ semval[num[s]] = 0
    \/ op[s] = "wait0" /\ semval[num[s]] # 0

Get(s) ==
    /\ op[s] = "get" /\ num[s] \in Idx
    /\ ~Blocks(s)
    /\ Apply(s, -1)
    /\ holders' = [holders EXCEPT ![num[s]] = @ \union {s}]

Release(s) ==
    /\ op[s] = "release" /\ num[s] \in Idx
    /\ semval[num[s]] < SEMVMX
    /\ Apply(s, 1)
    /\ holders' = [holders EXCEPT ![num[s]] = @ \ {s}]

WaitZero(s) ==
    /\ op[s] = "wait0" /\ num[s] \in Idx
    /\ ~Blocks(s)
    /\ Return(s, "ok")
    /\ UNCHANGED <<semval, adj, ready, holders>>

\* EFBIG for an index outside the set, EAGAIN when the garbage in sem_flg has
\* IPC_NOWAIT, ERANGE beyond SEMVMX: ERROR prints and returns -1.
Fail(s) ==
    /\ op[s] \in Semops
    /\ \/ num[s] \notin Idx
       \/ num[s] \in Idx /\ "NOWAIT" \in flg[s] /\ Blocks(s)
       \/ num[s] \in Idx /\ op[s] = "release" /\ semval[num[s]] >= SEMVMX
    /\ Return(s, "err")
    /\ UNCHANGED <<semval, adj, ready, holders>>

Clamp(v) == IF v < 0 THEN 0 ELSE IF v > SEMVMX THEN SEMVMX ELSE v

\* The end of a process: the kernel applies its adjustments.
Undo(s) ==
    /\ semval' = [i \in Idx |-> Clamp(semval[i] + adj[s][i])]
    /\ adj' = [adj EXCEPT ![s] = [i \in Idx |-> 0]]
    /\ Return(s, "idle")
    /\ UNCHANGED <<ready, holders>>

\* Wrong on purpose: the end of the process leaves its adjustments behind.
BugExit(s) ==
    /\ op[s] \in {"ok", "err"}
    /\ Return(s, "idle")
    /\ UNCHANGED <<semval, adj, ready, holders>>

\* sysv_main returns nothing, so main returns 0 after "ok" and after "err".
Exit(s) == op[s] \in {"ok", "err"} /\ Undo(s)

\* The user interrupts a running or sleeping command.
Kill(s) == op[s] \in Commands /\ Undo(s)

Command(s) == SetVal(s) \/ Get(s) \/ Release(s) \/ WaitZero(s) \/ Fail(s) \/ Exit(s)

Next == \E s \in Session :
    \/ \E o \in Commands, a \in Arg : Start(s, o, a)
    \/ Command(s)
    \/ Kill(s)

Spec == Init /\ [][Next]_vars
-----------------------------------------------------------------------------
\* The locks are used as locks: the users are careful and the garbage in sem_flg
\* has no SEM_UNDO (with it the kernel takes permits back).
LockUse == careful /\ garbage \subseteq {{}, {"NOWAIT"}}

TypeOK ==
    /\ careful \in BOOLEAN /\ garbage \in Garbage
    /\ semval \in [Idx -> 0 .. SEMVMX]
    /\ op \in [Session -> Commands \union {"idle", "ok", "err"}]
    /\ num \in [Session -> Nat]
    /\ flg \in [Session -> SUBSET {"NOWAIT", "UNDO"}]
    /\ adj \in [Session -> [Idx -> Int]]
    /\ ready \in [Idx -> BOOLEAN]
    /\ holders \in [Idx -> SUBSET Session]
    /\ \A s \in Session : op[s] = "init" => num[s] \in Idx

\* The ledger of the locks: from the SETVAL of a semaphore on, its value and
\* the clients inside always add up to its initial value, whatever gets,
\* releases, failures and kills have happened and however the initialisation
\* loop interleaves with them.
Ledger ==
    \A i \in Idx :
        IF ready[i] THEN semval[i] + Cardinality(holders[i]) = InitValue(i)
                    ELSE semval[i] = 0 /\ holders[i] = {}

PermitLedger == LockUse => Ledger

\* Whatever the users do and whatever sem_flg holds, the end of a process moves
\* at most the one semaphore its semop moved, by one; a command that failed,
\* sleeps or never reached semop leaves nothing for the kernel to undo.
UndoIsBounded ==
    \A s \in Session :
        LET touched == {i \in Idx : adj[s][i] # 0} IN
        /\ touched # {} => op[s] = "ok"
        /\ Cardinality(touched) <= 1
        /\ \A i \in touched : adj[s][i] \in {-1, 1}

\* Used as locks, the semaphores hand out permits as the abstract pool does.
\* (Of other uses nothing is claimed: to the pool they do nothing.)
Pool == INSTANCE PermitPool WITH
            Client <- Session, Pool <- Idx, Capacity <- [i \in Idx |-> InitValue(i)],
            holders <- IF LockUse THEN holders ELSE [i \in Idx |-> {}]
PoolSpec == Pool!Spec

\* What "wait0" tells its caller when the set is used as locks: at the moment
\* it succeeds on an initialised semaphore every permit is in someone's hands.
ZeroMeansTaken ==
    [][\A s \in Session :
        LockUse /\ op[s] = "wait0" /\ op'[s] = "ok" /\ ready[num[s]]
            => Cardinality(holders[num[s]]) = InitValue(num[s])]_vars
=============================================================================
