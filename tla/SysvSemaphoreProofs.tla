------------------------ MODULE SysvSemaphoreProofs -------------------------
(***************************************************************************)
(* Proofs about SysvSemaphore, for every set of sessions and indexes, every *)
(* size of the semaphore set and every initial value.                      *)
(***************************************************************************)
EXTENDS SysvSemaphore, FiniteSetTheorems, TLAPS

\* A command in flight found its session on the right side of the semaphore.
InFlightOK ==
    \A s \in Session :
        /\ op[s] = "get" /\ num[s] \in Idx => s \notin holders[num[s]]
        /\ op[s] = "release" /\ num[s] \in Idx => s \in holders[num[s]]

\* The one initialisation has set exactly the semaphores below its loop index.
InitLoopOK ==
    \A s \in Session : op[s] = "init" =>
        /\ \A j \in Idx : ready[j] => j < num[s]
        /\ \A x \in Session : op[x] = "init" => x = s

NoUndoBooked ==
    \A s \in Session : "UNDO" \notin flg[s] /\ \A i \in Idx : adj[s][i] = 0

HoldersFinite == \A i \in Idx : IsFiniteSet(holders[i])

LockInv ==
    /\ TypeOK
    /\ Ledger
    /\ InFlightOK
    /\ InitLoopOK
    /\ NoUndoBooked
    /\ HoldersFinite
-----------------------------------------------------------------------------
\* The index handed to the kernel and the initial values are in range.
LEMMA SemNumType == ASSUME NEW a \in Arg PROVE SemNum(a) \in Nat
  BY SysvAssumption DEF SemNum

\* Both kinds of semaphores start with at least one permit the kernel can hold.
LEMMA InitValueType == ASSUME NEW i PROVE InitValue(i) \in 1 .. SEMVMX
  BY SysvAssumption DEF InitValue

\* The state a fresh semaphore set starts in is well typed.
LEMMA TypeInit == Init => TypeOK
  BY SysvAssumption DEF Init, TypeOK, Idx, Commands, Semops

\* No step of any command takes a variable out of its type; in particular the
\* kernel never lets a value leave 0 .. SEMVMX.
LEMMA TypeStep == TypeOK /\ [Next]_vars => TypeOK'
<1> SUFFICES ASSUME TypeOK, [Next]_vars PROVE TypeOK'
  OBVIOUS
<1> USE SysvAssumption DEF TypeOK, Commands, Semops, fixed
<1>1. CASE UNCHANGED vars
  BY <1>1 DEF vars
<1>2. ASSUME NEW s \in Session, NEW o \in Commands, NEW a \in Arg, Start(s, o, a)
      PROVE  TypeOK'
  <2>1. SemNum(a) \in Nat
    BY SemNumType
  <2>2. 0 \in Idx
    BY DEF Idx
  <2> QED
    BY <1>2, <2>1, <2>2 DEF Start
<1>3. ASSUME NEW s \in Session, SetVal(s) PROVE TypeOK'
  <2>1. num[s] \in Idx /\ num[s] + 1 \in Nat
    BY <1>3 DEF SetVal, Idx
  <2>2. InitValue(num[s]) \in 0 .. SEMVMX
    BY InitValueType
  <2>3. semval' \in [Idx -> 0 .. SEMVMX]
    BY <1>3, <2>2 DEF SetVal
  <2>4. adj' \in [Session -> [Idx -> Int]]
    BY <1>3 DEF SetVal
  <2>5. ready' \in [Idx -> BOOLEAN] /\ holders' \in [Idx -> SUBSET Session]
    BY <1>3 DEF SetVal
  <2>6. CASE num[s] + 1 \in Idx
    <3>1. /\ op' = op /\ flg' = flg /\ UNCHANGED fixed
          /\ num' = [num EXCEPT ![s] = num[s] + 1]
      BY <1>3, <2>6 DEF SetVal
    <3> QED
      BY <2>1, <2>3, <2>4, <2>5, <2>6, <3>1
  <2>7. CASE num[s] + 1 \notin Idx
    <3>1. Return(s, "ok")
      BY <1>3, <2>7 DEF SetVal
    <3> QED
      BY <2>3, <2>4, <2>5, <3>1 DEF Return
  <2> QED
    BY <2>6, <2>7
<1>4. ASSUME NEW s \in Session, Get(s) PROVE TypeOK'
  <2>1. num[s] \in Idx /\ semval[num[s]] - 1 \in 0 .. SEMVMX
    <3>1. num[s] \in Idx /\ semval[num[s]] # 0
      BY <1>4 DEF Get, Blocks
    <3>2. semval[num[s]] \in 0 .. SEMVMX
      BY <3>1
    <3>3. \A v \in 0 .. SEMVMX : v # 0 => v - 1 \in 0 .. SEMVMX
      BY SMT
    <3> QED
      BY <3>1, <3>2, <3>3, Zenon
  <2>2. semval' \in [Idx -> 0 .. SEMVMX] /\ adj' \in [Session -> [Idx -> Int]]
    BY <1>4, <2>1 DEF Get, Apply
  <2> QED
    BY <1>4, <2>1, <2>2 DEF Get, Apply, Return
<1>5. ASSUME NEW s \in Session, Release(s) PROVE TypeOK'
  <2>1. num[s] \in Idx /\ semval[num[s]] + 1 \in 0 .. SEMVMX
    BY <1>5 DEF Release
  <2>2. semval' \in [Idx -> 0 .. SEMVMX] /\ adj' \in [Session -> [Idx -> Int]]
    BY <1>5, <2>1 DEF Release, Apply
  <2> QED
    BY <1>5, <2>1, <2>2 DEF Release, Apply, Return
<1>6. ASSUME NEW s \in Session, WaitZero(s) PROVE TypeOK'
  BY <1>6 DEF WaitZero, Return
<1>7. ASSUME NEW s \in Session, Fail(s) PROVE TypeOK'
  BY <1>7 DEF Fail, Return
<1>8. ASSUME NEW s \in Session, Undo(s) PROVE TypeOK'
  <2>1. \A i \in Idx : Clamp(semval[i] + adj[s][i]) \in 0 .. SEMVMX
    BY DEF Clamp
  <2> QED
    BY <1>8, <2>1 DEF Undo, Return
<1> QED
  BY <1>1, <1>2, <1>3, <1>4, <1>5, <1>6, <1>7, <1>8
  DEF Next, Command, Exit, Kill

\* Type correctness, for careful and careless users alike.
THEOREM TypeCorrect == Spec => []TypeOK
  BY TypeInit, TypeStep, PTL DEF Spec
-----------------------------------------------------------------------------
\* A fresh set satisfies the ledger: nothing initialised, nobody inside.
LEMMA LockInit == Init => LockInv
<1> SUFFICES ASSUME Init PROVE LockInv
  OBVIOUS
<1>1. TypeOK
  BY TypeInit
<1>2. Ledger /\ HoldersFinite
  BY FS_EmptySet DEF Init, Ledger, HoldersFinite
<1>3. InFlightOK /\ InitLoopOK /\ NoUndoBooked
  BY DEF Init, InFlightOK, InitLoopOK, NoUndoBooked
<1> QED
  BY <1>1, <1>2, <1>3 DEF LockInv

\* Starting a command: Proper puts its session on the right side of the
\* semaphore and lets no initialisation start once a semaphore is ready.
LEMMA StartStep ==
  ASSUME LockUse, LockInv, NEW s \in Session, NEW o \in Commands, NEW a \in Arg,
         Start(s, o, a)
  PROVE  Ledger' /\ InFlightOK' /\ InitLoopOK' /\ NoUndoBooked' /\ HoldersFinite'
<1> USE DEF LockInv
<1>1. /\ Proper(s, o, SemNum(a)) /\ op[s] = "idle"
      /\ op' = [op EXCEPT ![s] = o]
      /\ num' = [num EXCEPT ![s] = IF o = "init" THEN 0 ELSE SemNum(a)]
      /\ UNCHANGED <<semval, adj, ready, holders>>
  BY DEF Start, LockUse
<1>2. Ledger' /\ HoldersFinite'
  BY <1>1 DEF Ledger, HoldersFinite
<1>3. InFlightOK'
  <2>1. ASSUME NEW x \in Session, x # s
        PROVE  op'[x] = op[x] /\ num'[x] = num[x]
    BY <1>1, <2>1 DEF TypeOK
  <2>2. op'[s] = o /\ (o # "init" => num'[s] = SemNum(a))
    BY <1>1 DEF TypeOK
  <2>3. /\ o = "get" => (SemNum(a) \in Idx => s \notin holders[SemNum(a)])
        /\ o = "release" => (SemNum(a) \in Idx => s \in holders[SemNum(a)])
    BY <1>1 DEF Proper
  <2> QED
    BY <1>1, <2>1, <2>2, <2>3 DEF InFlightOK
<1>4. InitLoopOK'
  <2>1. CASE o = "init"
    <3>1. \A j \in Idx : ~ready[j] /\ \A x \in Session : op[x] # "init"
      BY <1>1, <2>1 DEF Proper
    <3>2. Idx # {}
      BY SysvAssumption DEF Idx
    <3>3. \A x \in Session : op'[x] = "init" => x = s
      BY <1>1, <3>1, <3>2 DEF TypeOK
    <3> QED
      BY <1>1, <3>1, <3>3 DEF InitLoopOK
  <2>2. CASE o # "init"
    BY <1>1, <2>2 DEF InitLoopOK, TypeOK
  <2> QED
    BY <2>1, <2>2
<1>5. NoUndoBooked'
  <2>1. PICK f \in garbage : flg' = [flg EXCEPT ![s] = f]
    BY DEF Start
  <2>2. "UNDO" \notin f
    BY <2>1 DEF LockUse
  <2> QED
    BY <1>1, <2>1, <2>2 DEF NoUndoBooked, TypeOK
<1> QED
  BY <1>2, <1>3, <1>4, <1>5

\* One turn of the initialisation loop: the semaphore it sets was not ready,
\* so nobody was inside and the ledger opens with its full value.
LEMMA SetValStep ==
  ASSUME LockInv, NEW s \in Session, SetVal(s)
  PROVE  Ledger' /\ InFlightOK' /\ InitLoopOK' /\ NoUndoBooked' /\ HoldersFinite'
<1> USE DEF LockInv
<1> DEFINE k == num[s]
<1>1. /\ op[s] = "init" /\ k \in Idx /\ ~ready[k]
      /\ semval' = [semval EXCEPT ![k] = InitValue(k)]
      /\ adj' = [x \in Session |-> [adj[x] EXCEPT ![k] = 0]]
      /\ ready' = [ready EXCEPT ![k] = TRUE]
      /\ holders' = holders
  BY DEF SetVal, TypeOK, InitLoopOK, Idx
<1>2. Ledger'
  <2>1. holders[k] = {}
    BY <1>1 DEF Ledger
  <2>2. InitValue(k) + Cardinality({}) = InitValue(k)
    BY FS_EmptySet, InitValueType
  <2> QED
    BY <1>1, <2>1, <2>2 DEF Ledger, TypeOK
<1>3. CASE k + 1 \in Idx
  <2>1. num' = [num EXCEPT ![s] = k + 1] /\ op' = op /\ flg' = flg
    BY <1>3 DEF SetVal
  <2>2. InitLoopOK'
    <3>1. num'[s] = k + 1 /\ \A j \in Idx : ready'[j] => ready[j] \/ j = k
      BY <1>1, <2>1 DEF TypeOK
    <3>2. \A j \in Idx : ready'[j] => j < k + 1
      BY <1>1, <3>1 DEF InitLoopOK, Idx
    <3> QED
      BY <1>1, <2>1, <3>1, <3>2 DEF InitLoopOK
  <2> QED
    BY <1>1, <1>2, <2>1, <2>2
    DEF InFlightOK, NoUndoBooked, HoldersFinite, TypeOK
<1>4. CASE k + 1 \notin Idx
  <2>1. Return(s, "ok")
    BY <1>4 DEF SetVal
  <2> QED
    BY <1>1, <1>2, <2>1
    DEF Return, InFlightOK, InitLoopOK, NoUndoBooked, HoldersFinite, TypeOK
<1> QED
  BY <1>3, <1>4

\* A command that returns without touching the semaphores (WaitZero, Fail).
LEMMA ReturnStep ==
  ASSUME LockInv, NEW s \in Session, NEW r \in {"ok", "err", "idle"}, Return(s, r),
         UNCHANGED <<semval, adj, ready, holders>>
  PROVE  Ledger' /\ InFlightOK' /\ InitLoopOK' /\ NoUndoBooked' /\ HoldersFinite'
  BY DEF LockInv, TypeOK, Return, Ledger, InFlightOK, InitLoopOK,
         NoUndoBooked, HoldersFinite

\* What a semop that adds delta leaves behind when sem_flg has no SEM_UNDO.
LEMMA ApplyFacts ==
  ASSUME LockInv, NEW s \in Session, op[s] \in Semops, num[s] \in Idx,
         NEW delta, Apply(s, delta)
  PROVE  /\ semval' = [semval EXCEPT ![num[s]] = @ + delta]
         /\ InitLoopOK' /\ NoUndoBooked' /\ ready' = ready
         /\ \A x \in Session : op'[x] = (IF x = s THEN "ok" ELSE op[x])
         /\ \A x \in Session : x # s => num'[x] = num[x]
<1>1. "UNDO" \notin flg[s] /\ op[s] # "init"
  BY DEF LockInv, NoUndoBooked, Semops
<1>2. adj' = adj /\ Return(s, "ok") /\ ready' = ready
  BY <1>1 DEF Apply
<1>3. InitLoopOK' /\ NoUndoBooked'
  BY <1>1, <1>2 DEF LockInv, TypeOK, Return, InitLoopOK, NoUndoBooked
<1> QED
  BY <1>2, <1>3 DEF Apply, Return, LockInv, TypeOK

\* A get takes one permit off the value and adds one session to the holders.
LEMMA GetStep ==
  ASSUME LockInv, NEW s \in Session, Get(s)
  PROVE  Ledger' /\ InFlightOK' /\ InitLoopOK' /\ NoUndoBooked' /\ HoldersFinite'
<1> DEFINE k == num[s]
<1> USE DEF LockInv
<1>1. /\ k \in Idx /\ op[s] = "get" /\ semval[k] # 0 /\ Apply(s, -1)
      /\ holders' = [holders EXCEPT ![k] = @ \union {s}]
  BY DEF Get, Blocks
<1>2. s \notin holders[k] /\ ready[k] /\ IsFiniteSet(holders[k])
  BY <1>1 DEF InFlightOK, Ledger, HoldersFinite
<1>3. /\ semval' = [semval EXCEPT ![k] = @ + (-1)]
      /\ InitLoopOK' /\ NoUndoBooked' /\ ready' = ready
      /\ \A x \in Session : op'[x] = (IF x = s THEN "ok" ELSE op[x])
      /\ \A x \in Session : x # s => num'[x] = num[x]
  BY <1>1, ApplyFacts DEF Semops
<1>4. /\ Cardinality(holders[k] \union {s}) = Cardinality(holders[k]) + 1
      /\ Cardinality(holders[k]) \in Nat
      /\ IsFiniteSet(holders[k] \union {s})
  BY <1>2, FS_AddElement, FS_CardinalityType
<1>5. Ledger'
  <2>1. semval[k] \in Int /\ semval[k] + Cardinality(holders[k]) = InitValue(k)
    BY <1>1, <1>2 DEF Ledger, TypeOK
  <2>2. semval'[k] + Cardinality(holders'[k]) = InitValue(k)
    BY <1>1, <1>3, <1>4, <2>1 DEF TypeOK
  <2> QED
    BY <1>1, <1>2, <1>3, <2>2 DEF Ledger, TypeOK
<1>6. InFlightOK'
  <2>1. ASSUME NEW x \in Session, x # s, NEW i \in Idx
        PROVE  x \in holders'[i] <=> x \in holders[i]
    BY <1>1, <2>1 DEF TypeOK
  <2> QED
    BY <1>3, <2>1 DEF InFlightOK
<1>7. HoldersFinite'
  BY <1>1, <1>4 DEF HoldersFinite, TypeOK
<1> QED
  BY <1>3, <1>5, <1>6, <1>7

\* A proper release moves one session out and one permit back.
LEMMA ReleaseStep ==
  ASSUME LockInv, NEW s \in Session, Release(s)
  PROVE  Ledger' /\ InFlightOK' /\ InitLoopOK' /\ NoUndoBooked' /\ HoldersFinite'
<1> DEFINE k == num[s]
<1> USE DEF LockInv
<1>1. /\ k \in Idx /\ op[s] = "release" /\ Apply(s, 1)
      /\ holders' = [holders EXCEPT ![k] = @ \ {s}]
  BY DEF Release
<1>2. s \in holders[k] /\ ready[k] /\ IsFiniteSet(holders[k])
  BY <1>1 DEF InFlightOK, Ledger, HoldersFinite
<1>3. /\ semval' = [semval EXCEPT ![k] = @ + 1]
      /\ InitLoopOK' /\ NoUndoBooked' /\ ready' = ready
      /\ \A x \in Session : op'[x] = (IF x = s THEN "ok" ELSE op[x])
      /\ \A x \in Session : x # s => num'[x] = num[x]
  BY <1>1, ApplyFacts DEF Semops
<1>4. /\ Cardinality(holders[k] \ {s}) = Cardinality(holders[k]) - 1
      /\ Cardinality(holders[k]) \in Nat
      /\ IsFiniteSet(holders[k] \ {s})
  BY <1>2, FS_RemoveElement, FS_CardinalityType
<1>5. Ledger'
  <2>1. semval[k] \in Int /\ semval[k] + Cardinality(holders[k]) = InitValue(k)
    BY <1>1, <1>2 DEF Ledger, TypeOK
  <2>2. semval'[k] + Cardinality(holders'[k]) = InitValue(k)
    BY <1>1, <1>3, <1>4, <2>1 DEF TypeOK
  <2> QED
    BY <1>1, <1>2, <1>3, <2>2 DEF Ledger, TypeOK
<1>6. InFlightOK'
  <2>1. ASSUME NEW x \in Session, x # s, NEW i \in Idx
        PROVE  x \in holders'[i] <=> x \in holders[i]
    BY <1>1, <2>1 DEF TypeOK
  <2> QED
    BY <1>3, <2>1 DEF InFlightOK
<1>7. HoldersFinite'
  BY <1>1, <1>4 DEF HoldersFinite, TypeOK
<1> QED
  BY <1>3, <1>5, <1>6, <1>7

\* With nothing booked the end of a process leaves the values alone.
LEMMA UndoStep ==
  ASSUME LockInv, NEW s \in Session, Undo(s)
  PROVE  Ledger' /\ InFlightOK' /\ InitLoopOK' /\ NoUndoBooked' /\ HoldersFinite'
<1> USE DEF LockInv
<1>1. \A i \in Idx : Clamp(semval[i] + adj[s][i]) = semval[i]
  BY SysvAssumption DEF Clamp, NoUndoBooked, TypeOK
<1>2. semval' = semval
  BY <1>1 DEF Undo, TypeOK
<1>3. adj' = adj
  BY DEF Undo, NoUndoBooked, TypeOK
<1> QED
  BY <1>2, <1>3, ReturnStep DEF Undo

LEMMA LockStep ==
  LockUse /\ LockInv /\ [Next]_vars => LockInv'
<1> SUFFICES ASSUME LockUse, LockInv, [Next]_vars PROVE LockInv'
  OBVIOUS
<1> DEFINE Rest == Ledger /\ InFlightOK /\ InitLoopOK /\ NoUndoBooked
                     /\ HoldersFinite
<1>1. TypeOK'
  BY TypeStep DEF LockInv
<1>2. CASE UNCHANGED vars
  <2>1. Ledger' /\ HoldersFinite'
    BY <1>2 DEF vars, LockInv, Ledger, HoldersFinite
  <2>2. InFlightOK' /\ InitLoopOK' /\ NoUndoBooked'
    BY <1>2 DEF vars, LockInv, InFlightOK, InitLoopOK, NoUndoBooked
  <2> QED
    BY <1>1, <2>1, <2>2 DEF LockInv
<1>3. ASSUME NEW s \in Session PROVE
        (\/ \E o \in Commands, a \in Arg : Start(s, o, a)
         \/ Command(s) \/ Kill(s)) => Rest'
  <2>1. ASSUME NEW o \in Commands, NEW a \in Arg, Start(s, o, a) PROVE Rest'
    BY <2>1, StartStep
  <2>2. CASE SetVal(s)
    BY <2>2, SetValStep
  <2>3. CASE Get(s)
    BY <2>3, GetStep
  <2>4. CASE Release(s)
    BY <2>4, ReleaseStep
  <2>5. CASE WaitZero(s) \/ Fail(s)
    BY <2>5, ReturnStep DEF WaitZero, Fail
  <2>6. CASE Exit(s) \/ Kill(s)
    BY <2>6, UndoStep DEF Exit, Kill
  <2> QED
    BY <2>1, <2>2, <2>3, <2>4, <2>5, <2>6 DEF Command
<1> QED
  BY <1>1, <1>2, <1>3 DEF Next, LockInv

\* No step changes who the users are or what their build holds in sem_flg.
LEMMA FixedStep == [Next]_vars => UNCHANGED <<careful, garbage>> /\ (LockUse' <=> LockUse)
BY DEF Next, Command, Start, SetVal, Get, Release, WaitZero, Fail, Exit, Kill, Undo,
       Apply, Return, fixed, vars, LockUse

\* LockInv is what holds of the locks, so long as they are used as locks.
LockUseInv == LockUse => LockInv

LEMMA LockUseStep == LockUseInv /\ [Next]_vars => LockUseInv'
BY LockStep, FixedStep DEF LockUseInv

\* main.c:51-152: users of the locks can rely on the ledger at every moment,
\* for any number of users, semaphores and permits.
THEOREM LedgerHolds == Spec => []PermitLedger
<1>1. Init => LockUseInv
  BY LockInit DEF LockUseInv
<1>2. LockUseInv => PermitLedger
  BY DEF LockUseInv, LockInv, PermitLedger
<1> QED
  BY <1>1, <1>2, LockUseStep, PTL DEF Spec

\* wait0 is the only command that can turn "wait0" into "ok", and then the value
\* is 0: by the ledger every permit is held.
LEMMA ZeroStep ==
  ASSUME LockUseInv, [Next]_vars, NEW s \in Session,
         LockUse, op[s] = "wait0", op'[s] = "ok", ready[num[s]]
  PROVE  Cardinality(holders[num[s]]) = InitValue(num[s])
<1>1. TypeOK /\ Ledger /\ HoldersFinite
  BY DEF LockUseInv, LockInv
<1>2. ASSUME NEW x \in Session, NEW o \in Commands, NEW a \in Arg, Start(x, o, a) PROVE FALSE
  BY <1>1, <1>2 DEF Start, TypeOK, Commands, Semops
<1>3. ASSUME NEW x \in Session, SetVal(x) \/ Get(x) \/ Release(x) PROVE FALSE
  BY <1>1, <1>3 DEF SetVal, Get, Release, Apply, Return, TypeOK
<1>4. ASSUME NEW x \in Session, Fail(x) \/ Undo(x) PROVE FALSE
  BY <1>1, <1>4 DEF Fail, Undo, Return, TypeOK
<1>5. PICK x \in Session : WaitZero(x)
  BY <1>2, <1>3, <1>4 DEF Next, Command, Exit, Kill, vars
<1>6. x = s
  BY <1>1, <1>5 DEF WaitZero, Return, TypeOK
<1>7. num[s] \in Idx /\ semval[num[s]] = 0
  BY <1>5, <1>6 DEF WaitZero, Blocks
<1>8. Cardinality(holders[num[s]]) \in Nat /\ InitValue(num[s]) \in Nat
  BY <1>1, <1>7, FS_CardinalityType, InitValueType DEF HoldersFinite
<1> QED
  BY <1>1, <1>7, <1>8 DEF Ledger

\* main.c:110-117: who is told by wait0 that the semaphore is 0 can rely on every
\* permit being taken at that moment, if the set is used as locks.
THEOREM ZeroHolds == Spec => ZeroMeansTaken
<1>1. Init => LockUseInv
  BY LockInit DEF LockUseInv
<1>2. LockUseInv /\ [Next]_vars =>
        [\A s \in Session :
            LockUse /\ op[s] = "wait0" /\ op'[s] = "ok" /\ ready[num[s]]
                => Cardinality(holders[num[s]]) = InitValue(num[s])]_vars
  BY ZeroStep
<1> QED
  BY <1>1, <1>2, LockUseStep, PTL DEF Spec, ZeroMeansTaken

\* Nobody gets in beyond the initial value: the steps of the program are steps
\* of the abstract pool of permits, or leave its holders alone.
LEMMA PoolStep ==
  ASSUME LockUse, LockInv, [Next]_vars
  PROVE  Pool!Next \/ UNCHANGED holders
<1> USE DEF LockInv
<1>0. LockUse'
  BY FixedStep
<1>1. ASSUME NEW s \in Session, Get(s) PROVE Pool!Next
  <2> DEFINE k == num[s]
  <2>1. /\ k \in Idx /\ op[s] = "get" /\ semval[k] # 0
        /\ holders' = [holders EXCEPT ![k] = @ \union {s}]
    BY <1>1 DEF Get, Blocks
  <2>2. s \notin holders[k] /\ ready[k]
    BY <2>1 DEF InFlightOK, Ledger
  <2>3. Cardinality(holders[k]) \in Nat /\ semval[k] \in Nat
    BY <2>1, FS_CardinalityType DEF HoldersFinite, TypeOK
  <2>4. semval[k] + Cardinality(holders[k]) = InitValue(k)
    BY <2>1, <2>2 DEF Ledger
  <2>5. InitValue(k) \in Nat
    BY <2>3, <2>4
  <2>6. Cardinality(holders[k]) < InitValue(k)
    BY <2>1, <2>3, <2>4, <2>5
  <2>7. Pool!Cardinality(holders[k]) < [i \in Idx |-> InitValue(i)][k]
    <3>1. Pool!Cardinality(holders[k]) = Cardinality(holders[k])
      BY DEF Pool!Cardinality, Cardinality, Pool!IsFiniteSet, IsFiniteSet
    <3> QED
      BY <2>1, <2>6, <3>1
  <2>8. Pool!Acquire(s, k)
    BY <1>0, <2>1, <2>2, <2>7 DEF Pool!Acquire
  <2> QED
    BY <2>1, <2>8 DEF Pool!Next
<1>2. ASSUME NEW s \in Session, Release(s) PROVE Pool!Next
  <2>1. num[s] \in Idx /\ s \in holders[num[s]]
    BY <1>2 DEF Release, InFlightOK
  <2> QED
    BY <1>0, <1>2, <2>1 DEF Release, Pool!Release, Pool!Next
<1>3. ASSUME NEW s \in Session, NEW o \in Commands, NEW a \in Arg,
             Start(s, o, a) \/ SetVal(s) \/ WaitZero(s) \/ Fail(s) \/ Undo(s)
      PROVE  UNCHANGED holders
  BY <1>3 DEF Start, SetVal, WaitZero, Fail, Undo
<1>4. ASSUME NEW s \in Session,
             SetVal(s) \/ WaitZero(s) \/ Fail(s) \/ Exit(s) \/ Kill(s)
      PROVE  UNCHANGED holders
  BY <1>4 DEF SetVal, WaitZero, Fail, Undo, Exit, Kill
<1> QED
  BY <1>1, <1>2, <1>3, <1>4 DEF Next, Command, vars

\* The System V semaphores that are used as locks implement PermitPool.
THEOREM PoolImplemented == Spec => PoolSpec
<1> DEFINE inside == IF LockUse THEN holders ELSE [i \in Idx |-> {}]
<1>1. Init => Pool!Init /\ LockUseInv
  BY LockInit DEF Init, Pool!Init, LockUseInv
<1>2. LockUseInv /\ [Next]_vars => [Pool!Next]_inside
  <2> SUFFICES ASSUME LockUseInv, [Next]_vars PROVE Pool!Next \/ inside' = inside
    OBVIOUS
  <2>1. CASE LockUse
    <3>1. LockInv /\ LockUse'
      BY <2>1, FixedStep DEF LockUseInv
    <3> QED
      BY <2>1, <3>1, PoolStep
  <2>2. CASE ~LockUse
    BY <2>2, FixedStep
  <2> QED
    BY <2>1, <2>2
<1> QED
  BY <1>1, <1>2, LockUseStep, PTL DEF Spec, PoolSpec, Pool!Spec
-----------------------------------------------------------------------------
\* What a process has booked to undo: one semaphore at most, by one, and only
\* between the semop that succeeded and the end of the process.
Books(s, i) == adj[s][i] # 0

UndoInv ==
    \A s \in Session :
        /\ \A i \in Idx : Books(s, i) => op[s] = "ok" /\ adj[s][i] \in {-1, 1}
        /\ \A i, j \in Idx : Books(s, i) /\ Books(s, j) => i = j

\* A semop that succeeds books its own semaphore by one, on a process that has
\* booked nothing: it is in semop, so it has not returned from another.
LEMMA SemopBooks ==
  ASSUME TypeOK, UndoInv, NEW s \in Session, NEW d \in {-1, 1},
         op[s] \in Commands, num[s] \in Idx, Apply(s, d)
  PROVE  UndoInv'
<1>1. \A i \in Idx : adj[s][i] = 0
  BY DEF UndoInv, Books, Commands, Semops
<1>2. op' = [op EXCEPT ![s] = "ok"]
  BY DEF Apply, Return
<1> SUFFICES ASSUME NEW x \in Session
             PROVE  /\ \A i \in Idx : Books(x, i)' => op'[x] = "ok" /\ adj'[x][i] \in {-1, 1}
                    /\ \A i, j \in Idx : Books(x, i)' /\ Books(x, j)' => i = j
  BY DEF UndoInv
<1>3. CASE x # s
  <2>1. adj'[x] = adj[x] /\ op'[x] = op[x]
    BY <1>2, <1>3 DEF Apply, TypeOK
  <2> QED
    BY <2>1 DEF UndoInv, Books
<1>4. CASE x = s
  <2>1. op'[x] = "ok"
    BY <1>2, <1>4 DEF TypeOK
  <2>2. \A i \in Idx : i # num[s] => adj'[x][i] = 0
    BY <1>1, <1>4 DEF Apply, TypeOK
  <2>3. adj'[x][num[s]] \in {0, -d}
    BY <1>1, <1>4 DEF Apply, TypeOK
  <2> QED
    BY <2>1, <2>2, <2>3 DEF Books
<1> QED
  BY <1>3, <1>4

\* A call that returns without booking leaves the bookings of the others, and
\* of s there are none.
LEMMA NothingBooked ==
  ASSUME TypeOK, UndoInv, NEW s \in Session, op[s] \in Commands, NEW r, Return(s, r), adj' = adj
  PROVE  UndoInv'
<1>1. \A i \in Idx : adj[s][i] = 0
  BY DEF UndoInv, Books, Commands, Semops
<1>2. \A x \in Session : x # s => op'[x] = op[x]
  BY DEF Return, TypeOK
<1> SUFFICES ASSUME NEW x \in Session
             PROVE  /\ \A i \in Idx : Books(x, i)' => op'[x] = "ok" /\ adj'[x][i] \in {-1, 1}
                    /\ \A i, j \in Idx : Books(x, i)' /\ Books(x, j)' => i = j
  BY DEF UndoInv
<1>3. \A i \in Idx : Books(x, i)' = Books(x, i)
  BY DEF Books
<1> QED
  BY <1>1, <1>2, <1>3 DEF UndoInv, Books

\* No step lets a process book a second semaphore or keep a booking past its end.
LEMMA BookStep == TypeOK /\ UndoInv /\ [Next]_vars => UndoInv'
<1> SUFFICES ASSUME TypeOK, UndoInv, [Next]_vars PROVE UndoInv'
  OBVIOUS
<1>1. CASE UNCHANGED vars
  BY <1>1 DEF vars, UndoInv, Books
<1>2. ASSUME NEW s \in Session, NEW o \in Commands, NEW a \in Arg, Start(s, o, a)
      PROVE  UndoInv'
  <2>1. adj' = adj /\ op[s] = "idle" /\ \A x \in Session : x # s => op'[x] = op[x]
    BY <1>2 DEF Start, TypeOK
  <2> QED
    BY <2>1 DEF UndoInv, Books
<1>3. ASSUME NEW s \in Session, SetVal(s) PROVE UndoInv'
  <2>1. \A x \in Session, i \in Idx : adj'[x][i] \in {0, adj[x][i]}
    BY <1>3 DEF SetVal, TypeOK
  <2>2. \A i \in Idx : adj[s][i] = 0
    BY <1>3 DEF SetVal, UndoInv, Books
  <2>3. \A x \in Session : x # s => op'[x] = op[x]
    BY <1>3 DEF SetVal, Return, TypeOK
  <2> QED
    BY <2>1, <2>2, <2>3 DEF UndoInv, Books
<1>4. ASSUME NEW s \in Session, Get(s) PROVE UndoInv'
  BY <1>4, SemopBooks DEF Get, Commands, Semops
<1>5. ASSUME NEW s \in Session, Release(s) PROVE UndoInv'
  BY <1>5, SemopBooks DEF Release, Commands, Semops
<1>6. ASSUME NEW s \in Session, WaitZero(s) PROVE UndoInv'
  <2>1. op[s] \in Commands /\ Return(s, "ok") /\ adj' = adj
    BY <1>6 DEF WaitZero, Commands, Semops
  <2> QED
    BY <2>1, NothingBooked
<1>7. ASSUME NEW s \in Session, Fail(s) PROVE UndoInv'
  <2>1. op[s] \in Commands /\ Return(s, "err") /\ adj' = adj
    BY <1>7 DEF Fail, Commands
  <2> QED
    BY <2>1, NothingBooked
<1>8. ASSUME NEW s \in Session, Undo(s) PROVE UndoInv'
  <2>1. \A i \in Idx : adj'[s][i] = 0
    BY <1>8 DEF Undo, TypeOK
  <2>2. \A x \in Session : x # s => op'[x] = op[x] /\ adj'[x] = adj[x]
    BY <1>8 DEF Undo, Return, TypeOK
  <2> QED
    BY <2>1, <2>2 DEF UndoInv, Books
<1>9. ASSUME NEW s \in Session, Command(s) \/ Kill(s) PROVE UndoInv'
  BY <1>3, <1>4, <1>5, <1>6, <1>7, <1>8, <1>9 DEF Command, Exit, Kill
<1> QED
  BY <1>1, <1>2, <1>9 DEF Next

\* A set in which all elements are equal has at most one.
LEMMA AtMostOne ==
  ASSUME NEW S, \A x, y \in S : x = y
  PROVE  Cardinality(S) <= 1
<1>1. CASE S = {}
  BY <1>1, FS_EmptySet
<1>2. CASE S # {}
  <2>1. PICK x \in S : TRUE
    BY <1>2
  <2>2. S = {x}
    BY <2>1
  <2> QED
    BY <2>2, FS_Singleton
<1> QED
  BY <1>1, <1>2

LEMMA UndoInvSuffices == UndoInv => UndoIsBounded
<1> SUFFICES ASSUME UndoInv, NEW s \in Session
             PROVE  LET touched == {i \in Idx : adj[s][i] # 0} IN
                    /\ touched # {} => op[s] = "ok"
                    /\ Cardinality(touched) <= 1
                    /\ \A i \in touched : adj[s][i] \in {-1, 1}
  BY DEF UndoIsBounded
<1> DEFINE touched == {i \in Idx : adj[s][i] # 0}
<1>1. \A i, j \in touched : i = j
  BY DEF UndoInv, Books
<1>2. Cardinality(touched) <= 1
  <2> HIDE DEF touched
  <2> QED
    BY <1>1, AtMostOne
<1>3. /\ touched # {} => op[s] = "ok"
      /\ \A i \in touched : adj[s][i] \in {-1, 1}
  BY DEF UndoInv, Books
<1> QED
  BY <1>2, <1>3

\* Whatever the users do and whatever sem_flg holds, the end of a process undoes
\* one semop at most.
THEOREM UndoHolds == Spec => []UndoIsBounded
<1>1. Init => UndoInv
  BY DEF Init, UndoInv, Books
<1>2. Init => TypeOK /\ UndoInv
  BY <1>1, TypeInit
<1>3. TypeOK /\ UndoInv /\ [Next]_vars => (TypeOK /\ UndoInv)'
  BY TypeStep, BookStep
<1>4. TypeOK /\ UndoInv => UndoIsBounded
  BY UndoInvSuffices
<1> QED
  BY <1>2, <1>3, <1>4, PTL DEF Spec
=============================================================================
