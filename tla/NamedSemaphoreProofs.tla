------------------------ MODULE NamedSemaphoreProofs ------------------------
(***************************************************************************)
(* Proofs about NamedSemaphore, for any number of users and of permits.    *)
(***************************************************************************)
EXTENDS NamedSemaphore, FiniteSetTheorems, TLAPS

\* A command in flight found its session on the right side of the semaphore.
InFlightOK ==
    \A s \in Session :
        /\ op[s] \in {"wait", "trywait", "timewait", "asleep"} => s \notin holders
        /\ op[s] = "release" => s \in holders

LockInv == TypeOK /\ Ledger /\ InFlightOK /\ IsFiniteSet(holders)
-----------------------------------------------------------------------------
\* No step takes a variable out of its type, whatever the users do.
LEMMA TypeStep == TypeOK /\ [Next]_vars => TypeOK'
<1> SUFFICES ASSUME TypeOK, [Next]_vars PROVE TypeOK'
  OBVIOUS
<1> USE NamedAssumption DEF TypeOK, Running, Commands, Becomes
<1>1. CASE UNCHANGED vars
  BY <1>1 DEF vars
<1>2. ASSUME NEW s \in Session, NEW o \in Commands, Start(s, o) PROVE TypeOK'
  BY <1>2 DEF Start, Opened
<1>3. ASSUME NEW s \in Session, Take(s) PROVE TypeOK'
  BY <1>3 DEF Take, CanTake
<1>4. ASSUME NEW s \in Session, Release(s) PROVE TypeOK'
  BY <1>4 DEF Release
<1>5. ASSUME NEW s \in Session,
             Sleep(s) \/ Timeout(s) \/ Busy(s) \/ Look(s) \/ Fin(s) \/ Kill(s)
      PROVE  TypeOK'
  BY <1>5 DEF Sleep, Timeout, Busy, Look, Fin, Kill
<1> QED
  BY <1>1, <1>2, <1>3, <1>4, <1>5 DEF Next, Command

\* Before the first sem_open everything is well typed.
LEMMA TypeInit == Init => TypeOK
<1>1. 0 \in 0 .. SEM_VALUE_MAX
  BY NamedAssumption
<1> QED
  BY <1>1, Zenon DEF Init, TypeOK

\* Type correctness, for careful and careless users alike.
THEOREM TypeCorrect == Spec => []TypeOK
  BY TypeInit, TypeStep, PTL DEF Spec
-----------------------------------------------------------------------------
\* Before the first sem_open there is nothing in the semaphore and nobody inside.
LEMMA LockInit == Init => LockInv
<1> SUFFICES ASSUME Init PROVE LockInv
  OBVIOUS
<1>1. TypeOK /\ IsFiniteSet(holders)
  BY TypeInit, FS_EmptySet DEF Init
<1>2. InFlightOK
  BY DEF Init, InFlightOK
<1>3. Ledger
  BY Zenon DEF Init, Ledger
<1> QED
  BY <1>1, <1>2, <1>3 DEF LockInv

\* sem_open opens the ledger with SEM_NUM permits, or leaves it alone.
LEMMA StartStep ==
  ASSUME careful, LockInv, NEW s \in Session, NEW o \in Commands, Start(s, o)
  PROVE  Ledger' /\ InFlightOK' /\ IsFiniteSet(holders)'
<1> USE DEF LockInv
<1>1. /\ Proper(s, o) /\ exists' = TRUE /\ holders' = holders
      /\ value' = IF exists THEN value ELSE SEM_NUM
      /\ op' = [op EXCEPT ![s] = o]
  BY DEF Start, Opened, Becomes
<1>2. Ledger'
  <2>1. ~exists => SEM_NUM + Cardinality(holders) = SEM_NUM
    BY NamedAssumption, FS_EmptySet DEF Ledger
  <2> QED
    BY <1>1, <2>1 DEF Ledger
<1>3. InFlightOK'
  <2>1. /\ o \in {"wait", "trywait", "timewait"} => s \notin holders
        /\ o = "release" => s \in holders
        /\ o # "asleep"
    BY <1>1 DEF Proper, Commands
  <2> QED
    BY <1>1, <2>1 DEF InFlightOK, TypeOK
<1> QED
  BY <1>1, <1>2, <1>3

\* Only a running command takes a step, so the semaphore exists by then.
LEMMA RunningExists ==
  ASSUME LockInv, NEW s \in Session, op[s] # "idle"
  PROVE  exists /\ value \in Nat /\ value + Cardinality(holders) = SEM_NUM
  BY DEF LockInv, Ledger, TypeOK

\* A wait that succeeds moves one permit from the semaphore to its session.
LEMMA TakeStep ==
  ASSUME LockInv, NEW s \in Session, Take(s)
  PROVE  Ledger' /\ InFlightOK' /\ IsFiniteSet(holders)'
<1> USE DEF LockInv
<1>1. /\ s \notin holders /\ exists' = exists
      /\ value' = value - 1 /\ holders' = holders \union {s}
      /\ op' = [op EXCEPT ![s] = "ok"]
  BY DEF Take, Becomes, InFlightOK
<1>2. exists /\ value \in Nat /\ value + Cardinality(holders) = SEM_NUM
  BY RunningExists DEF Take
<1>3. /\ Cardinality(holders') = Cardinality(holders) + 1
      /\ Cardinality(holders) \in Nat /\ IsFiniteSet(holders')
  BY <1>1, FS_AddElement, FS_CardinalityType
<1>4. Ledger'
  BY <1>1, <1>2, <1>3 DEF Ledger
<1>5. InFlightOK'
  BY <1>1 DEF InFlightOK, TypeOK
<1> QED
  BY <1>3, <1>4, <1>5

\* A release moves it back.
LEMMA ReleaseStep ==
  ASSUME LockInv, NEW s \in Session, Release(s), value < SEM_VALUE_MAX
  PROVE  Ledger' /\ InFlightOK' /\ IsFiniteSet(holders)'
<1> USE DEF LockInv
<1>1. value \in Int
  BY DEF TypeOK
<1>2. /\ s \in holders /\ exists' = exists
      /\ value' = value + 1 /\ holders' = holders \ {s}
      /\ op' = [op EXCEPT ![s] = "ok"]
  BY <1>1, NamedAssumption DEF Release, Becomes, InFlightOK
<1>3. exists /\ value \in Nat /\ value + Cardinality(holders) = SEM_NUM
  BY RunningExists DEF Release
<1>4. /\ Cardinality(holders') = Cardinality(holders) - 1
      /\ Cardinality(holders) \in Nat /\ IsFiniteSet(holders')
  BY <1>2, FS_RemoveElement, FS_CardinalityType
<1>5. Ledger'
  BY <1>2, <1>3, <1>4 DEF Ledger
<1>6. InFlightOK'
  BY <1>2 DEF InFlightOK, TypeOK
<1> QED
  BY <1>4, <1>5, <1>6

\* Every other step only moves a session's command along.
LEMMA OtherStep ==
  ASSUME LockInv, NEW s \in Session, op[s] # "idle",
         NEW r \in {"ok", "err", "idle"} \union {"asleep"},
         r = "asleep" => op[s] = "timewait",
         Becomes(s, r), UNCHANGED <<exists, value, holders>>
  PROVE  Ledger' /\ InFlightOK' /\ IsFiniteSet(holders)'
<1>1. exists
  BY RunningExists
<1> QED
  BY <1>1 DEF LockInv, Becomes, Ledger, InFlightOK, TypeOK

LEMMA LockStep == careful /\ LockInv /\ [Next]_vars => LockInv'
<1> SUFFICES ASSUME careful, LockInv, [Next]_vars PROVE LockInv'
  OBVIOUS
<1> DEFINE Rest == Ledger /\ InFlightOK /\ IsFiniteSet(holders)
<1>1. TypeOK'
  BY TypeStep DEF LockInv
<1>2. CASE UNCHANGED vars
  BY <1>2 DEF vars, LockInv, TypeOK, Ledger, InFlightOK
<1>3. ASSUME NEW s \in Session, NEW o \in Commands, Start(s, o) PROVE Rest'
  BY <1>3, StartStep
<1>4. ASSUME NEW s \in Session, Command(s) \/ Kill(s) PROVE Rest'
  <2>1. CASE Take(s)
    BY <2>1, TakeStep
  <2>2. CASE Release(s) /\ value < SEM_VALUE_MAX
    BY <2>2, ReleaseStep
  <2>3. CASE Release(s) /\ ~(value < SEM_VALUE_MAX)
    BY <2>3, OtherStep DEF Release
  <2>4. CASE Sleep(s)
    BY <2>4, OtherStep DEF Sleep
  <2>5. CASE Timeout(s) \/ Busy(s) \/ Look(s) \/ Fin(s) \/ Kill(s)
    BY <2>5, OtherStep DEF Timeout, Busy, Look, Fin, Kill, Running, Commands
  <2> QED
    BY <1>4, <2>1, <2>2, <2>3, <2>4, <2>5 DEF Command
<1> QED
  BY <1>1, <1>2, <1>3, <1>4 DEF Next, LockInv

\* No step changes who the users are.
LEMMA CarefulStep == [Next]_vars => careful' = careful
BY DEF Next, Command, Start, Take, Sleep, Timeout, Busy, Release, Look, Fin, Kill, vars

\* LockInv is what holds of the semaphore as long as its users are careful.
CarefulInv == careful => LockInv

LEMMA CarefulInvStep == CarefulInv /\ [Next]_vars => CarefulInv'
BY LockStep, CarefulStep DEF CarefulInv

LEMMA CarefulInvInit == Init => CarefulInv
BY LockInit DEF CarefulInv

\* main.c:248-323: careful users can rely on the ledger at every moment, for
\* any number of users and permits.
THEOREM LedgerHolds == Spec => []PermitLedger
<1>1. CarefulInv => PermitLedger
  BY DEF CarefulInv, LockInv, PermitLedger
<1> QED
  BY CarefulInvInit, CarefulInvStep, <1>1, PTL DEF Spec

\* trywait answers EAGAIN only while every permit is in someone's hands.
THEOREM BusyIsHonest == Spec => BusyMeansTaken
<1>1. ASSUME LockInv, [Next]_vars, NEW s \in Session,
             op[s] = "trywait" /\ op'[s] = "err"
      PROVE  Cardinality(holders) = SEM_NUM
  <2>1. \A x \in Session : op'[x] # op[x] /\ op[x] = "trywait" /\ op'[x] = "err"
                              => Busy(x)
    <3> USE DEF Becomes
    <3>1. TypeOK
      BY <1>1 DEF LockInv
    <3>2. CASE UNCHANGED vars
      BY <3>2 DEF vars
    <3>3. ASSUME NEW x \in Session, NEW y \in Session, NEW o \in Commands,
                 Start(y, o), op[x] = "trywait"
          PROVE  op'[x] = op[x]
      BY <3>1, <3>3 DEF Start, TypeOK
    <3>4. ASSUME NEW x \in Session, NEW y \in Session, Command(y) \/ Kill(y),
                 op[x] = "trywait", op'[x] = "err"
          PROVE  Busy(x)
      BY <3>1, <3>4
      DEF Command, Take, Sleep, Timeout, Busy, Release, Look, Fin, Kill, TypeOK
    <3> QED
      BY <1>1, <3>2, <3>3, <3>4 DEF Next
  <2>2. Busy(s)
    BY <1>1, <2>1
  <2>3. exists /\ value \in Nat /\ value + Cardinality(holders) = SEM_NUM
    BY <1>1, RunningExists
  <2>4. value = 0
    BY <2>2, <2>3 DEF Busy, CanTake
  <2>5. Cardinality(holders) \in Nat
    BY <1>1, FS_CardinalityType DEF LockInv
  <2> QED
    BY <2>3, <2>4, <2>5
<1>2. CarefulInv /\ [Next]_vars =>
        [\A s \in Session :
            careful /\ op[s] = "trywait" /\ op'[s] = "err"
                => Cardinality(holders) = SEM_NUM]_vars
  BY <1>1 DEF CarefulInv
<1> QED
  BY CarefulInvInit, CarefulInvStep, <1>2, PTL DEF Spec, BusyMeansTaken
-----------------------------------------------------------------------------
\* Steps of the program are steps of the abstract pool or leave it alone.
LEMMA PoolStep ==
  ASSUME careful, LockInv, [Next]_vars
  PROVE  Pool!Next \/ UNCHANGED holders
<1> USE DEF LockInv
<1>0. careful'
  BY CarefulStep
<1>1. ASSUME NEW s \in Session, Take(s) PROVE Pool!Next
  <2>1. /\ s \notin holders /\ value > 0 /\ holders' = holders \union {s}
    BY <1>1 DEF Take, CanTake, InFlightOK
  <2>2. value \in Nat /\ value + Cardinality(holders) = SEM_NUM
    BY <1>1, RunningExists DEF Take
  <2>3. Cardinality(holders) < SEM_NUM
    BY <2>1, <2>2, NamedAssumption, FS_CardinalityType
  <2>4. Pool!Cardinality(holders) < SEM_NUM
    <3>1. Pool!Cardinality(holders) = Cardinality(holders)
      BY DEF Pool!Cardinality, Cardinality, Pool!IsFiniteSet, IsFiniteSet
    <3> QED
      BY <2>3, <3>1
  <2>5. Pool!Acquire(s, "named")
    BY <1>0, <2>1, <2>4 DEF Pool!Acquire
  <2> QED
    BY <2>5 DEF Pool!Next
<1>2. ASSUME NEW s \in Session, Release(s), value < SEM_VALUE_MAX PROVE Pool!Next
  <2>1. s \in holders /\ holders' = holders \ {s}
    BY <1>2, NamedAssumption DEF Release, InFlightOK, TypeOK
  <2>2. Pool!Release(s, "named")
    BY <1>0, <2>1 DEF Pool!Release
  <2> QED
    BY <2>2 DEF Pool!Next
<1>3. ASSUME NEW s \in Session, Release(s), ~(value < SEM_VALUE_MAX)
      PROVE  UNCHANGED holders
  BY <1>3 DEF Release
<1>4. ASSUME NEW s \in Session, NEW o \in Commands, Start(s, o)
      PROVE  UNCHANGED holders
  BY <1>4 DEF Start
<1>5. ASSUME NEW s \in Session,
             Sleep(s) \/ Timeout(s) \/ Busy(s) \/ Look(s) \/ Fin(s) \/ Kill(s)
      PROVE  UNCHANGED holders
  BY <1>5 DEF Sleep, Timeout, Busy, Look, Fin, Kill
<1> QED
  BY <1>1, <1>2, <1>3, <1>4, <1>5 DEF Next, Command, vars

\* The named semaphore of careful users implements PermitPool.
THEOREM PoolImplemented == Spec => PoolSpec
<1> DEFINE inside == [p \in {"named"} |-> IF careful THEN holders ELSE {}]
<1>1. Init => Pool!Init
  BY DEF Init, Pool!Init
<1>2. CarefulInv /\ [Next]_vars => [Pool!Next]_inside
  <2> SUFFICES ASSUME CarefulInv, [Next]_vars PROVE Pool!Next \/ inside' = inside
    OBVIOUS
  <2>1. careful' = careful
    BY CarefulStep
  <2>2. CASE careful
    <3>1. Pool!Next \/ UNCHANGED holders
      BY <2>2, PoolStep DEF CarefulInv
    <3> QED
      BY <2>1, <3>1
  <2>3. CASE ~careful
    BY <2>1, <2>3
  <2> QED
    BY <2>2, <2>3
<1> QED
  BY CarefulInvInit, CarefulInvStep, <1>1, <1>2, PTL DEF Spec, PoolSpec, Pool!Spec
=============================================================================
