--------------------------- MODULE MessagesProofs ---------------------------
(***************************************************************************)
(* Proofs about Messages: MessageQueue, NamedPipe and UnixSocket, and what *)
(* they promise together, for any senders, receivers, sizes and capacities *)
(* that satisfy QueueAssumption and MessagesAssumption.                    *)
(***************************************************************************)
EXTENDS Messages, SequenceTheorems, TLAPS

\* --- The message queue.

Mail == INSTANCE Delivery WITH sent <- Logged

\* A sender's message comes once; the queue keeps the order in which they came.
OnceEach == \A j, k \in 1 .. Len(log) : log[j] = log[k] => j = k
SameOrder ==
    \A a, b \in 1 .. Len(queue) :
        a < b => \E j, k \in 1 .. Len(log) : j < k /\ log[j] = queue[a] /\ log[k] = queue[b]

\* Who has sent or received is through.
Through ==
    /\ \A k \in 1 .. Len(log) : pc[log[k]] = "done"
    /\ \A r \in Receiver : got[r] # Nothing => pc[r] = "done"

QueueInv == TypeOK /\ OnceEach /\ SameOrder /\ Through /\ NothingLost /\ TypesInOrder
-----------------------------------------------------------------------------
\* What is left of the queue when one message is taken out of it.
LEMMA WithoutIs ==
  ASSUME NEW S, queue \in Seq(S), NEW k \in 1 .. Len(queue)
  PROVE  /\ Without(k) \in Seq(S)
         /\ Len(Without(k)) = Len(queue) - 1
         /\ \A a \in 1 .. Len(queue) - 1 :
               Without(k)[a] = queue[IF a < k THEN a ELSE a + 1]
<1> DEFINE front == SubSeq(queue, 1, k - 1)
           back == SubSeq(queue, k + 1, Len(queue))
<1>1. Len(queue) \in Nat /\ k \in Int /\ 1 <= k /\ k <= Len(queue)
      /\ \A i \in 1 .. Len(queue) : queue[i] \in S
  BY LenProperties, ElementOfSeq
<1>2. /\ front \in Seq(S) /\ Len(front) = k - 1
      /\ \A i \in 1 .. k - 1 : front[i] = queue[i]
  <2>1. \A i \in 1 .. k - 1 : queue[i] \in S
    BY <1>1
  <2>2. /\ front \in Seq(S) /\ Len(front) = IF 1 <= k - 1 THEN (k - 1) - 1 + 1 ELSE 0
        /\ \A i \in 1 .. (k - 1) - 1 + 1 : front[i] = queue[1 + i - 1]
    BY <1>1, <2>1, SubSeqProperties
  <2> QED
    BY <1>1, <2>2
<1>3. /\ back \in Seq(S) /\ Len(back) = Len(queue) - k
      /\ \A i \in 1 .. Len(queue) - k : back[i] = queue[k + i]
  <2>1. \A i \in k + 1 .. Len(queue) : queue[i] \in S
    BY <1>1
  <2>2. /\ back \in Seq(S)
        /\ Len(back) = IF k + 1 <= Len(queue) THEN Len(queue) - (k + 1) + 1 ELSE 0
        /\ \A i \in 1 .. Len(queue) - (k + 1) + 1 : back[i] = queue[(k + 1) + i - 1]
    BY <1>1, <2>1, SubSeqProperties
  <2> QED
    BY <1>1, <2>2
<1>5. Without(k) = front \o back
  BY DEF Without, RemoveAt
<1> HIDE DEF front, back
<1>4. /\ front \o back \in Seq(S)
      /\ Len(front \o back) = Len(queue) - 1
      /\ \A i \in 1 .. Len(queue) - 1 :
            (front \o back)[i] = IF i <= k - 1 THEN front[i] ELSE back[i - (k - 1)]
  <2>1. /\ front \o back \in Seq(S)
        /\ Len(front \o back) = Len(front) + Len(back)
        /\ \A i \in 1 .. Len(front) + Len(back) :
              (front \o back)[i] = IF i <= Len(front) THEN front[i] ELSE back[i - Len(front)]
    BY <1>2, <1>3, ConcatProperties
  <2>2. Len(front) = k - 1 /\ Len(front) + Len(back) = Len(queue) - 1
    BY <1>1, <1>2, <1>3
  <2> QED
    BY <2>1, <2>2
<1>6. ASSUME NEW a \in 1 .. Len(queue) - 1
      PROVE  Without(k)[a] = queue[IF a < k THEN a ELSE a + 1]
  <2>1. CASE a < k
    BY <1>1, <1>2, <1>4, <1>5, <2>1
  <2>2. CASE ~(a < k)
    <3>1. a - (k - 1) \in 1 .. Len(queue) - k /\ k + (a - (k - 1)) = a + 1
      BY <1>1, <2>2
    <3>2. (front \o back)[a] = back[a - (k - 1)]
      BY <1>1, <1>4, <2>2
    <3> QED
      BY <1>3, <1>5, <2>2, <3>1, <3>2
  <2> QED
    BY <2>1, <2>2
<1> QED
  BY <1>1, <1>4, <1>5, <1>6

\* No step takes a variable out of its type.
LEMMA TypeStep ==
  ASSUME TypeOK, [Next]_vars
  PROVE  TypeOK'
<1> USE QueueAssumption DEF Process
<1>0. Len(queue) \in Nat
  BY LenProperties DEF TypeOK
<1>1. CASE UNCHANGED vars
  BY <1>1 DEF vars, TypeOK
<1>2. ASSUME NEW s \in Sender, Put(s) PROVE TypeOK'
  <2>1. queue' \in Seq(Sender) /\ Len(queue') = Len(queue) + 1 /\ log' \in Seq(Sender)
    BY <1>2 DEF Put, TypeOK
  <2>2. Len(queue') <= Capacity
    BY <1>0, <1>2, <2>1 DEF Put, Room
  <2> QED
    BY <1>2, <2>1, <2>2 DEF Put, GoTo, TypeOK
<1>3. ASSUME NEW r \in Receiver, Take(r) PROVE TypeOK'
  <2>1. PICK k \in 1 .. Len(queue) : got' = [got EXCEPT ![r] = queue[k]] /\ queue' = Without(k)
    BY <1>3 DEF Take
  <2>2. queue[k] \in Sender /\ queue' \in Seq(Sender) /\ Len(queue') = Len(queue) - 1
    BY <2>1, WithoutIs, ElementOfSeq DEF TypeOK
  <2>3. Len(queue') <= Capacity
    BY <1>0, <2>2 DEF TypeOK
  <2> QED
    BY <1>3, <2>1, <2>2, <2>3 DEF Take, GoTo, TypeOK
<1>4. ASSUME NEW p \in Process, NEW t \in Mtype, Open(p, t) PROVE TypeOK'
  BY <1>4 DEF Open, GoTo, TypeOK
<1>5. ASSUME NEW p \in Process, PutFails(p) \/ OpenFails(p) \/ Kill(p) PROVE TypeOK'
  BY <1>5 DEF PutFails, OpenFails, Kill, GoTo, TypeOK
<1> QED
  BY <1>1, <1>2, <1>3, <1>4, <1>5 DEF Next

LEMMA TypeInit ==
  ASSUME Init
  PROVE  TypeOK
<1>1. << >> \in Seq(Sender) /\ Len(<< >>) = 0 /\ 0 <= Capacity
  BY EmptySeq, QueueAssumption
<1> QED
  BY <1>1, QueueAssumption DEF Init, TypeOK

-----------------------------------------------------------------------------
\* No message is twice in the queue.
LEMMA QueueDistinct ==
  ASSUME QueueInv, NEW a \in 1 .. Len(queue), NEW b \in 1 .. Len(queue), queue[a] = queue[b]
  PROVE  a = b
<1>1. Len(log) \in Nat /\ Len(queue) \in Nat
  BY LenProperties DEF QueueInv, TypeOK
<1>2. ASSUME NEW x \in 1 .. Len(queue), NEW y \in 1 .. Len(queue), queue[x] = queue[y], x < y
      PROVE  FALSE
  BY <1>1, <1>2 DEF QueueInv, SameOrder, OnceEach
<1> QED
  BY <1>1, <1>2

\* What SameOrder asks of a queue and a log of known lengths.
LEMMA OrderOf ==
  ASSUME NEW n, NEW m, Len(queue') = n, Len(log') = m,
         \A a, b \in 1 .. n :
             a < b => \E j, k \in 1 .. m : j < k /\ log'[j] = queue'[a] /\ log'[k] = queue'[b]
  PROVE  SameOrder'
  BY DEF SameOrder

\* It does not change with the rest of the state.
LEMMA OrderStays == ASSUME SameOrder, queue' = queue, log' = log PROVE SameOrder'
  BY DEF SameOrder

\* A message that is sent goes to the end of the queue and of the log.
LEMMA PutStep ==
  ASSUME QueueInv, NEW s \in Sender, Put(s)
  PROVE  QueueInv'
<1> USE QueueAssumption DEF Process
<1>1. TypeOK'
  BY TypeStep DEF QueueInv, Next
<1> DEFINE n == Len(queue)   m == Len(log)
<1>2. /\ pc[s] = "call" /\ n \in Nat /\ m \in Nat
      /\ UNCHANGED <<kind, mtype, got>>
      /\ pc' = [pc EXCEPT ![s] = "done"]
  BY LenProperties DEF Put, GoTo, QueueInv, TypeOK
<1>3. /\ Len(queue') = n + 1 /\ queue'[n + 1] = s
      /\ \A a \in 1 .. n : queue'[a] = queue[a]
      /\ Len(log') = m + 1 /\ log'[m + 1] = s
      /\ \A k \in 1 .. m : log'[k] = log[k]
  BY DEF Put, QueueInv, TypeOK
<1>4. \A k \in 1 .. m : log[k] # s
  BY <1>2 DEF QueueInv, Through
<1>5. OnceEach'
  BY <1>2, <1>3, <1>4 DEF QueueInv, OnceEach
<1>6. ToSet(queue)' = ToSet(queue) \union {s} /\ Logged' = Logged \union {s} /\ s \notin Logged
  <2>1. DOMAIN queue = 1 .. n /\ DOMAIN queue' = 1 .. n + 1
        /\ DOMAIN log = 1 .. m /\ DOMAIN log' = 1 .. m + 1
    BY <1>1, <1>3, LenProperties DEF QueueInv, TypeOK
  <2> QED
    BY <1>2, <1>3, <1>4, <2>1 DEF ToSet, Logged
<1>7. Received' = Received
  BY <1>2 DEF Received
<1>8. NothingLost'
  BY <1>6, <1>7 DEF QueueInv, NothingLost
<1>9. SameOrder'
  <2> SUFFICES ASSUME NEW a \in 1 .. n + 1, NEW b \in 1 .. n + 1, a < b
               PROVE  \E j, k \in 1 .. m + 1 :
                        j < k /\ log'[j] = queue'[a] /\ log'[k] = queue'[b]
    BY <1>3, OrderOf
  <2>1. a \in 1 .. n
    BY <1>2
  <2>2. CASE b \in 1 .. n
    <3>1. PICK j \in 1 .. m, k \in 1 .. m : j < k /\ log[j] = queue[a] /\ log[k] = queue[b]
      BY <2>1, <2>2 DEF QueueInv, SameOrder
    <3> QED
      BY <1>2, <1>3, <2>1, <2>2, <3>1
  <2>3. CASE b = n + 1
    <3>1. queue[a] \in Logged
      BY <2>1, LenProperties DEF QueueInv, NothingLost, ToSet, TypeOK
    <3>2. PICK j \in 1 .. m : log[j] = queue[a]
      BY <3>1, LenProperties DEF Logged, ToSet, QueueInv, TypeOK
    <3> QED
      BY <1>2, <1>3, <2>1, <2>3, <3>2
  <2> QED
    BY <1>2, <2>2, <2>3
<1>10. Through'
  BY <1>2, <1>3 DEF QueueInv, Through, TypeOK
<1>11. TypesInOrder'
  <2> SUFFICES ASSUME NEW j \in 1 .. m + 1, NEW k \in 1 .. m + 1, j < k,
                      kind = "posix" \/ mtype[log'[j]] = mtype[log'[k]],
                      log'[k] \in Received
               PROVE  log'[j] \in Received
    BY <1>2, <1>3, <1>7 DEF TypesInOrder
  <2>1. s \notin Received
    BY <1>6 DEF QueueInv, NothingLost
  <2>2. j \in 1 .. m /\ k \in 1 .. m
    BY <1>2, <1>3, <2>1
  <2> QED
    BY <1>3, <2>2 DEF QueueInv, TypesInOrder
<1> QED
  BY <1>1, <1>5, <1>8, <1>9, <1>10, <1>11 DEF QueueInv

\* The message that is received is the oldest of its type.
LEMMA TakeStep ==
  ASSUME QueueInv, NEW r \in Receiver, Take(r)
  PROVE  QueueInv'
<1> USE QueueAssumption DEF Process
<1>1. TypeOK'
  BY TypeStep DEF QueueInv, Next
<1> DEFINE n == Len(queue)   m == Len(log)
<1>2. PICK q \in 1 .. n : /\ Takes(mtype[r], q)
                          /\ got' = [got EXCEPT ![r] = queue[q]] /\ queue' = Without(q)
  BY DEF Take
<1>3. /\ pc[r] = "call" /\ n \in Nat /\ m \in Nat
      /\ UNCHANGED <<kind, mtype, log>>
      /\ pc' = [pc EXCEPT ![r] = "done"]
  BY LenProperties DEF Take, GoTo, QueueInv, TypeOK
<1>4. /\ Len(queue') = n - 1
      /\ \A a \in 1 .. n - 1 : queue'[a] = queue[IF a < q THEN a ELSE a + 1]
  BY <1>2, WithoutIs DEF QueueInv, TypeOK
<1>5. got[r] = Nothing /\ queue[q] \in Sender
  BY <1>3, ElementOfSeq DEF QueueInv, Through, TypeOK
<1>6. Received' = Received \union {queue[q]}
  BY <1>2, <1>5 DEF Received, QueueInv, TypeOK
<1>7. DOMAIN queue = 1 .. n /\ DOMAIN queue' = 1 .. n - 1
  BY <1>1, <1>4, LenProperties DEF QueueInv, TypeOK
<1>8. ToSet(queue)' = ToSet(queue) \ {queue[q]}
  <2>1. ASSUME NEW a \in 1 .. n - 1
        PROVE  queue'[a] \in ToSet(queue) /\ queue'[a] # queue[q]
    <3>1. (IF a < q THEN a ELSE a + 1) \in 1 .. n /\ (IF a < q THEN a ELSE a + 1) # q
      BY <1>3
    <3> QED
      BY <1>4, <1>7, <3>1, QueueDistinct DEF ToSet
  <2>2. ASSUME NEW a \in 1 .. n, a # q PROVE \E b \in 1 .. n - 1 : queue'[b] = queue[a]
    <3>1. CASE a < q
      <4>1. a \in 1 .. n - 1
        BY <1>3, <3>1
      <4> QED
        BY <1>4, <3>1, <4>1
    <3>2. CASE q < a
      <4>1. a - 1 \in 1 .. n - 1 /\ ~(a - 1 < q) /\ (a - 1) + 1 = a
        BY <1>3, <3>2
      <4> QED
        BY <1>4, <4>1
    <3> QED
      BY <1>3, <2>2, <3>1, <3>2
  <2>3. \A v : v \in ToSet(queue) <=> \E a \in 1 .. n : queue[a] = v
    BY <1>7 DEF ToSet
  <2>4. \A v : v \in ToSet(queue)' <=> \E b \in 1 .. n - 1 : queue'[b] = v
    BY <1>7 DEF ToSet
  <2>5. \A v : v \in ToSet(queue)' <=> v \in ToSet(queue) /\ v # queue[q]
    BY <2>1, <2>2, <2>3, <2>4
  <2> QED
    BY <2>5
<1>9. queue[q] \in ToSet(queue) /\ Logged' = Logged
  BY <1>3, <1>7 DEF ToSet, Logged
<1>10. NothingLost'
  BY <1>6, <1>8, <1>9 DEF QueueInv, NothingLost
<1>11. SameOrder'
  <2>1. ASSUME NEW a \in 1 .. n - 1, NEW b \in 1 .. n - 1, a < b
        PROVE  \E j, k \in 1 .. m : j < k /\ log[j] = queue'[a] /\ log[k] = queue'[b]
    <3> DEFINE x == IF a < q THEN a ELSE a + 1
               y == IF b < q THEN b ELSE b + 1
    <3>1. x \in 1 .. n /\ y \in 1 .. n /\ x < y
      BY <1>3, <2>1
    <3>2. queue'[a] = queue[x] /\ queue'[b] = queue[y]
      BY <1>4
    <3> HIDE DEF x, y
    <3>3. \E j, k \in 1 .. m : j < k /\ log[j] = queue[x] /\ log[k] = queue[y]
      BY <3>1 DEF QueueInv, SameOrder
    <3> QED
      BY <3>2, <3>3
  <2>2. Len(queue') = n - 1 /\ log' = log
    BY <1>3, <1>4
  <2> HIDE DEF n, m
  <2>3. \A a, b \in 1 .. Len(queue') :
          a < b => \E j, k \in 1 .. m : j < k /\ log'[j] = queue'[a] /\ log'[k] = queue'[b]
    BY <2>1, <2>2
  <2> QED
    BY <2>2, <2>3 DEF SameOrder, m
<1>12. OnceEach'
  BY <1>3 DEF QueueInv, OnceEach
<1>13. Through'
  <2>1. \A k \in 1 .. m : log[k] \in Sender
    BY <1>3, ElementOfSeq DEF QueueInv, TypeOK
  <2> QED
    BY <1>2, <1>3, <2>1 DEF QueueInv, Through, TypeOK
<1>14. TypesInOrder'
  <2> SUFFICES ASSUME NEW j \in 1 .. m, NEW k \in 1 .. m, j < k,
                      kind = "posix" \/ mtype[log[j]] = mtype[log[k]],
                      log[k] \in Received'
               PROVE  log[j] \in Received'
    BY <1>3 DEF TypesInOrder
  <2>1. CASE log[k] \in Received
    BY <1>6, <2>1 DEF QueueInv, TypesInOrder
  <2>2. CASE log[k] = queue[q] /\ log[j] \notin Received
    <3>1. PICK a \in 1 .. n : queue[a] = log[j]
      <4>1. log[j] \in Logged
        BY LenProperties DEF Logged, ToSet, QueueInv, TypeOK
      <4> QED
        BY <1>7, <2>2, <4>1 DEF QueueInv, NothingLost, ToSet
    <3>2. a # q
      BY <1>3, <2>2, <3>1 DEF QueueInv, OnceEach
    <3>3. a < q
      <4>1. SUFFICES ASSUME q < a PROVE FALSE
        BY <1>3, <3>2
      <4>2. PICK u \in 1 .. m, v \in 1 .. m : u < v /\ log[u] = queue[q] /\ log[v] = queue[a]
        BY <4>1 DEF QueueInv, SameOrder
      <4>3. u = k /\ v = j
        BY <2>2, <3>1, <4>2 DEF QueueInv, OnceEach
      <4> QED
        BY <1>3, <4>2, <4>3
    <3>4. kind = "posix" \/ mtype[queue[a]] = mtype[queue[q]]
      BY <2>2, <3>1
    <3>5. a \in Matching(mtype[r])
      BY <1>2, <3>4 DEF Takes, Matching, Asked
    <3>6. mtype[queue[a]] \in Int /\ mtype[queue[q]] \in Int
      BY ElementOfSeq DEF QueueInv, TypeOK
    <3>7. q <= a
      BY <1>2, <3>4, <3>5, <3>6 DEF Takes
    <3> QED
      BY <1>3, <3>3, <3>7
  <2> QED
    BY <1>6, <2>1, <2>2
<1> QED
  BY <1>1, <1>10, <1>11, <1>12, <1>13, <1>14 DEF QueueInv

\* Every other step leaves the queue and those who are through alone.
LEMMA OtherStep ==
  ASSUME QueueInv, NEW p \in Process, pc[p] \in {"start", "call"},
         NEW l \in {"call", "failed"}, GoTo(p, l), TypeOK',
         \/ mtype' = mtype
         \/ \E t \in Mtype : pc[p] = "start" /\ mtype' = [mtype EXCEPT ![p] = t],
         UNCHANGED <<kind, queue, log, got>>
  PROVE  QueueInv'
<1>1. \A x \in Process : pc[x] = "done" => pc'[x] = "done" /\ mtype'[x] = mtype[x]
  BY DEF GoTo, QueueInv, TypeOK
<1>2. \A k \in 1 .. Len(log) : log[k] \in Process /\ pc[log[k]] = "done"
  BY ElementOfSeq DEF QueueInv, TypeOK, Through, Process
<1>3. Through'
  BY <1>1, <1>2 DEF QueueInv, Through, Process
<1>4. TypesInOrder'
  BY <1>1, <1>2 DEF QueueInv, TypesInOrder, Received
<1>5. OnceEach' /\ SameOrder'
  <2>1. OnceEach /\ SameOrder /\ queue' = queue /\ log' = log
    BY DEF QueueInv
  <2>2. OnceEach'
    BY <2>1 DEF OnceEach
  <2>3. SameOrder'
    BY <2>1, OrderStays
  <2> QED
    BY <2>2, <2>3
<1>6. NothingLost'
  BY DEF QueueInv, NothingLost, Received, Logged
<1> QED
  BY <1>3, <1>4, <1>5, <1>6 DEF QueueInv

LEMMA QueueStep ==
  ASSUME QueueInv, [Next]_vars
  PROVE  QueueInv'
<1>0. TypeOK'
  BY TypeStep DEF QueueInv
<1>1. CASE UNCHANGED vars
  <2>0. queue' = queue /\ log' = log /\ got' = got /\ pc' = pc
    BY <1>1 DEF vars
  <2>1. OnceEach' /\ SameOrder' /\ Through'
    BY <2>0 DEF QueueInv, OnceEach, SameOrder, Through
  <2>2. NothingLost' /\ TypesInOrder'
    BY <1>1 DEF vars, QueueInv, NothingLost, TypesInOrder, Received, Logged
  <2> QED
    BY <1>0, <2>1, <2>2 DEF QueueInv
<1>2. ASSUME NEW p \in Process, NEW t \in Mtype, Open(p, t) PROVE QueueInv'
  BY <1>0, <1>2, OtherStep DEF Open
<1>3. ASSUME NEW p \in Process, PutFails(p) \/ OpenFails(p) \/ Kill(p) PROVE QueueInv'
  BY <1>0, <1>3, OtherStep DEF PutFails, OpenFails, Kill
<1> QED
  BY <1>1, <1>2, <1>3, PutStep, TakeStep DEF Next, Process

LEMMA QueueInit ==
  ASSUME Init
  PROVE  QueueInv
<1>1. Len(<< >>) = 0 /\ ToSet(<< >>) = {}
  BY DEF ToSet
<1>2. queue = << >> /\ log = << >> /\ Received = {}
  BY DEF Init, Received
<1>3. \A k \in 1 .. Len(log) : FALSE
  BY <1>1, <1>2
<1>4. \A a \in 1 .. Len(queue) : FALSE
  BY <1>1, <1>2
<1>5. OnceEach /\ SameOrder /\ TypesInOrder /\ Through
  BY <1>3, <1>4 DEF Init, OnceEach, SameOrder, TypesInOrder, Through
<1>6. NothingLost
  BY <1>1, <1>2 DEF NothingLost, Logged
<1> QED
  BY <1>5, <1>6, TypeInit DEF QueueInv

LEMMA QueueInvariant == Spec => []QueueInv
<1>1. Init => QueueInv
  BY QueueInit
<1>2. QueueInv /\ [Next]_vars => QueueInv'
  BY QueueStep
<1> QED
  BY <1>1, <1>2, PTL DEF Spec

\* The queue delivers each message to one receiver at most, and only if sent.
LEMMA MailInit == Init => Mail!Init
<1>1. ToSet(<< >>) = {}
  BY DEF ToSet
<1> QED
  BY <1>1 DEF Init, Mail!Init, Logged

LEMMA MailStep ==
  ASSUME QueueInv, [Next]_vars
  PROVE  [Mail!Next]_<<Logged, got>>
<1>1. CASE UNCHANGED <<log, got>>
  BY <1>1 DEF Logged
<1>2. ASSUME NEW s \in Sender, Put(s) PROVE Mail!Send(s)
  <2>1. log \in Seq(Sender) /\ log' = Append(log, s) /\ pc[s] = "call" /\ got' = got
    BY <1>2 DEF Put, QueueInv, TypeOK
  <2>2. /\ Len(log) \in Nat /\ DOMAIN log = 1 .. Len(log)
        /\ DOMAIN log' = 1 .. Len(log) + 1 /\ log'[Len(log) + 1] = s
        /\ \A k \in 1 .. Len(log) : log'[k] = log[k]
    BY <2>1, LenProperties
  <2>3. Logged' = Logged \union {s} /\ s \notin Logged
    BY <2>1, <2>2 DEF Logged, ToSet, QueueInv, Through
  <2> QED
    BY <2>1, <2>3 DEF Mail!Send
<1>3. ASSUME NEW r \in Receiver, Take(r) PROVE \E s \in Sender : Mail!Receive(r, s)
  <2>1. PICK k \in 1 .. Len(queue) : got' = [got EXCEPT ![r] = queue[k]]
    BY <1>3 DEF Take
  <2>2. queue[k] \in Sender /\ queue[k] \in ToSet(queue)
    BY ElementOfSeq, LenProperties DEF ToSet, QueueInv, TypeOK
  <2>3. queue[k] \in Logged /\ \A x \in Receiver : got[x] # queue[k]
    BY <2>2, QueueAssumption DEF QueueInv, NothingLost, Received
  <2>4. got[r] = Nothing /\ Logged' = Logged
    BY <1>3 DEF Take, QueueInv, Through, Logged
  <2> QED
    BY <2>1, <2>2, <2>3, <2>4 DEF Mail!Receive
<1> QED
  BY <1>1, <1>2, <1>3 DEF Next, vars, Open, OpenFails, PutFails, Kill, Mail!Next

-----------------------------------------------------------------------------
\* --- The named pipe.
LEMMA PipeFacts == NP!PipeAssumption
  BY MessagesAssumption

NPMail == INSTANCE Delivery WITH Sender <- Client, sent <- NP!Wrote, got <- NP!Printed

Own(s) == <<s, "fifo">>
Busy(s) == ppc[s] \notin {"start", "sent", "failed"}

\* What careful senders achieve: one is busy at a time, with a fifo of its own,
\* and a message is in that fifo or with one reader, from its write on.
Turns ==
    /\ \A s, t \in Client : Busy(s) /\ Busy(t) => s = t
    /\ \A s \in Client :
        /\ ppc[s] = "mkfifo" => path = Nothing
        /\ ppc[s] = "open" => path = Own(s)
        /\ at[s] # Nothing => at[s] = Own(s)
        /\ s \in written => ppc[s] \in {"wrote", "sent", "failed"}

Letters ==
    /\ \A f \in NP!File : data[f] # << >> =>
            \E s \in written : f = Own(s) /\ data[f] = <<s>> /\ \A r \in Receiver : pgot[r] # s
    /\ \A r \in Receiver :
        /\ pgot[r] # Nothing => pgot[r] \in written
        /\ ppc[r] \in {"start", "opening", "opened"} => pgot[r] = Nothing

TakesTurns == careful => Turns /\ Letters

\* The name belongs to a sender that has made its fifo, as long as it is busy.
Named ==
    /\ path # Nothing => \E s \in Client : path = Own(s)
    /\ \A s \in Client :
        /\ path = Own(s) => ppc[s] \notin {"start", "mkfifo"}
        /\ at[s] # Nothing => path = Own(s)
        /\ ppc[s] # "failed"

\* Who sleeps in the open of a sender's fifo, and who must be there once it is open: a
\* reader, which does not leave before the message has come.
Partner(s, r) ==
    at[r] = Own(s) => /\ ppc[s] \notin {"start", "mkfifo", "opening"}
                      /\ ppc[s] = "open" => ppc[r] = "opening"

Partners ==
    \A s \in Client :
        /\ \A r \in Receiver : Partner(s, r)
        /\ ppc[s] = "opened" => \E r \in Receiver : at[r] = Own(s) /\ ppc[r] = "opened"

ComesThrough == careful => Named /\ Partners
-----------------------------------------------------------------------------
\* A process that opens, and one that closes, keeps pc and at in step.
LEMMA MeetTypes ==
  ASSUME NP!TypeOK, NEW p \in NP!Process, NEW P \in SUBSET NP!Process, path # Nothing,
         at[p] = Nothing, NP!Meet(p, P)
  PROVE  /\ ppc' \in [NP!Process -> {"start", "mkfifo", "open", "opening", "opened", "wrote",
                                 "read", "sent", "done", "failed"}]
         /\ at' \in [NP!Process -> NP!File \union {Nothing}]
         /\ \A q \in NP!Process :
               at'[q] # Nothing <=> ppc'[q] \in {"opening", "opened", "wrote", "read"}
  BY DEF NP!Meet, NP!Attached, NP!TypeOK

LEMMA LeaveTypes ==
  ASSUME NP!TypeOK, NEW p \in NP!Process, NEW l \in {"sent", "done", "failed"},
         NP!Leave(p, l)
  PROVE  /\ ppc' \in [NP!Process -> {"start", "mkfifo", "open", "opening", "opened", "wrote",
                                 "read", "sent", "done", "failed"}]
         /\ at' \in [NP!Process -> NP!File \union {Nothing}]
         /\ data' \in [NP!File -> Seq(Client)]
         /\ \A q \in NP!Process :
               at'[q] # Nothing <=> ppc'[q] \in {"opening", "opened", "wrote", "read"}
  BY DEF NP!Leave, NP!GoTo, NP!TypeOK

\* No step takes a variable out of its type, whoever overlaps with whom.
LEMMA NPTypeStep == NP!TypeOK /\ [NP!Next]_NP!vars => NP!TypeOK'
<1> SUFFICES ASSUME NP!TypeOK, [NP!Next]_NP!vars PROVE NP!TypeOK'
  OBVIOUS
<1> USE PipeFacts DEF NP!PipeAssumption, NP!Process
<1>1. CASE UNCHANGED NP!vars
  BY <1>1 DEF NP!vars, NP!TypeOK
<1>2. ASSUME NEW s \in Client, NP!SUnlink(s) \/ NP!SMkfifo(s) PROVE NP!TypeOK'
  <2>1. <<s, "fifo">> \in NP!File
    BY DEF NP!File
  <2> QED
    BY <1>2, <2>1 DEF NP!SUnlink, NP!SMkfifo, NP!GoTo, NP!TypeOK
<1>3. ASSUME NEW s \in Client, NP!SOpen(s) PROVE NP!TypeOK'
  <2>1. at[s] = Nothing
    BY <1>3 DEF NP!SOpen, NP!TypeOK
  <2>2. CASE path = Nothing
    <3>1. <<s, "regular">> \in NP!File /\ <<s, "regular">> # Nothing
      BY DEF NP!File
    <3>2. path' = <<s, "regular">> /\ at' = [at EXCEPT ![s] = <<s, "regular">>]
          /\ ppc' = [ppc EXCEPT ![s] = "opened"]
          /\ UNCHANGED <<careful, data, written, pgot>>
      BY <1>3, <2>2 DEF NP!SOpen, NP!GoTo
    <3> QED
      BY <3>1, <3>2 DEF NP!TypeOK
  <2>3. CASE path # Nothing
    <3>1. NP!Meet(s, Receiver) /\ UNCHANGED <<careful, path, data, written, pgot>>
      BY <1>3, <2>3 DEF NP!SOpen
    <3> QED
      BY <2>1, <2>3, <3>1, MeetTypes DEF NP!TypeOK
  <2> QED
    BY <2>2, <2>3
<1>4. ASSUME NEW s \in Client, NP!SWrite(s) PROVE NP!TypeOK'
  <2>1. at[s] \in NP!File
    BY <1>4 DEF NP!SWrite, NP!TypeOK
  <2>2. <<s>> \in Seq(Client) /\ Append(data[at[s]], s) \in Seq(Client)
    BY <2>1 DEF NP!TypeOK
  <2>3. data' \in [NP!File -> Seq(Client)]
    BY <1>4, <2>1, <2>2 DEF NP!SWrite, NP!TypeOK
  <2> QED
    BY <1>4, <2>3 DEF NP!SWrite, NP!GoTo, NP!TypeOK
<1>5. ASSUME NEW s \in Client, NP!SPipe(s) \/ NP!SClose(s) PROVE NP!TypeOK'
  <2>1. /\ NP!Leave(s, "failed") \/ NP!Leave(s, "sent")
        /\ UNCHANGED <<careful, path, written, pgot>>
    BY <1>5 DEF NP!SPipe, NP!SClose
  <2> QED
    BY <2>1, LeaveTypes DEF NP!TypeOK
<1>6. ASSUME NEW r \in Receiver, NP!ROpen(r) PROVE NP!TypeOK'
  <2>1. at[r] = Nothing
    BY <1>6 DEF NP!ROpen, NP!TypeOK
  <2>2. CASE path = Nothing
    BY <1>6, <2>2 DEF NP!ROpen, NP!GoTo, NP!TypeOK
  <2>3. CASE path # Nothing
    <3>1. NP!Meet(r, Client) /\ UNCHANGED <<careful, path, data, written, pgot>>
      BY <1>6, <2>3 DEF NP!ROpen
    <3> QED
      BY <2>1, <2>3, <3>1, MeetTypes DEF NP!TypeOK
  <2> QED
    BY <2>2, <2>3
<1>7. ASSUME NEW r \in Receiver, NP!RRead(r) PROVE NP!TypeOK'
  <2>1. at[r] \in NP!File
    BY <1>7 DEF NP!RRead, NP!TypeOK
  <2>2. data[at[r]] # << >> => /\ Head(data[at[r]]) \in Client
                               /\ NP!Taken(at[r]) \in Seq(Client)
    BY <2>1 DEF NP!Taken, NP!TypeOK
  <2>3. data' \in [NP!File -> Seq(Client)]
    <3>1. \/ data' = data
          \/ data[at[r]] # << >> /\ data' = [data EXCEPT ![at[r]] = NP!Taken(at[r])]
      BY <1>7 DEF NP!RRead
    <3> QED
      BY <2>1, <2>2, <3>1 DEF NP!TypeOK
  <2>4. pgot' \in [Receiver -> Client \union {Nothing}]
    <3>1. \/ pgot' = pgot
          \/ data[at[r]] # << >> /\ pgot' = [pgot EXCEPT ![r] = Head(data[at[r]])]
      BY <1>7 DEF NP!RRead
    <3> QED
      BY <2>2, <3>1 DEF NP!TypeOK
  <2> QED
    BY <1>7, <2>3, <2>4 DEF NP!RRead, NP!GoTo, NP!TypeOK
<1>8. ASSUME NEW r \in Receiver, NP!RClose(r) PROVE NP!TypeOK'
  BY <1>8, LeaveTypes DEF NP!RClose, NP!TypeOK
<1>9. ASSUME NEW p \in NP!Process, NP!Kill(p) PROVE NP!TypeOK'
  BY <1>9, LeaveTypes DEF NP!Kill, NP!TypeOK
<1> QED
  BY <1>1, <1>2, <1>3, <1>4, <1>5, <1>6, <1>7, <1>8, <1>9 DEF NP!Next, NP!Send,
         NP!Receive

LEMMA NPTypeInit == NP!Init => NP!TypeOK
  BY DEF NP!Init, NP!TypeOK

-----------------------------------------------------------------------------
\* A step of a process that only closes its file, for the careful.
LEMMA LeaveTurns ==
  ASSUME NP!TypeOK, Turns, Letters, NEW p \in NP!Process, NEW l \in {"sent", "done",
         "failed"},
         p \in Client => l # "done",
         NP!Leave(p, l), UNCHANGED <<careful, path, written, pgot>>
  PROVE  Turns' /\ Letters'
<1> USE PipeFacts DEF NP!PipeAssumption, NP!Process
<1>1. /\ at' = [at EXCEPT ![p] = Nothing] /\ ppc' = [ppc EXCEPT ![p] = l]
      /\ \A f \in NP!File : data'[f] # << >> => data'[f] = data[f]
  BY DEF NP!Leave, NP!GoTo, NP!TypeOK
<1>2. Turns'
  BY <1>1 DEF Turns, Busy, Own, NP!TypeOK
<1>3. Letters'
  BY <1>1 DEF Letters, Own, NP!TypeOK
<1> QED
  BY <1>2, <1>3

\* Opening the fifo by name, a sender gets its own, and a reader any.
LEMMA MeetTurns ==
  ASSUME NP!TypeOK, Turns, Letters, path # Nothing, NEW p \in NP!Process, NEW P,
         \/ p \in Client /\ P = Receiver /\ ppc[p] = "open"
         \/ p \in Receiver /\ P = Client /\ ppc[p] = "start",
         NP!Meet(p, P), UNCHANGED <<careful, path, data, written, pgot>>
  PROVE  Turns' /\ Letters'
<1> USE PipeFacts DEF NP!PipeAssumption, NP!Process
<1>1. /\ at' = [at EXCEPT ![p] = path]
      /\ ppc'[p] \in {"opening", "opened"}
      /\ \A q \in NP!Process \ {p} : \/ ppc'[q] = ppc[q]
                                     \/ ppc[q] = "opening" /\ ppc'[q] = "opened"
  BY DEF NP!Meet
<1>2. \A q \in Client : Busy(q)' => Busy(q)
  BY <1>1 DEF Busy
<1>3. Turns'
  <2>1. ASSUME NEW s \in Client, at'[s] # Nothing PROVE at'[s] = Own(s)
    BY <1>1, <2>1 DEF Turns, NP!TypeOK
  <2>2. ASSUME NEW s \in Client
        PROVE  /\ ppc'[s] = "mkfifo" => path = Nothing
               /\ ppc'[s] = "open" => path = Own(s)
               /\ s \in written => ppc'[s] \in {"wrote", "sent", "failed"}
    BY <1>1 DEF Turns
  <2> QED
    BY <1>2, <2>1, <2>2 DEF Turns, Own
<1>4. Letters'
  BY <1>1 DEF Letters, Own
<1> QED
  BY <1>3, <1>4

LEMMA TurnsStep == NP!TypeOK /\ TakesTurns /\ [NP!Next]_NP!vars => TakesTurns'
<1> SUFFICES ASSUME NP!TypeOK, Turns, Letters, careful, [NP!Next]_NP!vars
             PROVE  Turns' /\ Letters'
  BY DEF TakesTurns, NP!Next, NP!vars, NP!Send, NP!Receive, NP!SUnlink, NP!SMkfifo,
         NP!SOpen, NP!SWrite, NP!SPipe,
         NP!SClose, NP!ROpen, NP!RRead, NP!RClose, NP!Kill
<1> USE PipeFacts DEF NP!PipeAssumption, NP!Process
<1>1. CASE UNCHANGED NP!vars
  BY <1>1 DEF NP!vars, Turns, Letters, Busy, Own
<1>2. ASSUME NEW s \in Client, NP!SUnlink(s) PROVE Turns' /\ Letters'
  <2>1. /\ \A t \in Client : ~Busy(t)
        /\ ppc' = [ppc EXCEPT ![s] = "mkfifo"] /\ path' = Nothing
        /\ UNCHANGED <<data, at, written, pgot>> /\ ppc[s] = "start"
    BY <1>2 DEF NP!SUnlink, NP!Proper, NP!GoTo, Busy
  <2>2. Turns'
    BY <2>1 DEF Turns, Busy, Own, NP!TypeOK
  <2> QED
    BY <2>1, <2>2 DEF Letters, Own, NP!TypeOK
<1>3. ASSUME NEW s \in Client, NP!SMkfifo(s) PROVE Turns' /\ Letters'
  <2>1. /\ ppc[s] = "mkfifo" /\ path = Nothing /\ path' = Own(s)
        /\ ppc' = [ppc EXCEPT ![s] = "open"]
        /\ UNCHANGED <<data, at, written, pgot>>
    BY <1>3 DEF NP!SMkfifo, NP!GoTo, Turns, Own
  <2>2. Busy(s) /\ \A t \in Client : Busy(t)' => t = s
    BY <2>1 DEF Turns, Busy, NP!TypeOK
  <2>3. Turns'
    BY <2>1, <2>2 DEF Turns, Busy, Own, NP!TypeOK
  <2> QED
    BY <2>1, <2>3 DEF Letters, Own, NP!TypeOK
<1>4. ASSUME NEW s \in Client, NP!SOpen(s) PROVE Turns' /\ Letters'
  <2>1. ppc[s] = "open" /\ path = Own(s) /\ path # Nothing
    BY <1>4 DEF NP!SOpen, Turns, Own, NP!TypeOK
  <2> QED
    BY <1>4, <2>1, MeetTurns DEF NP!SOpen
<1>5. ASSUME NEW s \in Client, NP!SWrite(s) PROVE Turns' /\ Letters'
  <2>1. /\ ppc[s] = "opened" /\ s \notin written
        /\ at[s] = Own(s) /\ Own(s) \in NP!File /\ NP!IsFifo(Own(s))
    BY <1>5 DEF NP!SWrite, Turns, NP!TypeOK, Own, NP!File, NP!IsFifo
  <2>2. data[Own(s)] = << >>
    BY <2>1 DEF Letters, Own
  <2>3. /\ data' = [data EXCEPT ![Own(s)] = <<s>>]
        /\ written' = written \union {s}
        /\ ppc' = [ppc EXCEPT ![s] = "wrote"]
        /\ UNCHANGED <<path, at, pgot>>
    BY <1>5, <2>1, <2>2 DEF NP!SWrite, NP!GoTo
  <2>4. Turns'
    BY <2>1, <2>3 DEF Turns, Busy, Own, NP!TypeOK
  <2>5. \A r \in Receiver : pgot[r] # s
    BY <2>1 DEF Letters
  <2>6. Letters'
    BY <2>1, <2>3, <2>5 DEF Letters, Own, NP!TypeOK
  <2> QED
    BY <2>4, <2>6
<1>6. ASSUME NEW s \in Client, NP!SPipe(s) \/ NP!SClose(s) PROVE Turns' /\ Letters'
  BY <1>6, LeaveTurns DEF NP!SPipe, NP!SClose
<1>7. ASSUME NEW r \in Receiver, NP!ROpen(r) PROVE Turns' /\ Letters'
  <2>1. CASE path = Nothing
    <3>1. ppc' = [ppc EXCEPT ![r] = "failed"] /\ UNCHANGED <<path, data, at, written,
    pgot>>
      BY <1>7, <2>1 DEF NP!ROpen, NP!GoTo
    <3> QED
      BY <3>1 DEF Turns, Letters, Busy, Own, NP!TypeOK
  <2>2. CASE path # Nothing
    BY <1>7, <2>2, MeetTurns DEF NP!ROpen
  <2> QED
    BY <2>1, <2>2
<1>8. ASSUME NEW r \in Receiver, NP!RRead(r) PROVE Turns' /\ Letters'
  <2> DEFINE f == at[r]
  <2>1. /\ f \in NP!File /\ pgot[r] = Nothing
        /\ ppc' = [ppc EXCEPT ![r] = "read"] /\ UNCHANGED <<path, at, written>>
    BY <1>8 DEF NP!RRead, NP!GoTo, NP!TypeOK, Letters
  <2>2. Turns'
    BY <2>1 DEF Turns, Busy, Own, NP!TypeOK
  <2>3. CASE UNCHANGED <<data, pgot>>
    BY <2>1, <2>2, <2>3 DEF Letters, Own, NP!TypeOK
  <2>4. CASE ~UNCHANGED <<data, pgot>>
    <3>1. data[f] # << >>
      BY <1>8, <2>4 DEF NP!RRead
    <3>2. PICK s \in written : f = Own(s) /\ data[f] = <<s>> /\ \A q \in Receiver : pgot[q] # s
      BY <2>1, <3>1 DEF Letters
    <3>3. NP!Taken(f) = << >> /\ Head(data[f]) = s
      BY <3>2 DEF NP!Taken, NP!IsFifo, Own
    <3>4. pgot' = [pgot EXCEPT ![r] = s] /\ data' = [data EXCEPT ![f] = << >>]
      BY <1>8, <2>4, <3>3 DEF NP!RRead
    <3>5. \A g \in NP!File : data'[g] # << >> => g # f /\ data'[g] = data[g]
      BY <2>1, <3>4 DEF NP!TypeOK
    <3>6. \A g \in NP!File : data'[g] # << >> =>
              \E t \in written : g = Own(t) /\ data'[g] = <<t>> /\ \A q \in Receiver : pgot'[q] # t
      BY <3>2, <3>4, <3>5 DEF Letters, NP!TypeOK
    <3> QED
      BY <2>1, <2>2, <3>4, <3>6 DEF Letters, Own, NP!TypeOK
  <2> QED
    BY <2>3, <2>4
<1>9. ASSUME NEW r \in Receiver, NP!RClose(r) PROVE Turns' /\ Letters'
  BY <1>9, LeaveTurns DEF NP!RClose
<1>10. ASSUME NEW p \in NP!Process, NP!Kill(p) PROVE FALSE
  BY <1>10 DEF NP!Kill
<1> QED
  BY <1>1, <1>2, <1>3, <1>4, <1>5, <1>6, <1>7, <1>8, <1>9, <1>10 DEF NP!Next,
         NP!Send, NP!Receive

LEMMA TurnsInit == NP!Init => TakesTurns
  BY PipeFacts DEF NP!PipeAssumption, NP!Init, TakesTurns, Turns, Letters, Busy,
         NP!Process, NP!File

\* What readers do not change in Named.
LEMMA NamedStays ==
  ASSUME Named, path' = path,
         \A s \in Client : at'[s] = at[s] /\ (ppc'[s] # ppc[s] => ppc'[s] = "opened")
  PROVE  Named'
  BY DEF Named, Own

\* Who opens a fifo of which only one process can be at the other end.
LEMMA OpenComes ==
  ASSUME NP!TypeOK, Turns, Named, Partners, NEW s \in Client, NP!SOpen(s)
  PROVE  Named' /\ Partners'
<1> USE PipeFacts DEF NP!PipeAssumption, NP!Process
<1>1. /\ ppc[s] = "open" /\ path = Own(s) /\ path # Nothing /\ NP!IsFifo(path)
      /\ NP!Meet(s, Receiver) /\ path' = path
  BY DEF NP!SOpen, Turns, Own, NP!TypeOK, NP!IsFifo
<1>2. \A t \in Client : Own(t) = Own(s) => t = s
  BY DEF Own
<1>3. \A q \in NP!Process : at'[q] = IF q = s THEN Own(s) ELSE at[q]
  BY <1>1 DEF NP!Meet, NP!TypeOK
<1>4. \A r \in Receiver : at[r] = Own(s) => ppc[r] = "opening" /\ r \in NP!Attached(path, Receiver)
  BY <1>1 DEF Partners, Partner, NP!Attached
<1>5. \A r \in Receiver : ppc'[r] = IF at[r] = Own(s) THEN "opened" ELSE ppc[r]
  BY <1>1, <1>4 DEF NP!Meet, NP!Attached
<1>6. /\ ppc'[s] = IF \E r \in Receiver : at[r] = Own(s) THEN "opened" ELSE "opening"
      /\ \A t \in Client : t # s => ppc'[t] = ppc[t]
  BY <1>1 DEF NP!Meet, NP!Attached
<1>7. Named'
  <2>1. ASSUME NEW t \in Client, t # s PROVE at'[t] = at[t] /\ ppc'[t] = ppc[t]
    BY <1>3, <1>6, <2>1
  <2>2. at'[s] = Own(s) /\ ppc'[s] \in {"opened", "opening"}
    BY <1>3, <1>6
  <2> QED
    BY <1>1, <1>2, <2>1, <2>2 DEF Named, Own
<1>8. ASSUME NEW t \in Client, NEW r \in Receiver PROVE Partner(t, r)'
  <2>1. at'[r] = at[r]
    BY <1>3
  <2>2. CASE t = s
    <3>1. at[r] = Own(s) => ppc'[s] = "opened"
      BY <1>6
    <3> QED
      BY <2>1, <2>2, <3>1 DEF Partner, Own
  <2>3. CASE t # s
    <3>1. ppc'[t] = ppc[t] /\ (at[r] = Own(t) => ppc'[r] = ppc[r])
      BY <1>2, <1>5, <1>6, <2>3
    <3>2. Partner(t, r)
      BY DEF Partners
    <3> QED
      BY <2>1, <3>1, <3>2 DEF Partner, Own
  <2> QED
    BY <2>2, <2>3
<1>9. ASSUME NEW t \in Client, ppc'[t] = "opened"
      PROVE  \E r \in Receiver : at'[r] = Own(t) /\ ppc'[r] = "opened"
  <2>1. CASE t = s
    <3>1. PICK r \in Receiver : at[r] = Own(s)
      BY <1>6, <1>9, <2>1
    <3> QED
      BY <1>3, <1>5, <2>1, <3>1
  <2>2. CASE t # s
    <3>1. PICK r \in Receiver : at[r] = Own(t) /\ ppc[r] = "opened"
      BY <1>6, <1>9, <2>2 DEF Partners
    <3> QED
      BY <1>2, <1>3, <1>5, <2>2, <3>1
  <2> QED
    BY <2>1, <2>2
<1> QED
  BY <1>7, <1>8, <1>9 DEF Partners, Own

\* A reader finds the fifo of a sender that sleeps there, or sleeps itself.
LEMMA ReaderComes ==
  ASSUME NP!TypeOK, Turns, Named, Partners, NEW r \in Receiver, NP!ROpen(r), path # Nothing
  PROVE  Named' /\ Partners'
<1> USE PipeFacts DEF NP!PipeAssumption, NP!Process
<1>1. NP!Meet(r, Client) /\ path' = path /\ ppc[r] = "start" /\ at[r] = Nothing
  BY DEF NP!ROpen, NP!TypeOK
<1>s. PICK s \in Client : path = Own(s)
  BY DEF Named
<1>2. path = Own(s) /\ ppc[s] \notin {"start", "mkfifo"}
  BY <1>s DEF Named
<1>3. /\ \A t \in Client : (Own(t) = Own(s) => t = s) /\ (at[t] = Own(s) => t = s)
      /\ NP!IsFifo(path)
  BY <1>2 DEF Turns, Own, NP!IsFifo
<1>4. \A q \in NP!Process : at'[q] = IF q = r THEN Own(s) ELSE at[q]
  BY <1>1, <1>2 DEF NP!Meet, NP!TypeOK
<1>5. /\ \A q \in Receiver : q # r => ppc'[q] = ppc[q]
      /\ \A t \in Client : t # s => ppc'[t] = ppc[t]
      /\ ppc'[s] = IF at[s] = Own(s) /\ ppc[s] = "opening" THEN "opened" ELSE ppc[s]
      /\ ppc'[r] = IF at[s] = Own(s) THEN "opened" ELSE "opening"
  <2>1. NP!Attached(path, Client) = IF at[s] = Own(s) THEN {s} ELSE {}
    BY <1>2, <1>3 DEF NP!Attached
  <2>2. NP!Attached(path, Client) \intersect Receiver = {}
    BY <2>1
  <2> QED
    BY <1>1, <1>3, <2>1, <2>2 DEF NP!Meet
<1>6. Named'
  <2>1. \A t \in Client : at'[t] = at[t] /\ (ppc'[t] # ppc[t] => ppc'[t] = "opened")
    BY <1>4, <1>5
  <2> QED
    BY <1>1, <2>1, NamedStays
\* Where s is: it has the fifo open, it is about to open it, or it is done.
<1>7. at[s] = Own(s) <=> ppc[s] \in {"opening", "opened", "wrote", "read"}
  <2>1. at[s] # Nothing <=> ppc[s] \in {"opening", "opened", "wrote", "read"}
    BY DEF NP!TypeOK
  <2>2. Own(s) # Nothing
    BY <1>1, <1>2
  <2> QED
    BY <2>1, <2>2 DEF Turns
<1>8. ASSUME NEW t \in Client, NEW q \in Receiver PROVE Partner(t, q)'
  <2>0. Partner(t, q)
    BY DEF Partners
  <2>1. CASE q = r /\ t = s
    BY <1>2, <1>5, <1>7, <2>1 DEF Partner, Own
  <2>2. CASE q = r /\ t # s
    BY <1>3, <1>4, <2>2 DEF Partner, Own
  <2>3. CASE q # r
    BY <1>4, <1>5, <2>0, <2>3 DEF Partner, Own
  <2> QED
    BY <2>1, <2>2, <2>3
<1>9. ASSUME NEW t \in Client, ppc'[t] = "opened"
      PROVE  \E q \in Receiver : at'[q] = Own(t) /\ ppc'[q] = "opened"
  <2>1. CASE t = s
    <3>1. ppc'[s] = "opened" => at[s] = Own(s)
      BY <1>5, <1>7
    <3> QED
      BY <1>4, <1>5, <1>9, <2>1, <3>1
  <2>2. CASE t # s
    <3>1. PICK q \in Receiver : at[q] = Own(t) /\ ppc[q] = "opened"
      BY <1>5, <1>9, <2>2 DEF Partners
    <3> QED
      BY <1>1, <1>4, <1>5, <3>1
  <2> QED
    BY <2>1, <2>2
<1> QED
  BY <1>6, <1>8, <1>9 DEF Partners, Own

\* A reader that has the fifo of a sender that is about to write waits for the message.
LEMMA PartnerReads ==
  ASSUME NP!TypeOK, Turns, Letters, Named, Partners, NEW r \in Receiver, NP!RRead(r)
  PROVE  Named' /\ Partners'
<1> USE PipeFacts DEF NP!PipeAssumption, NP!Process
<1>1. /\ ppc[r] = "opened" /\ ppc' = [ppc EXCEPT ![r] = "read"] /\ UNCHANGED <<path, at>>
      /\ NP!AtEnd(at[r]) \/ data[at[r]] # << >>
  BY DEF NP!RRead, NP!GoTo
<1>2. ASSUME NEW s \in Client, ppc[s] = "opened", at[r] = Own(s) PROVE FALSE
  <2>1. at[s] = Own(s) /\ NP!IsFifo(Own(s)) /\ Own(s) \in NP!File /\ s \notin written
    BY <1>2 DEF Turns, NP!TypeOK, Own, NP!IsFifo, NP!File
  <2>2. data[Own(s)] = << >>
    BY <2>1 DEF Letters, Own
  <2>3. s \in NP!Attached(Own(s), Client)
    BY <2>1 DEF NP!Attached
  <2> QED
    BY <1>1, <1>2, <2>1, <2>2, <2>3 DEF NP!AtEnd
<1>3. /\ \A q \in Receiver : q # r => ppc'[q] = ppc[q]
      /\ \A s \in Client : ppc'[s] = ppc[s]
      /\ ppc'[r] = "read"
  BY <1>1 DEF NP!TypeOK
<1>4. Named'
  BY <1>1, <1>3, NamedStays
<1>5. ASSUME NEW s \in Client, NEW q \in Receiver PROVE Partner(s, q)'
  <2>1. Partner(s, q)
    BY DEF Partners
  <2> QED
    BY <1>1, <1>3, <2>1 DEF Partner, Own
<1>6. ASSUME NEW s \in Client, ppc'[s] = "opened"
      PROVE  \E q \in Receiver : at'[q] = Own(s) /\ ppc'[q] = "opened"
  <2>1. PICK q \in Receiver : at[q] = Own(s) /\ ppc[q] = "opened"
    BY <1>3, <1>6 DEF Partners
  <2> QED
    BY <1>1, <1>2, <1>3, <1>6, <2>1
<1> QED
  BY <1>4, <1>5, <1>6 DEF Partners, Own

LEMMA ThroughStep ==
  NP!TypeOK /\ TakesTurns /\ ComesThrough /\ [NP!Next]_NP!vars => ComesThrough'
<1> SUFFICES ASSUME NP!TypeOK, Turns, Letters, Named, Partners, careful, [NP!Next]_NP!vars
             PROVE  Named' /\ Partners'
  BY DEF TakesTurns, ComesThrough, NP!Next, NP!vars, NP!Send, NP!Receive, NP!SUnlink,
         NP!SMkfifo, NP!SOpen, NP!SWrite, NP!SPipe,
         NP!SClose, NP!ROpen, NP!RRead, NP!RClose, NP!Kill
<1> USE PipeFacts DEF NP!PipeAssumption, NP!Process
<1>1. CASE UNCHANGED NP!vars
  BY <1>1 DEF NP!vars, Named, Partners, Partner, Own
\* All others are done, so that nobody else has a file open.
<1>2. ASSUME NEW s \in Client, NP!SUnlink(s) PROVE Named' /\ Partners'
  <2>1. /\ \A t \in Client : ppc[t] \in {"start", "sent", "failed"}
        /\ ppc' = [ppc EXCEPT ![s] = "mkfifo"] /\ path' = Nothing /\ at' = at
        /\ ppc[s] = "start"
    BY <1>2 DEF NP!SUnlink, NP!Proper, NP!GoTo
  <2>2. \A t \in Client : at[t] = Nothing /\ Own(t) # Nothing
    BY <2>1 DEF NP!TypeOK, Own
  <2>3. Named'
    BY <2>1, <2>2 DEF Named, Own, NP!TypeOK
  <2> QED
    BY <2>1, <2>3 DEF Partners, Partner, Own, NP!TypeOK
<1>3. ASSUME NEW s \in Client, NP!SMkfifo(s) PROVE Named' /\ Partners'
  <2>1. /\ ppc[s] = "mkfifo" /\ path = Nothing /\ path' = Own(s)
        /\ ppc' = [ppc EXCEPT ![s] = "open"] /\ at' = at /\ at[s] = Nothing
    BY <1>3 DEF NP!SMkfifo, NP!GoTo, Turns, Own, NP!TypeOK
  <2>2. \A t \in Client : t # s => ppc'[t] = ppc[t] /\ Own(t) # Own(s)
    BY <2>1 DEF NP!TypeOK, Own
  <2>3. \A t \in Client : at[t] = Nothing
    BY <2>1 DEF Named, Own
  <2>4. Named'
    BY <2>1, <2>2, <2>3 DEF Named, Own, NP!TypeOK
  <2>5. \A r \in Receiver : at[r] # Own(s) /\ ppc'[r] = ppc[r]
    BY <2>1 DEF Partners, Partner, NP!TypeOK
  <2>6. ppc'[s] = "open"
    BY <2>1 DEF NP!TypeOK
  <2> QED
    BY <2>1, <2>2, <2>4, <2>5, <2>6 DEF Partners, Partner, Own
<1>4. ASSUME NEW s \in Client, NP!SOpen(s) PROVE Named' /\ Partners'
  BY <1>4, OpenComes
<1>5. ASSUME NEW s \in Client, NP!SWrite(s) PROVE Named' /\ Partners'
  <2>1. ppc[s] = "opened" /\ ppc' = [ppc EXCEPT ![s] = "wrote"] /\ UNCHANGED <<path, at>>
    BY <1>5 DEF NP!SWrite, NP!GoTo
  <2> QED
    BY <2>1 DEF Named, Partners, Partner, Own, NP!TypeOK
\* Nobody gets SIGPIPE.
<1>6. ASSUME NEW s \in Client, NP!SPipe(s) PROVE FALSE
  <2>1. ppc[s] = "opened" /\ at[s] = Own(s) /\ NP!Attached(at[s], Receiver) = {}
    BY <1>6 DEF NP!SPipe, NP!TypeOK, Turns
  <2> QED
    BY <2>1 DEF Partners, NP!Attached
<1>7. ASSUME NEW p \in NP!Process, NP!SClose(p) \/ NP!RClose(p)
      PROVE  Named' /\ Partners'
  <2>1. /\ at' = [at EXCEPT ![p] = Nothing] /\ path' = path
        /\ ppc[p] \in {"wrote", "read"}
        /\ ppc' = [ppc EXCEPT ![p] = "sent"] \/ ppc' = [ppc EXCEPT ![p] = "done"]
    BY <1>7 DEF NP!SClose, NP!RClose, NP!Leave, NP!GoTo
  <2>2. Named'
    BY <2>1 DEF Named, Own, NP!TypeOK
  <2>3. /\ \A q \in NP!Process : at'[q] = IF q = p THEN Nothing ELSE at[q]
        /\ \A q \in NP!Process : q # p => ppc'[q] = ppc[q]
        /\ ppc'[p] \in {"sent", "done"}
    BY <2>1 DEF NP!TypeOK
  <2>4. ASSUME NEW s \in Client, NEW r \in Receiver PROVE Partner(s, r)'
    <3>1. Partner(s, r) /\ Own(s) # Nothing
      BY DEF Partners, Own
    <3> QED
      BY <2>3, <3>1 DEF Partner, Own
  <2>5. ASSUME NEW s \in Client, ppc'[s] = "opened"
        PROVE  \E r \in Receiver : at'[r] = Own(s) /\ ppc'[r] = "opened"
    <3>1. PICK r \in Receiver : at[r] = Own(s) /\ ppc[r] = "opened"
      BY <2>3, <2>5 DEF Partners
    <3> QED
      BY <2>1, <2>3, <3>1
  <2> QED
    BY <2>2, <2>4, <2>5 DEF Partners, Own
<1>8. ASSUME NEW r \in Receiver, NP!ROpen(r) PROVE Named' /\ Partners'
  <2>1. CASE path = Nothing
    <3>1. ppc[r] = "start" /\ ppc' = [ppc EXCEPT ![r] = "failed"] /\ UNCHANGED <<path, at>>
      BY <1>8, <2>1 DEF NP!ROpen, NP!GoTo
    <3>2. at[r] = Nothing
      BY <3>1 DEF NP!TypeOK
    <3> QED
      BY <3>1, <3>2 DEF Named, Partners, Partner, Own, NP!TypeOK
  <2>2. CASE path # Nothing
    BY <1>8, <2>2, ReaderComes
  <2> QED
    BY <2>1, <2>2
<1>9. ASSUME NEW r \in Receiver, NP!RRead(r) PROVE Named' /\ Partners'
  BY <1>9, PartnerReads
<1>10. ASSUME NEW p \in NP!Process, NP!Kill(p) PROVE FALSE
  BY <1>10 DEF NP!Kill
<1> QED
  <2>1. ASSUME NEW s \in Client, NP!SUnlink(s) \/ NP!Send(s) PROVE Named' /\ Partners'
    BY <1>2, <1>3, <1>4, <1>5, <1>6, <1>7, <2>1 DEF NP!Send
  <2>2. ASSUME NEW r \in Receiver, NP!ROpen(r) \/ NP!Receive(r) PROVE Named' /\ Partners'
    BY <1>7, <1>8, <1>9, <2>2 DEF NP!Receive
  <2> QED
    BY <1>1, <1>10, <2>1, <2>2 DEF NP!Next

LEMMA ThroughInit == NP!Init => ComesThrough
  BY PipeFacts DEF NP!PipeAssumption, NP!Init, ComesThrough, Named, Partners, Partner,
         NP!Process, Own

LEMMA ThroughMeans == TakesTurns /\ ComesThrough => NP!SendersComeThrough
<1> SUFFICES ASSUME Turns, Named, NEW s \in Client
             PROVE  ppc[s] # "failed" /\ (at[s] # Nothing => at[s] = path /\ path = Own(s))
  BY DEF TakesTurns, ComesThrough, NP!SendersComeThrough, Own
<1> QED
  BY DEF Turns, Named

\* The write of a sender sends its message, the read of a reader receives one
\* that nobody else has; the rest is not seen.
LEMMA NPQueueStep ==
  NP!TypeOK /\ TakesTurns /\ [NP!Next]_NP!vars => [NPMail!Next]_<<NP!Wrote, NP!Printed>>
<1> SUFFICES ASSUME NP!TypeOK, TakesTurns, [NP!Next]_NP!vars
             PROVE  [NPMail!Next]_<<NP!Wrote, NP!Printed>>
  OBVIOUS
<1> USE PipeFacts DEF NP!PipeAssumption
<1>1. careful' = careful
  BY DEF NP!Next, NP!vars, NP!Send, NP!Receive, NP!SUnlink, NP!SMkfifo, NP!SOpen,
         NP!SWrite, NP!SPipe,
         NP!SClose, NP!ROpen, NP!RRead, NP!RClose, NP!Kill
<1>2. CASE UNCHANGED <<written, pgot>> \/ ~careful
  BY <1>1, <1>2 DEF NP!Wrote, NP!Printed
<1>3. ASSUME careful, NEW s \in Client, NP!SWrite(s) PROVE [NPMail!Next]_<<NP!Wrote,
NP!Printed>>
  <2>1. s \notin written /\ written' = written \union {s} /\ pgot' = pgot
    BY <1>3 DEF NP!SWrite, TakesTurns, Turns
  <2>2. NPMail!Send(s)
    BY <1>1, <1>3, <2>1 DEF NPMail!Send, NP!Wrote, NP!Printed
  <2> QED
    BY <2>2 DEF NPMail!Next
<1>4. ASSUME careful, NEW r \in Receiver, NP!RRead(r), ~UNCHANGED <<written, pgot>>
      PROVE [NPMail!Next]_<<NP!Wrote, NP!Printed>>
  <2>1. /\ at[r] \in NP!File /\ pgot[r] = Nothing /\ data[at[r]] # << >>
        /\ written' = written
        /\ pgot' = [pgot EXCEPT ![r] = Head(data[at[r]])]
    BY <1>4 DEF NP!RRead, NP!TypeOK, TakesTurns, Letters, NP!Process
  <2>2. PICK s \in written : data[at[r]] = <<s>> /\ \A q \in Receiver : pgot[q] # s
    BY <1>4, <2>1 DEF TakesTurns, Letters
  <2>3. pgot' = [pgot EXCEPT ![r] = s] /\ s \in Client
    BY <2>1, <2>2 DEF NP!TypeOK
  <2>4. NPMail!Receive(r, s)
    BY <1>1, <1>4, <2>1, <2>2, <2>3 DEF NPMail!Receive, NP!Wrote, NP!Printed
  <2> QED
    BY <2>3, <2>4 DEF NPMail!Next
<1> QED
  BY <1>2, <1>3, <1>4 DEF NP!Next, NP!vars, NP!Send, NP!Receive, NP!SUnlink,
         NP!SMkfifo, NP!SOpen, NP!SPipe,
         NP!SClose, NP!ROpen, NP!RClose, NP!Kill

LEMMA NPInvariant == NP!Spec => [](NP!TypeOK /\ TakesTurns /\ ComesThrough)
  BY NPTypeInit, NPTypeStep, TurnsInit, TurnsStep, ThroughInit, ThroughStep, PTL DEF NP!Spec
-----------------------------------------------------------------------------
\* --- The UNIX domain socket.
LEMMA UnixFacts == US!UnixAssumption
  BY MessagesAssumption

\* A server hears the client that was the first to reach it: until it accepts or
\* receives, that client is at the head of its queue.
Arrived(s) ==
    /\ upc[s] \in {"bound", "accept", "recv"} => type[s] = "stream"
    /\ upc[s] = "recvfrom" => type[s] = "datagram"
    /\ first[s] = Nothing => waiting[s] = << >> /\ peer[s] = Nothing
    /\ first[s] # Nothing => dest[first[s]] = s /\ type[first[s]] = type[s]
    /\ first[s] # Nothing /\ peer[s] = Nothing =>
            waiting[s] # << >> /\ Head(waiting[s]) = first[s]
    /\ peer[s] # Nothing => peer[s] = first[s]
    /\ upc[s] \in {"start", "bound", "accept", "recvfrom"} => peer[s] = Nothing
    /\ upc[s] \in {"recv", "ok"} => peer[s] # Nothing
    /\ upc[s] = "ok" => wire[peer[s]] = 0 /\ upc[peer[s]] \in {"ok", "failed"}

Arrivals == \A s \in Receiver : Arrived(s)

\* What a client has sent is under way or has come to its server; a client that
\* has not ended well has not sent all.
BytesOf(c) ==
    /\ upc[c] \in {"start", "send", "ok", "failed"}
    /\ upc[c] = "ok" <=> sent[c] = SIZE
    /\ upc[c] = "start" => dest[c] = Nothing
    /\ upc[c] = "send" => dest[c] # Nothing /\ type[c] = "stream"
    /\ dest[c] = Nothing => upc[c] \in {"start", "failed"} /\ sent[c] = 0 /\ wire[c] = 0
    /\ type[c] = "datagram" => wire[c] = 0 /\ (dest[c] # Nothing => upc[c] = "ok")
    /\ type[c] = "stream" /\ dest[c] # Nothing =>
            sent[c] = wire[c] + IF peer[dest[c]] = c THEN buf[dest[c]] ELSE 0

BytesAt(s) ==
    /\ peer[s] = Nothing => buf[s] = 0
    /\ peer[s] # Nothing /\ type[s] = "datagram" => buf[s] = SIZE

Bytes == (\A c \in Client : BytesOf(c)) /\ \A s \in Receiver : BytesAt(s)

SocketInv == US!TypeOK /\ Arrivals /\ Bytes
\* The head of a queue that grows at its end.
LEMMA HeadStays ==
  ASSUME NEW S, NEW q \in Seq(S), NEW e \in S
  PROVE  /\ Append(q, e) \in Seq(S) /\ Append(q, e) # << >>
         /\ Len(Append(q, e)) = Len(q) + 1
         /\ Head(Append(q, e)) = IF q = << >> THEN e ELSE Head(q)
  BY AppendProperties, HeadTailAppend

LEMMA HeadAndTail ==
  ASSUME NEW S, NEW q \in Seq(S), q # << >>
  PROVE  Head(q) \in S /\ Tail(q) \in Seq(S) /\ Len(Tail(q)) = Len(q) - 1 /\ Len(q) \in Nat
  BY HeadTailProperties, LenProperties

LEMMA SocketInit == US!Init => SocketInv
<1> SUFFICES ASSUME US!Init PROVE SocketInv
  OBVIOUS
<1> USE UnixFacts DEF US!UnixAssumption, US!Process
<1>1. << >> \in Seq(Client) /\ Len(<< >>) = 0
  OBVIOUS
<1>2. US!TypeOK
  BY <1>1 DEF US!Init, US!TypeOK
<1>3. Arrivals
  BY DEF US!Init, Arrivals, Arrived
<1>4. Bytes
  BY DEF US!Init, Bytes, BytesOf, BytesAt
<1> QED
  BY <1>2, <1>3, <1>4 DEF SocketInv

\* A step in which a process only goes from one place to another.
LEMMA UnixMoves ==
  ASSUME SocketInv, NEW p \in US!Process, NEW l, US!GoTo(p, l),
         UNCHANGED <<type, dest, sent, wire, waiting, peer, buf, first>>,
         bound' \in Receiver \union {Nothing},
         \/ /\ p \in Receiver
            /\ \/ upc[p] = "start" /\ l \in {"bound", "recvfrom", "failed"}
               \/ upc[p] = "bound" /\ l = "accept"
               \/ upc[p] \notin {"start", "ok"} /\ l = "failed"
               \/ upc[p] = "recv" /\ l = "ok" /\ US!EndOfData(p)
            /\ l = "bound" => type[p] = "stream"
            /\ l = "recvfrom" => type[p] = "datagram"
         \/ p \in Client /\ upc[p] \in {"start", "send"} /\ l = "failed"
  PROVE  SocketInv'
<1> USE UnixFacts DEF US!UnixAssumption, US!Process, SocketInv, US!GoTo
<1>1. US!TypeOK'
  BY DEF US!TypeOK
<1>2. Arrivals'
  <2>1. CASE p \in Receiver
    BY <2>1 DEF US!TypeOK, Arrivals, Arrived, Bytes, BytesOf, BytesAt, US!EndOfData
  <2>2. CASE p \in Client
    BY <2>2 DEF US!TypeOK, Arrivals, Arrived, Bytes, BytesOf, BytesAt
  <2> QED
    BY <2>1, <2>2
<1>3. Bytes'
  BY DEF US!TypeOK, Arrivals, Arrived, Bytes, BytesOf, BytesAt
<1> QED
  BY <1>1, <1>2, <1>3

LEMMA AcceptStep == ASSUME SocketInv, NEW s \in Receiver, US!Accept(s) PROVE SocketInv'
<1> USE UnixFacts DEF US!UnixAssumption, US!Process, SocketInv
<1> DEFINE c == Head(waiting[s])
<1>1. /\ upc[s] = "accept" /\ peer[s] = Nothing /\ first[s] # Nothing
      /\ c = first[s] /\ c \in Client
      /\ peer' = [peer EXCEPT ![s] = c] /\ waiting' = [waiting EXCEPT ![s] = Tail(waiting[s])]
      /\ upc' = [upc EXCEPT ![s] = "recv"]
      /\ UNCHANGED <<type, bound, dest, sent, wire, buf, first>>
  BY DEF US!Accept, US!GoTo, Arrivals, Arrived, US!TypeOK
<1>2. /\ Tail(waiting[s]) \in Seq(Client)
      /\ Len(Tail(waiting[s])) <= QUEUE
  <2>1. waiting[s] \in Seq(Client) /\ waiting[s] # << >> /\ Len(waiting[s]) <= QUEUE
    BY <1>1 DEF US!TypeOK, Arrivals, Arrived
  <2> QED
    BY <2>1, HeadAndTail
<1> HIDE DEF c
<1>3. US!TypeOK'
  BY <1>1, <1>2 DEF US!TypeOK
<1>4. Arrivals'
  <2>1. Arrived(s)'
    BY <1>1 DEF US!TypeOK, Arrivals, Arrived
  <2>2. ASSUME NEW t \in Receiver, t # s PROVE Arrived(t)'
    BY <1>1, <2>2 DEF US!TypeOK, Arrivals, Arrived
  <2> QED
    BY <2>1, <2>2 DEF Arrivals
<1>5. buf[s] = 0 /\ dest[c] = s /\ type[c] = "stream"
  BY <1>1 DEF Arrivals, Arrived, Bytes, BytesOf, BytesAt
<1>6. Bytes'
  BY <1>1, <1>5 DEF US!TypeOK, Arrivals, Arrived, Bytes, BytesOf, BytesAt
<1> QED
  BY <1>3, <1>4, <1>6

LEMMA RecvStep == ASSUME SocketInv, NEW s \in Receiver, US!Recv(s) PROVE SocketInv'
<1> USE UnixFacts DEF US!UnixAssumption, US!Process, SocketInv
<1> DEFINE c == peer[s]
<1>1. /\ upc[s] = "recv" /\ c \in Client /\ c = first[s] /\ dest[c] = s
      /\ type[c] = "stream" /\ sent[c] = wire[c] + buf[s]
      /\ {sent[c], wire[c], buf[s]} \subseteq 0 .. SIZE
  BY DEF US!Recv, Arrivals, Arrived, Bytes, BytesOf, BytesAt, US!TypeOK
<1>2. PICK n \in 1 .. wire[c] : /\ wire' = [wire EXCEPT ![c] = wire[c] - n]
                                /\ buf' = [buf EXCEPT ![s] = buf[s] + n]
                                /\ UNCHANGED <<type, bound, upc, dest, sent, waiting, peer, first>>
  BY DEF US!Recv
<1>3. wire[c] - n \in 0 .. SIZE /\ buf[s] + n \in 0 .. SIZE
  BY <1>1
<1>4. US!TypeOK'
  BY <1>1, <1>2, <1>3 DEF US!TypeOK
<1>5. Arrivals'
  BY <1>1, <1>2 DEF US!TypeOK, Arrivals, Arrived
<1>6. Bytes'
  <2>1. wire'[c] = wire[c] - n /\ buf'[s] = buf[s] + n
    BY <1>1, <1>2 DEF US!TypeOK
  <2>2. BytesOf(c)'
    BY <1>1, <1>2, <1>3, <2>1 DEF US!TypeOK, Bytes, BytesOf
  <2>3. ASSUME NEW d \in Client, d # c PROVE BytesOf(d)'
    BY <1>1, <1>2, <2>3 DEF US!TypeOK, Bytes, BytesOf
  <2>4. ASSUME NEW t \in Receiver PROVE BytesAt(t)'
    BY <1>1, <1>2 DEF US!TypeOK, Bytes, BytesAt, Arrivals, Arrived
  <2> QED
    BY <1>2, <2>2, <2>3, <2>4 DEF Bytes
<1> QED
  BY <1>4, <1>5, <1>6

LEMMA RecvFromStep == ASSUME SocketInv, NEW s \in Receiver, US!RecvFrom(s) PROVE SocketInv'
<1> USE UnixFacts DEF US!UnixAssumption, US!Process, SocketInv
<1> DEFINE c == Head(waiting[s])
<1>1. /\ upc[s] = "recvfrom" /\ peer[s] = Nothing /\ first[s] # Nothing
      /\ c = first[s] /\ c \in Client /\ type[s] = "datagram"
      /\ peer' = [peer EXCEPT ![s] = c] /\ buf' = [buf EXCEPT ![s] = SIZE]
      /\ upc' = [upc EXCEPT ![s] = "ok"]
      /\ UNCHANGED <<type, bound, dest, sent, wire, waiting, first>>
  BY DEF US!RecvFrom, US!GoTo, Arrivals, Arrived, US!TypeOK
<1> HIDE DEF c
<1>2. dest[c] = s /\ type[c] = "datagram" /\ upc[c] = "ok" /\ wire[c] = 0
  BY <1>1 DEF Arrivals, Arrived, Bytes, BytesOf, BytesAt
<1>3. US!TypeOK'
  BY <1>1 DEF US!TypeOK
<1>4. Arrivals'
  BY <1>1, <1>2 DEF US!TypeOK, Arrivals, Arrived
<1>5. Bytes'
  BY <1>1, <1>2 DEF US!TypeOK, Arrivals, Arrived, Bytes, BytesOf, BytesAt
<1> QED
  BY <1>3, <1>4, <1>5

LEMMA ReachStep == ASSUME SocketInv, NEW c \in Client, US!Reach(c) PROVE SocketInv'
<1> USE UnixFacts DEF US!UnixAssumption, US!Process, SocketInv
<1> DEFINE s == bound   q == waiting[s]
           l == IF type[c] = "stream" THEN "send" ELSE "ok"
           n == IF type[c] = "stream" THEN 0 ELSE SIZE
<1>1. /\ upc[c] = "start" /\ dest[c] = Nothing /\ sent[c] = 0 /\ wire[c] = 0
      /\ s \in Receiver /\ type[s] = type[c] /\ q \in Seq(Client) /\ Len(q) < QUEUE
      /\ upc[s] \in {"accept", "recv", "recvfrom"}
  BY DEF US!Reach, US!Takes, Bytes, BytesOf, BytesAt, US!TypeOK
<1>2. /\ waiting' = [waiting EXCEPT ![s] = Append(q, c)]
      /\ dest' = [dest EXCEPT ![c] = s]
      /\ first' = [first EXCEPT ![s] = IF first[s] = Nothing THEN c ELSE first[s]]
      /\ upc' = [upc EXCEPT ![c] = l]
      /\ sent' = [sent EXCEPT ![c] = n]
      /\ UNCHANGED <<type, bound, wire, peer, buf>>
  BY <1>1 DEF US!Reach, US!GoTo, US!TypeOK
<1>3. /\ Append(q, c) \in Seq(Client) /\ Append(q, c) # << >> /\ Len(Append(q, c)) <= QUEUE
      /\ Head(Append(q, c)) = IF q = << >> THEN c ELSE Head(q)
  BY <1>1, HeadStays, LenProperties
<1>4. \A t \in Receiver : first[t] # c /\ peer[t] # c
  BY <1>1 DEF Arrivals, Arrived
<1> HIDE DEF q
<1>5. US!TypeOK'
  BY <1>1, <1>2, <1>3 DEF US!TypeOK
<1>6. Arrivals'
  <2>1. Arrived(s)'
    BY <1>1, <1>2, <1>3, <1>4 DEF US!TypeOK, Arrivals, Arrived, q
  <2>2. ASSUME NEW t \in Receiver, t # s PROVE Arrived(t)'
    BY <1>1, <1>2, <1>4, <2>2 DEF US!TypeOK, Arrivals, Arrived
  <2> QED
    BY <1>2, <2>1, <2>2 DEF Arrivals
<1>7. Bytes'
  BY <1>1, <1>2, <1>4 DEF US!TypeOK, Arrivals, Arrived, Bytes, BytesOf, BytesAt
<1> QED
  BY <1>5, <1>6, <1>7

LEMMA SendStep == ASSUME SocketInv, NEW c \in Client, US!Send(c) PROVE SocketInv'
<1> USE UnixFacts DEF US!UnixAssumption, US!Process, SocketInv
<1>1. /\ upc[c] = "send" /\ dest[c] \in Receiver /\ type[c] = "stream"
      /\ sent[c] \in 0 .. SIZE /\ wire[c] \in 0 .. SIZE /\ wire[c] <= sent[c]
  <2>1. upc[c] = "send" /\ dest[c] \in Receiver /\ type[c] = "stream"
    BY DEF US!Send, Bytes, BytesOf, US!TypeOK
  <2>2. /\ sent[c] \in 0 .. SIZE /\ wire[c] \in 0 .. SIZE /\ buf[dest[c]] \in 0 .. SIZE
        /\ sent[c] = wire[c] + IF peer[dest[c]] = c THEN buf[dest[c]] ELSE 0
    BY <2>1 DEF Bytes, BytesOf, US!TypeOK
  <2> QED
    BY <2>1, <2>2
<1>2. CASE upc[dest[c]] \in {"ok", "failed"}
  <2>1. US!GoTo(c, "failed") /\ UNCHANGED <<type, bound, dest, sent, wire, waiting, peer, buf, first>>
    BY <1>2 DEF US!Send
  <2> QED
    BY <1>1, <2>1, UnixMoves DEF US!TypeOK
<1>3. CASE upc[dest[c]] \notin {"ok", "failed"}
  <2>1. PICK n \in 1 .. SIZE - sent[c] :
            /\ sent' = [sent EXCEPT ![c] = sent[c] + n]
            /\ wire' = [wire EXCEPT ![c] = wire[c] + n]
            /\ upc' = [upc EXCEPT ![c] = IF sent[c] + n = SIZE THEN "ok" ELSE "send"]
            /\ UNCHANGED <<type, bound, dest, waiting, peer, buf, first>>
    BY <1>3 DEF US!Send, US!GoTo, US!TypeOK
  <2>2. US!TypeOK'
    BY <1>1, <2>1 DEF US!TypeOK
  <2>3. \A s \in Receiver : upc[s] = "ok" => peer[s] # c
    BY <1>1 DEF Arrivals, Arrived
  <2>4. Arrivals'
    BY <1>1, <2>1, <2>3 DEF US!TypeOK, Arrivals, Arrived
  <2>5. Bytes'
    <3>1. BytesOf(c)'
      BY <1>1, <2>1 DEF US!TypeOK, Bytes, BytesOf
    <3>2. ASSUME NEW d \in Client, d # c PROVE BytesOf(d)'
      BY <2>1, <3>2 DEF US!TypeOK, Bytes, BytesOf
    <3>3. ASSUME NEW t \in Receiver PROVE BytesAt(t)'
      BY <2>1 DEF Bytes, BytesAt
    <3> QED
      BY <3>1, <3>2, <3>3 DEF Bytes
  <2> QED
    BY <2>2, <2>4, <2>5
<1> QED
  BY <1>2, <1>3

LEMMA SocketStep == ASSUME SocketInv, [US!Next]_US!vars PROVE SocketInv'
<1> USE UnixFacts DEF US!UnixAssumption, US!Process
<1>1. CASE UNCHANGED US!vars
  <2>1. UNCHANGED US!TypeOK /\ UNCHANGED Arrivals /\ UNCHANGED Bytes
    BY <1>1 DEF US!vars, US!TypeOK, Arrivals, Arrived, Bytes, BytesOf, BytesAt
  <2> QED
    BY <2>1 DEF SocketInv
<1>2. ASSUME NEW s \in Receiver, US!Bind(s) PROVE SocketInv'
  BY <1>2, UnixMoves DEF US!Bind, US!TypeOK, SocketInv
<1>3. ASSUME NEW s \in Receiver, US!Listen(s) \/ US!PrintText(s) PROVE SocketInv'
  BY <1>3, UnixMoves DEF US!Listen, US!PrintText, US!TypeOK, SocketInv
<1>4. ASSUME NEW c \in Client, US!Refused(c) PROVE SocketInv'
  BY <1>4, UnixMoves DEF US!Refused, US!TypeOK, SocketInv
<1>5. ASSUME NEW p \in US!Process, US!Kill(p) PROVE SocketInv'
  <2>1. p \in Client => upc[p] = "send"
    BY <1>5 DEF US!Kill, SocketInv, Bytes, BytesOf, BytesAt
  <2> QED
    BY <1>5, <2>1, UnixMoves DEF US!Kill, US!TypeOK, SocketInv
<1>6. ASSUME US!Remove PROVE SocketInv'
  <2>1. US!TypeOK'
    BY <1>6 DEF US!Remove, US!TypeOK, SocketInv
  <2>2. Arrivals' /\ Bytes'
    BY <1>6 DEF US!Remove, Arrivals, Arrived, Bytes, BytesOf, BytesAt, SocketInv
  <2> QED
    BY <2>1, <2>2 DEF SocketInv
<1> QED
  BY <1>1, <1>2, <1>3, <1>4, <1>5, <1>6, AcceptStep, RecvStep, RecvFromStep, ReachStep, SendStep
     DEF US!Next, US!ServerStep

LEMMA SocketInvariant == US!Spec => []SocketInv
<1>1. SocketInv /\ [US!Next]_US!vars => SocketInv'
  BY SocketStep
<1> QED
  BY <1>1, SocketInit, PTL DEF US!Spec

\* A server that ends by itself has the message of the client that was the first.
LEMMA FirstHeard == SocketInv => FirstIsHeard
<1> USE UnixFacts DEF US!UnixAssumption, US!Process
<1> SUFFICES ASSUME SocketInv, NEW s \in Receiver, upc[s] = "ok"
             PROVE  /\ peer[s] = first[s] /\ buf[s] = sent[first[s]]
                    /\ upc[first[s]] = "ok" => buf[s] = SIZE
  BY DEF FirstIsHeard, US!FirstIsHeard
<1>1. /\ peer[s] = first[s] /\ peer[s] \in Client /\ dest[peer[s]] = s /\ wire[peer[s]] = 0
      /\ type[peer[s]] = type[s]
  BY DEF SocketInv, Arrivals, Arrived, US!TypeOK
<1>2. CASE type[s] = "stream"
  BY <1>1, <1>2 DEF SocketInv, Bytes, BytesOf, BytesAt, US!TypeOK
<1>3. CASE type[s] = "datagram"
  BY <1>1, <1>3 DEF SocketInv, Bytes, BytesOf, BytesAt, US!TypeOK
<1> QED
  BY <1>2, <1>3 DEF SocketInv, US!TypeOK

\* The servers, too, get each message once at most, and only if it was sent.
USMail == INSTANCE Delivery WITH Sender <- Client, sent <- US!Ended, got <- US!Printed

LEMMA SocketMailStep ==
  ASSUME SocketInv, [US!Next]_US!vars
  PROVE  [USMail!Next]_<<US!Ended, US!Printed>>
<1> USE UnixFacts DEF US!UnixAssumption, US!Process
<1>0. US!TypeOK /\ SocketInv' /\ US!TypeOK'
  BY SocketStep DEF SocketInv
<1>1. ASSUME \A c \in Client : upc'[c] = "ok" <=> upc[c] = "ok",
             \A s \in Receiver : \/ upc[s] # "ok" /\ upc'[s] # "ok"
                                 \/ upc'[s] = upc[s] /\ buf'[s] = buf[s] /\ peer'[s] = peer[s]
      PROVE  UNCHANGED <<US!Ended, US!Printed>>
  BY <1>1 DEF US!Ended, US!Printed
<1>2. CASE UNCHANGED US!vars
  BY <1>1, <1>2 DEF US!vars
<1>3. ASSUME NEW s \in Receiver, US!Bind(s) \/ US!Listen(s) \/ US!Accept(s) \/ US!Recv(s)
      PROVE  UNCHANGED <<US!Ended, US!Printed>>
  BY <1>0, <1>1, <1>3 DEF US!Bind, US!Listen, US!Accept, US!Recv, US!GoTo, US!TypeOK
<1>4. ASSUME NEW p \in US!Process, US!Kill(p) PROVE UNCHANGED <<US!Ended, US!Printed>>
  BY <1>0, <1>1, <1>4 DEF US!Kill, US!GoTo, US!TypeOK
<1>5. ASSUME NEW c \in Client, US!Refused(c) PROVE UNCHANGED <<US!Ended, US!Printed>>
  BY <1>0, <1>1, <1>5 DEF US!Refused, US!GoTo, US!TypeOK
<1>6. ASSUME US!Remove PROVE UNCHANGED <<US!Ended, US!Printed>>
  BY <1>1, <1>6 DEF US!Remove
<1>7. ASSUME NEW c \in Client, US!Reach(c) \/ US!Send(c)
      PROVE  [USMail!Next]_<<US!Ended, US!Printed>>
  <2>1. /\ upc[c] # "ok" /\ \A p \in US!Process \ {c} : upc'[p] = upc[p]
        /\ UNCHANGED <<peer, buf>>
    BY <1>0, <1>7 DEF US!Reach, US!Send, US!GoTo, US!TypeOK
  <2>2. US!Printed' = US!Printed
    BY <2>1 DEF US!Printed
  <2>3. CASE upc'[c] = "ok"
    <3>1. US!Ended' = US!Ended \union {c} /\ c \notin US!Ended
      BY <2>1, <2>3 DEF US!Ended
    <3> QED
      BY <2>2, <3>1 DEF USMail!Next, USMail!Send
  <2>4. CASE upc'[c] # "ok"
    BY <1>1, <2>1, <2>4
  <2> QED
    BY <2>3, <2>4
<1>8. ASSUME NEW s \in Receiver, US!PrintText(s) \/ US!RecvFrom(s)
      PROVE  [USMail!Next]_<<US!Ended, US!Printed>>
  <2>1. /\ upc[s] # "ok" /\ upc' = [upc EXCEPT ![s] = "ok"] /\ UNCHANGED <<dest, sent>>
        /\ \A x \in Receiver \ {s} : peer'[x] = peer[x] /\ buf'[x] = buf[x]
    BY <1>0, <1>8 DEF US!PrintText, US!RecvFrom, US!GoTo, US!TypeOK
  <2>2. US!Ended' = US!Ended
    BY <1>0, <2>1 DEF US!Ended, US!TypeOK
  <2>3. CASE buf'[s] = SIZE
    <3>1. PICK c \in Client : c = peer'[s] /\ dest'[c] = s
      BY <1>0, <2>1 DEF SocketInv, Arrivals, Arrived, US!TypeOK
    <3>2. sent'[c] = SIZE
      <4>1. FirstIsHeard'
        BY <1>0, FirstHeard, PTL
      <4>2. peer'[s] = first'[s] /\ buf'[s] = sent'[first'[s]]
        BY <1>0, <2>1, <4>1 DEF FirstIsHeard, US!FirstIsHeard, US!TypeOK
      <4> QED
        BY <2>3, <3>1, <4>2
    <3>3. c \in US!Ended
      BY <2>1, <3>2 DEF US!Ended, SocketInv, Bytes, BytesOf
    <3>4. \A x \in Receiver : US!Printed[x] # c
      BY <1>0, <2>1, <3>1 DEF US!Printed, SocketInv, Arrivals, Arrived
    <3>5. US!Printed[s] = Nothing /\ US!Printed' = [US!Printed EXCEPT ![s] = c]
      <4>1. upc'[s] = "ok" /\ \A x \in Receiver \ {s} : upc'[x] = upc[x]
        BY <1>0, <2>1 DEF US!TypeOK
      <4>2. US!Printed' = [x \in Receiver |-> IF x = s THEN c ELSE US!Printed[x]]
        BY <2>1, <2>3, <3>1, <4>1 DEF US!Printed
      <4> QED
        BY <2>1, <4>2 DEF US!Printed
    <3> QED
      BY <2>2, <3>3, <3>4, <3>5 DEF USMail!Next, USMail!Receive
  <2>4. CASE buf'[s] # SIZE
    <3>1. US!Printed' = US!Printed
      BY <1>0, <2>1, <2>4 DEF US!Printed, US!TypeOK
    <3> QED
      BY <2>2, <3>1
  <2> QED
    BY <2>3, <2>4
<1> QED
  BY <1>2, <1>3, <1>4, <1>5, <1>6, <1>7, <1>8 DEF US!Next, US!ServerStep
-----------------------------------------------------------------------------
\* --- All programs.
\* The programs that are not used do nothing.
Idle ==
    /\ Queue \/ Pipe \/ Socket
    /\ ~Queue => log = << >>
    /\ ~Pipe => written = {}
    /\ ~Socket => \A p \in US!Process : upc[p] = "start"

LEMMA OneProgram ==
  ASSUME AllInit \/ [AllNext]_allVars
  PROVE  /\ AllInit => Init /\ NP!Init /\ US!Init /\ Idle
         /\ [AllNext]_allVars => [Next]_vars /\ [NP!Next]_NP!vars /\ [US!Next]_US!vars
         /\ [AllNext]_allVars /\ Idle => Idle'
<1> USE DEF mqVars, npVars, usVars, vars, NP!vars, US!vars, Queue, Pipe, Socket
<1>1. AllInit => Init /\ NP!Init /\ US!Init /\ Idle
  <2>1. AllInit => Init /\ NP!Init /\ US!Init /\ (Queue \/ Pipe \/ Socket)
    BY DEF AllInit
  <2>2. Init => log = << >>
    BY DEF Init
  <2>3. NP!Init => written = {}
    BY DEF NP!Init
  <2>4. US!Init => \A p \in US!Process : upc[p] = "start"
    BY DEF US!Init
  <2> QED
    BY <2>1, <2>2, <2>3, <2>4 DEF Idle
<1>2. [AllNext]_allVars => [Next]_vars /\ [NP!Next]_NP!vars /\ [US!Next]_US!vars
  BY DEF AllNext, allVars
<1>3. [AllNext]_allVars /\ Idle => Idle'
  BY DEF AllNext, allVars, Idle
<1> QED
  BY <1>1, <1>2, <1>3

LEMMA AllParts == AllSpec => Spec /\ NP!Spec /\ US!Spec /\ []Idle
  BY OneProgram, PTL DEF AllSpec, Spec, NP!Spec, US!Spec

AllInv == QueueInv /\ NP!TypeOK /\ TakesTurns /\ ComesThrough /\ SocketInv /\ Idle

LEMMA AllInvariant == AllSpec => []AllInv
<1>1. QueueInv /\ NP!TypeOK /\ TakesTurns /\ ComesThrough /\ SocketInv /\ Idle => AllInv
  BY DEF AllInv
<1> QED
  BY <1>1, AllParts, QueueInvariant, NPInvariant, SocketInvariant, PTL

\* Type correctness of all programs.
THEOREM TypesCorrect == AllSpec => []TypesOK
<1>1. AllInv => TypesOK
  BY DEF AllInv, TypesOK, QueueInv, SocketInv
<1> QED
  BY <1>1, AllInvariant, PTL

\* What was sent to a message queue is in it or has been received, and not both.
THEOREM NothingLostHolds == AllSpec => []NothingLost
<1>1. AllInv => NothingLost
  BY DEF AllInv, QueueInv
<1> QED
  BY <1>1, AllInvariant, PTL

\* Messages of one type are received in the order they came, whatever mixture of
\* types the receivers ask for.
THEOREM OrderHolds == AllSpec => []TypesInOrder
<1>1. AllInv => TypesInOrder
  BY DEF AllInv, QueueInv
<1> QED
  BY <1>1, AllInvariant, PTL

\* Senders of namePipe_example/main.c that take turns come through: no mkfifo, open or
\* write of theirs fails, and each writes into its own fifo while that has the name.
THEOREM ThroughHolds == AllSpec => []SendersComeThrough
<1>1. AllInv => SendersComeThrough
  BY ThroughMeans DEF AllInv, SendersComeThrough
<1> QED
  BY <1>1, AllInvariant, PTL

\* A socket server that ends by itself has the message of the first client, whole
\* unless that client was interrupted.
THEOREM FirstHeardHolds == AllSpec => []FirstIsHeard
<1>1. AllInv => FirstIsHeard
  BY FirstHeard DEF AllInv
<1> QED
  BY <1>1, AllInvariant, PTL

\* Nothing is sent through a program that is not used.
LEMMA NothingSent ==
  Idle => /\ ~Queue => Logged = {}
          /\ ~Pipe => NP!Wrote = {}
          /\ ~Socket => US!Ended = {}
<1>1. ToSet(<< >>) = {}
  BY DEF ToSet
<1> QED
  BY <1>1 DEF Idle, Logged, NP!Wrote, US!Ended, US!Process

\* Whichever program is used, each message reaches one receiver at most, and
\* nobody gets what was not sent.
THEOREM AllDeliver == AllSpec => DeliverySpec
<1>1. AllInit => D!Init
  <2> SUFFICES ASSUME AllInit PROVE D!Init
    OBVIOUS
  <2>1. Mail!Init /\ NP!Wrote = {} /\ US!Ended = {}
    BY MailInit DEF AllInit, NP!Init, US!Init, NP!Wrote, US!Ended, US!Process
  <2>2. \A r \in Receiver : /\ got[r] = Nothing /\ NP!Printed[r] = Nothing
                            /\ US!Printed[r] = Nothing
    BY DEF AllInit, Init, NP!Init, US!Init, NP!Printed, US!Printed, US!Process
  <2> QED
    BY <2>1, <2>2 DEF Mail!Init, D!Init, Sent, Got
<1>2. AllInv /\ AllInv' /\ [AllNext]_allVars => [D!Next]_<<Sent, Got>>
  <2> SUFFICES ASSUME AllInv, AllInv', [AllNext]_allVars PROVE [D!Next]_<<Sent, Got>>
    OBVIOUS
  <2> USE DEF Queue, Pipe, Socket
  <2>1. program' = program /\ [Next]_vars /\ [NP!Next]_NP!vars /\ [US!Next]_US!vars
    BY OneProgram DEF AllNext, allVars
  <2>2. /\ ~Queue => Logged = {} /\ Logged' = {}
        /\ ~Pipe => NP!Wrote = {} /\ NP!Wrote' = {}
        /\ ~Socket => US!Ended = {} /\ US!Ended' = {}
    <3>1. /\ ~Queue => Logged = {}
          /\ ~Pipe => NP!Wrote = {}
          /\ ~Socket => US!Ended = {}
      BY NothingSent DEF AllInv
    <3>2. (/\ ~Queue => Logged = {}
           /\ ~Pipe => NP!Wrote = {}
           /\ ~Socket => US!Ended = {})'
      BY NothingSent, PTL DEF AllInv
    <3> QED
      BY <2>1, <3>1, <3>2
  <2>3. Queue \/ Pipe \/ Socket
    BY DEF AllInv, Idle
  <2>4. CASE Queue
    <3>1. /\ Sent = Logged /\ Sent' = Logged'
          /\ Got = got /\ Got' = got'
      <4>1. Sent = Logged /\ Sent' = Logged'
        BY <2>1, <2>2, <2>4 DEF Sent
      <4>2. Got = got
        BY <2>4 DEF AllInv, Got, QueueInv, TypeOK
      <4>3. Got' = got'
        BY <2>1, <2>4 DEF AllInv, Got, QueueInv, TypeOK
      <4> QED
        BY <4>1, <4>2, <4>3
    <3>2. [Mail!Next]_<<Logged, got>>
      BY <2>1, MailStep DEF AllInv
    <3> QED
      BY <3>1, <3>2 DEF Mail!Next, Mail!Send, Mail!Receive, D!Next, D!Send, D!Receive
  <2>5. CASE Pipe
    <3>1. /\ Sent = NP!Wrote /\ Sent' = NP!Wrote'
          /\ Got = NP!Printed /\ Got' = NP!Printed'
      <4>1. Sent = NP!Wrote /\ Sent' = NP!Wrote'
        BY <2>1, <2>2, <2>5 DEF Sent
      <4>2. Got = NP!Printed
        BY <2>5 DEF AllInv, Got, NP!TypeOK, NP!Printed
      <4>3. Got' = NP!Printed'
        BY <2>1, <2>5 DEF AllInv, Got, NP!TypeOK, NP!Printed
      <4> QED
        BY <4>1, <4>2, <4>3
    <3>2. [NPMail!Next]_<<NP!Wrote, NP!Printed>>
      BY <2>1, NPQueueStep DEF AllInv
    <3> QED
      BY <3>1, <3>2, MessagesAssumption
      DEF NPMail!Next, NPMail!Send, NPMail!Receive, D!Next, D!Send, D!Receive
  <2>6. CASE Socket
    <3>1. /\ Sent = US!Ended /\ Sent' = US!Ended'
          /\ Got = US!Printed /\ Got' = US!Printed'
      <4>1. Sent = US!Ended /\ Sent' = US!Ended'
        BY <2>1, <2>2, <2>6 DEF Sent
      <4>2. Got = US!Printed
        BY <2>6 DEF AllInv, Got, US!Printed
      <4>3. Got' = US!Printed'
        BY <2>1, <2>6 DEF AllInv, Got, US!Printed
      <4> QED
        BY <4>1, <4>2, <4>3
    <3>2. [USMail!Next]_<<US!Ended, US!Printed>>
      BY <2>1, SocketMailStep DEF AllInv
    <3> QED
      BY <3>1, <3>2, MessagesAssumption
      DEF USMail!Next, USMail!Send, USMail!Receive, D!Next, D!Send, D!Receive
  <2> QED
    BY <2>3, <2>4, <2>5, <2>6
<1> QED
  BY <1>1, <1>2, AllInvariant, PTL DEF AllSpec, DeliverySpec, D!Spec
=============================================================================
