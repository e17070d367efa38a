--------------------------- MODULE UdpEchoProofs ----------------------------
(***************************************************************************)
(* Proofs about UdpEcho, for any clients, buffers, lines and faults.       *)
(***************************************************************************)
EXTENDS UdpEcho, FiniteSetTheorems, SequenceTheorems, WellFoundedInduction, TLAPS

\* A client that waits has kept what it has sent.
SentInv ==
    \A c \in Client :
        /\ Len(sent[c]) = asked[c]
        /\ cpc[c] = "read" => asked[c] > 0 /\ buf[c] = sent[c][asked[c]]

\* d begins with the text of s.
Begins(d, s) == \A p \in 1 .. StrLen(s) : d[p] = s[p]

\* Whatever is under way to or from a client begins with a line of its own.
RequestsOwn ==
    \A i \in 1 .. Len(requests) :
        LET r == requests[i] IN r.ask \in 1 .. asked[r.from] /\ r.data = sent[r.from][r.ask]
CurOwn ==
    spc = "send" => cur.ask \in 1 .. asked[cur.from] /\ Begins(sbuf, sent[cur.from][cur.ask])
AnswersOwn ==
    \A c \in Client : \A i \in 1 .. Len(answers[c]) :
        LET a == answers[c][i] IN a.ask \in 1 .. asked[c] /\ Begins(a.data, sent[c][a.ask])

OwnInv == RequestsOwn /\ CurOwn /\ AnswersOwn /\ AnswersAreOwn

\* No datagram is lost or doubled, and c has sent no empty one.
Careful(c) ==
    ~faulty /\ cpc[c] # "gone" /\ \A k \in 1 .. asked[c] : StrLen(sent[c][k]) > 0

\* Then one datagram of c at most is under way, while c waits for it.
OneUnderWay(c) ==
    /\ \A i \in 1 .. Len(requests) : requests[i].from = c =>
           /\ cpc[c] = "read" /\ requests[i].ask = asked[c]
           /\ cur.from # c /\ answers[c] = << >>
           /\ \A j \in 1 .. Len(requests) : requests[j].from = c => j = i
    /\ cur.from = c => cpc[c] = "read" /\ cur.ask = asked[c] /\ answers[c] = << >>
    /\ answers[c] # << >> =>
           cpc[c] = "read" /\ Len(answers[c]) = 1 /\ answers[c][1].ask = asked[c]

Heard(c) ==
    cpc[c] = "prompt" /\ asked[c] > 0 =>
        heard[c] = [ask |-> asked[c], data |-> String(sent[c][asked[c]])]

FlightInv == \A c \in Client : Careful(c) => OneUnderWay(c) /\ Heard(c)

UdpInv == TypeOK /\ SentInv /\ OwnInv /\ FlightInv
-----------------------------------------------------------------------------
\* --- Buffers and strings.
LEMMA UdpFacts ==
  /\ Nobody \notin Client /\ BUFSIZ \in Nat /\ BUFSIZ > 1 /\ MaxLine \in Nat /\ MaxLine <= BUFSIZ
  /\ MaxRuns \in Nat /\ MaxFaults \in Nat /\ BUFSIZ \in Cell
  /\ \A c \in Client : MaxAsks[c] \in Nat
  BY UdpAssumption DEF Cell

\* A set of numbers has a least one: the intervals up to its members are finite sets,
\* and strict inclusion is well founded on those.
LEMMA LeastMember ==
  ASSUME NEW T, T \subseteq Nat, T # {}
  PROVE  \E m \in T : \A k \in T : m <= k
<1> DEFINE I == {1 .. n : n \in T}
<1>1. IsWellFoundedOn(StrictSubsetOrdering(Nat), FiniteSubsetsOf(Nat))
  BY FS_StrictSubsetOrderingWellFounded
<1>2. I \subseteq FiniteSubsetsOf(Nat) /\ I # {}
  <2>1. \A n \in T : IsFiniteSet(1 .. n) /\ 1 .. n \subseteq Nat
    BY FS_Interval
  <2> QED
    BY <2>1 DEF FiniteSubsetsOf
<1>3. PICK x \in I : \A y \in I : <<y, x>> \notin StrictSubsetOrdering(Nat)
  <2> HIDE DEF I
  <2> QED
    BY <1>1, <1>2, WFMin
<1>4. PICK m \in T : x = 1 .. m
  OBVIOUS
<1>5. ASSUME NEW k \in T, ~(m <= k) PROVE FALSE
  <2>1. m \in Nat /\ k \in Nat /\ k < m
    BY <1>5
  <2>2. 1 .. k \subseteq 1 .. m /\ m \in 1 .. m /\ m \notin 1 .. k
    BY <2>1
  <2>3. 1 .. k # 1 .. m
    BY <2>2
  <2>4. <<1 .. k, 1 .. m>> \in StrictSubsetOrdering(Nat)
    BY <2>1, <2>2, <2>3 DEF StrictSubsetOrdering
  <2> QED
    BY <1>3, <1>4, <2>4
<1> QED
  BY <1>5

\* strlen, whether there is a NUL or not.
LEMMA StrLenIs ==
  ASSUME NEW b
  PROVE  /\ StrLen(b) \in Nat /\ StrLen(b) <= BUFSIZ
         /\ \A p \in 1 .. StrLen(b) : b[p] # NUL
<1> DEFINE T == {n \in 0 .. BUFSIZ : n < BUFSIZ => b[n + 1] = NUL}
<1>1. BUFSIZ \in Nat
  BY UdpFacts
<1>2. BUFSIZ \in T /\ T \subseteq Nat
  BY <1>1
<1>3. PICK m \in T : \A k \in T : m <= k
  <2> HIDE DEF T
  <2> QED
    BY <1>2, LeastMember
<1>4. \A p \in 1 .. m : b[p] # NUL
  <2> SUFFICES ASSUME NEW p \in 1 .. m, b[p] = NUL PROVE FALSE
    OBVIOUS
  <2>1. m \in Nat /\ m <= BUFSIZ /\ p \in Nat /\ 1 <= p /\ p <= m
    BY <1>1
  <2>2. p - 1 \in 0 .. BUFSIZ /\ p - 1 + 1 = p
    BY <1>1, <2>1
  <2>3. p - 1 \in T
    BY <2>2
  <2>4. m <= p - 1
    BY <1>3, <2>3
  <2> QED
    BY <2>1, <2>4
<1>5. m \in 0 .. BUFSIZ /\ (m < BUFSIZ => b[m + 1] = NUL)
  BY <1>1
<1>6. /\ StrLen(b) \in 0 .. BUFSIZ
      /\ \A p \in 1 .. StrLen(b) : b[p] # NUL
  BY <1>4, <1>5 DEF StrLen
<1> QED
  BY <1>1, <1>6

LEMMA OverIs ==
  ASSUME NEW a \in Buffer, NEW b \in Buffer, NEW n \in Nat, n <= BUFSIZ
  PROVE  /\ Over(a, n, b) \in Buffer
         /\ \A p \in 1 .. n : Over(a, n, b)[p] = a[p]
<1>1. \A p \in 1 .. n : p \in Cell /\ p <= n
  BY UdpFacts DEF Cell
<1> QED
  BY <1>1, UdpFacts DEF Over, Buffer, Cell

\* A buffer is a sequence of BUFSIZ bytes; its first n are a sequence.
LEMMA FirstBytes ==
  ASSUME NEW b \in Buffer, NEW n \in Nat, n <= BUFSIZ
  PROVE  /\ SubSeq(b, 1, n) \in Seq(Byte) /\ Len(SubSeq(b, 1, n)) = n
         /\ \A p \in 1 .. n : SubSeq(b, 1, n)[p] = b[p]
<1>1. b \in Seq(Byte) /\ Len(b) = BUFSIZ
  BY UdpFacts DEF Buffer, Cell
<1>2. \A p \in 1 .. n : b[p] \in Byte /\ p + 1 - 1 = p
  BY UdpFacts DEF Buffer, Cell
<1>3. /\ SubSeq(b, 1, n) \in Seq(Byte)
      /\ Len(SubSeq(b, 1, n)) = IF 1 <= n THEN n - 1 + 1 ELSE 0
      /\ \A p \in 1 .. n - 1 + 1 : SubSeq(b, 1, n)[p] = b[1 + p - 1]
  BY <1>2, SubSeqProperties
<1>4. \A p \in 1 .. n : p \in 1 .. n - 1 + 1 /\ 1 + p - 1 = p
  OBVIOUS
<1>5. Len(SubSeq(b, 1, n)) = n
  BY <1>3
<1> QED
  BY <1>3, <1>4, <1>5

LEMMA TimesIs ==
  ASSUME NEW S, NEW d \in S, NEW n \in Nat
  PROVE  Times(n, d) \in Seq(S) /\ Len(Times(n, d)) = n /\ \A i \in 1 .. n : Times(n, d)[i] = d
<1>1. [i \in 1 .. n |-> d] \in Seq(S)
  BY IsASeq
<1> QED
  BY <1>1 DEF Times
-----------------------------------------------------------------------------
\* --- Steps of a client.
LEMMA ByteOfLine ==
  ASSUME NEW c \in Client, NEW k \in 1 .. MaxAsks[c]
  PROVE  <<c, k>> \in Byte
<1>1. <<c, k>> \in {c} \X (1 .. MaxAsks[c])
  OBVIOUS
<1> QED
  BY <1>1 DEF Byte

LEMMA SpecialBytes == NUL \in Byte /\ Junk \in Byte
  BY DEF Byte

\* What a client has sent.
LEMMA SentIs ==
  ASSUME TypeOK, SentInv, NEW c \in Client
  PROVE  /\ asked[c] \in Nat /\ sent[c] \in Seq(Buffer) /\ Len(sent[c]) = asked[c]
         /\ \A k \in 1 .. asked[c] : sent[c][k] \in Buffer
<1>1. asked[c] \in Nat /\ sent[c] \in Seq(Buffer) /\ Len(sent[c]) = asked[c]
  BY DEF TypeOK, SentInv
<1> QED
  BY <1>1, ElementOfSeq DEF SentInv

\* A line is typed, and none, one or more copies of it arrive.
LEMMA AskMoves ==
  ASSUME UdpInv, NEW c \in Client, Ask(c)
  PROVE  \E b \in Buffer, n \in Nat :
           /\ cpc[c] = "prompt" /\ asked[c] + 1 <= MaxAsks[c]
           /\ asked' = [asked EXCEPT ![c] = asked[c] + 1]
           /\ buf' = [buf EXCEPT ![c] = b]
           /\ sent' = [sent EXCEPT ![c] = Append(sent[c], b)]
           /\ cpc' = [cpc EXCEPT ![c] = "gone"] \/ cpc' = [cpc EXCEPT ![c] = "read"]
           /\ err' \in [Client -> BOOLEAN]
           /\ requests' = requests \o Times(n, [from |-> c, ask |-> asked[c] + 1, data |-> b])
           /\ ~faulty => n <= 1
           /\ faults' \in 0 .. (IF faulty THEN MaxFaults ELSE 0) /\ dropped' \subseteq Client
           /\ UNCHANGED <<faulty, answers, heard, spc, sbuf, cur, runs>>
<1>1. TypeOK /\ asked[c] \in Nat /\ MaxAsks[c] \in Nat /\ asked[c] < MaxAsks[c]
  BY UdpFacts DEF UdpInv, TypeOK, Ask, Typed
<1>2. asked' = [asked EXCEPT ![c] = asked[c] + 1] /\ asked'[c] = asked[c] + 1
  BY <1>1 DEF Ask, Typed, TypeOK
<1> DEFINE line == [p \in Cell |-> <<c, asked[c] + 1>>]
<1>3. PICK m \in 0 .. MaxLine : buf' = [buf EXCEPT ![c] = Over(line, m, buf[c])]
  BY <1>2 DEF Ask, Typed
<1>4. line \in Buffer /\ buf[c] \in Buffer /\ m \in Nat /\ m <= BUFSIZ
  <2>1. asked[c] + 1 \in 1 .. MaxAsks[c]
    BY <1>1
  <2>2. <<c, asked[c] + 1>> \in Byte
    BY <2>1, ByteOfLine
  <2> QED
    BY <1>1, <2>2, UdpFacts DEF Buffer, TypeOK
<1>5. PICK b \in Buffer : b = Over(line, m, buf[c])
  <2> HIDE DEF line
  <2>1. Over(line, m, buf[c]) \in Buffer
    BY <1>4, OverIs
  <2> QED
    BY <2>1
<1>6. buf' = [buf EXCEPT ![c] = b] /\ buf'[c] = b
  BY <1>1, <1>3, <1>5 DEF TypeOK
<1>7. sent' = [sent EXCEPT ![c] = Append(sent[c], b)]
  BY <1>6 DEF Ask, Typed
<1> DEFINE new == [from |-> c, ask |-> asked[c] + 1, data |-> b]
<1>8. \E n \in Nat :
        /\ requests' = requests \o Times(n, new) /\ (~faulty => n <= 1)
        /\ faults' \in 0 .. (IF faulty THEN MaxFaults ELSE 0) /\ dropped' \subseteq Client
  <2>1. CASE err[c] \/ spc = "down"
    <3>1. UNCHANGED <<requests, faults, dropped>>
      BY <2>1 DEF Ask, Write, net
    <3>2. requests \o Times(0, new) = requests
      <4>1. Times(0, new) = << >>
        BY DEF Times
      <4>2. requests \in Seq([from : Client, ask : Nat, data : Buffer])
        BY <1>1 DEF TypeOK
      <4> QED
        BY <4>1, <4>2, ConcatEmptySeq
    <3>3. 0 \in Nat /\ 0 <= 1
      OBVIOUS
    <3> QED
      BY <1>1, <3>1, <3>2, <3>3 DEF TypeOK
  <2>2. CASE ~(err[c] \/ spc = "down")
    <3>1. PICK n \in Copies : Request(c, n)
      BY <2>2 DEF Ask, Write
    <3>2. n \in Nat /\ (~faulty => n = 1) /\ (n # 1 => faulty /\ faults < MaxFaults)
      BY <3>1 DEF Copies
    <3>3. requests' = requests \o Times(n, new)
      BY <1>2, <1>6, <3>1 DEF Request
    <3>4. faults' \in 0 .. (IF faulty THEN MaxFaults ELSE 0) /\ dropped' \subseteq Client
      BY <1>1, <3>1, <3>2, UdpFacts DEF Request, Arrive, TypeOK
    <3> QED
      BY <3>2, <3>3, <3>4
  <2> QED
    BY <2>1, <2>2
<1>9. /\ UNCHANGED <<faulty, answers, heard, spc, sbuf, cur, runs>>
      /\ cpc[c] = "prompt" /\ err' \in [Client -> BOOLEAN]
      /\ cpc' = [cpc EXCEPT ![c] = "gone"] \/ cpc' = [cpc EXCEPT ![c] = "read"]
  BY <1>1 DEF Ask, Typed, Write, GoTo, TypeOK
<1>10. asked[c] + 1 <= MaxAsks[c]
  BY <1>1
<1> HIDE DEF new
<1>11. PICK n \in Nat :
        /\ requests' = requests \o Times(n, new) /\ (~faulty => n <= 1)
        /\ faults' \in 0 .. (IF faulty THEN MaxFaults ELSE 0) /\ dropped' \subseteq Client
  BY <1>8
<1>12. requests' = requests \o Times(n, [from |-> c, ask |-> asked[c] + 1, data |-> b])
  BY <1>11 DEF new
<1> QED
  BY <1>2, <1>6, <1>7, <1>9, <1>10, <1>11, <1>12

LEMMA AskStep == ASSUME UdpInv, NEW c \in Client, Ask(c) PROVE UdpInv'
<1>1. PICK b \in Buffer, n \in Nat :
           /\ cpc[c] = "prompt" /\ asked[c] + 1 <= MaxAsks[c]
           /\ asked' = [asked EXCEPT ![c] = asked[c] + 1]
           /\ buf' = [buf EXCEPT ![c] = b]
           /\ sent' = [sent EXCEPT ![c] = Append(sent[c], b)]
           /\ cpc' = [cpc EXCEPT ![c] = "gone"] \/ cpc' = [cpc EXCEPT ![c] = "read"]
           /\ err' \in [Client -> BOOLEAN]
           /\ requests' = requests \o Times(n, [from |-> c, ask |-> asked[c] + 1, data |-> b])
           /\ ~faulty => n <= 1
           /\ faults' \in 0 .. (IF faulty THEN MaxFaults ELSE 0) /\ dropped' \subseteq Client
           /\ UNCHANGED <<faulty, answers, heard, spc, sbuf, cur, runs>>
  BY AskMoves
<1>2. TypeOK /\ SentInv /\ OwnInv /\ FlightInv
  BY DEF UdpInv
<1> DEFINE Request0 == [from : Client, ask : Nat, data : Buffer]
<1>3. PICK new \in Request0 : new = [from |-> c, ask |-> asked[c] + 1, data |-> b]
  <2>1. asked[c] + 1 \in Nat
    BY <1>2, SentIs
  <2> QED
    BY <2>1
<1>4. /\ asked[c] \in Nat /\ sent'[c] \in Seq(Buffer) /\ Len(sent'[c]) = asked[c] + 1
      /\ sent'[c][asked[c] + 1] = b /\ asked'[c] = asked[c] + 1 /\ buf'[c] = b
      /\ \A k \in 1 .. asked[c] : sent'[c][k] = sent[c][k]
  <2>1. asked[c] \in Nat /\ sent[c] \in Seq(Buffer) /\ Len(sent[c]) = asked[c]
    BY <1>2, SentIs
  <2>2. /\ Append(sent[c], b) \in Seq(Buffer) /\ Len(Append(sent[c], b)) = asked[c] + 1
        /\ Append(sent[c], b)[asked[c] + 1] = b
        /\ \A k \in 1 .. asked[c] : Append(sent[c], b)[k] = sent[c][k]
    BY <2>1, AppendProperties
  <2>3. sent'[c] = Append(sent[c], b) /\ asked'[c] = asked[c] + 1 /\ buf'[c] = b
    BY <1>1, <1>2 DEF TypeOK
  <2> QED
    BY <2>1, <2>2, <2>3
\* Other clients.
<1>5. \A e \in Client : e # c => UNCHANGED <<cpc[e], asked[e], buf[e], sent[e]>>
  BY <1>1, <1>2 DEF TypeOK
\* What was sent before stays.
<1>6. \A e \in Client : \A k \in 1 .. asked[e] : k \in 1 .. asked'[e] /\ sent'[e][k] = sent[e][k]
  <2>1. \A k \in 1 .. asked[c] : k \in 1 .. asked[c] + 1
    BY <1>4
  <2> QED
    BY <1>4, <1>5, <2>1
<1>7. /\ requests' \in Seq(Request0) /\ Len(requests) \in Nat /\ Len(requests') = Len(requests) + n
      /\ \A i \in 1 .. Len(requests') :
             \/ i \in 1 .. Len(requests) /\ requests'[i] = requests[i]
             \/ i > Len(requests) /\ requests'[i] = new
  <2>1. /\ Times(n, new) \in Seq(Request0) /\ Len(Times(n, new)) = n
        /\ \A i \in 1 .. n : Times(n, new)[i] = new
    BY TimesIs
  <2>2. requests \in Seq(Request0) /\ Len(requests) \in Nat
    BY <1>2, LenProperties DEF TypeOK
  <2>3. PICK t \in Seq(Request0) : t = Times(n, new) /\ Len(t) = n /\ \A i \in 1 .. n : t[i] = new
    BY <2>1
  <2>4. requests' = requests \o t
    BY <1>1, <1>3, <2>3
  <2>5. /\ requests \o t \in Seq(Request0) /\ Len(requests \o t) = Len(requests) + n
        /\ \A i \in 1 .. Len(requests) + n :
               (requests \o t)[i] = IF i <= Len(requests) THEN requests[i] ELSE t[i - Len(requests)]
    BY <2>2, <2>3, ConcatProperties
  <2>6. ASSUME NEW i \in 1 .. Len(requests) + n
        PROVE  \/ i \in 1 .. Len(requests) /\ requests'[i] = requests[i]
               \/ i > Len(requests) /\ requests'[i] = new
    <3>1. CASE i <= Len(requests)
      BY <2>2, <2>4, <2>5, <3>1
    <3>2. CASE i > Len(requests)
      <4>1. i - Len(requests) \in 1 .. n
        BY <2>2, <3>2
      <4> QED
        BY <2>2, <2>3, <2>4, <2>5, <3>2, <4>1
    <3> QED
      BY <2>2, <3>1, <3>2
  <2> QED
    BY <2>2, <2>4, <2>5, <2>6
<1>8. TypeOK'
  <2>1. \A e \in Client : asked'[e] \in Nat /\ asked'[e] <= MaxAsks[e]
    <3>1. asked'[c] \in Nat /\ asked'[c] <= MaxAsks[c]
      BY <1>1, <1>4, UdpFacts
    <3>2. \A e \in Client : asked[e] \in Nat /\ asked[e] <= MaxAsks[e]
      BY <1>2 DEF TypeOK
    <3> QED
      BY <1>5, <3>1, <3>2
  <2>2. \A e \in Client : buf'[e] \in Buffer /\ sent'[e] \in Seq(Buffer)
    BY <1>1, <1>2, <1>4, <1>5 DEF TypeOK
  <2> QED
    BY <1>1, <1>2, <1>7, <2>1, <2>2 DEF TypeOK
<1>9. SentInv'
  <2>1. ASSUME NEW e \in Client, e # c
        PROVE  /\ Len(sent'[e]) = asked'[e]
               /\ cpc'[e] = "read" => asked'[e] > 0 /\ buf'[e] = sent'[e][asked'[e]]
    BY <1>2, <1>5, <2>1 DEF SentInv
  <2>2. Len(sent'[c]) = asked'[c] /\ asked'[c] > 0 /\ buf'[c] = sent'[c][asked'[c]]
    BY <1>4
  <2> QED
    BY <2>1, <2>2 DEF SentInv
<1>10. RequestsOwn'
  <2> SUFFICES ASSUME NEW i \in 1 .. Len(requests')
               PROVE  LET r == requests'[i]
                      IN  r.ask \in 1 .. asked'[r.from] /\ r.data = sent'[r.from][r.ask]
    BY DEF RequestsOwn
  <2>1. CASE i \in 1 .. Len(requests) /\ requests'[i] = requests[i]
    <3>1. requests[i].from \in Client
      <4>1. requests \in Seq(Request0)
        BY <1>2 DEF TypeOK
      <4>2. requests[i] \in Request0
        BY <2>1, <4>1, ElementOfSeq
      <4> QED
        BY <4>2
    <3>2. LET r == requests[i] IN r.ask \in 1 .. asked[r.from] /\ r.data = sent[r.from][r.ask]
      BY <1>2, <2>1 DEF OwnInv, RequestsOwn
    <3> QED
      BY <1>6, <2>1, <3>1, <3>2
  <2>2. CASE requests'[i] = new
    <3>1. new.from = c /\ new.ask = asked[c] + 1 /\ new.data = b
      BY <1>3
    <3>2. asked[c] + 1 \in 1 .. asked'[c]
      BY <1>4
    <3> QED
      BY <1>4, <2>2, <3>1, <3>2
  <2> QED
    BY <1>7, <2>1, <2>2
<1>11. CurOwn' /\ AnswersOwn'
  <2>1. spc = "send" => cur.from \in Client
    BY <1>2 DEF TypeOK
  <2>2. CurOwn'
    <3> SUFFICES ASSUME spc = "send"
                 PROVE  /\ cur.ask \in 1 .. asked'[cur.from]
                        /\ Begins(sbuf, sent'[cur.from][cur.ask])
      BY <1>1 DEF CurOwn
    <3>1. cur.ask \in 1 .. asked[cur.from] /\ Begins(sbuf, sent[cur.from][cur.ask])
      BY <1>2 DEF OwnInv, CurOwn
    <3> QED
      BY <1>6, <2>1, <3>1
  <2>3. AnswersOwn'
    <3>1. answers' = answers
      BY <1>1
    <3> SUFFICES ASSUME NEW e \in Client, NEW i \in 1 .. Len(answers[e])
                 PROVE  /\ answers[e][i].ask \in 1 .. asked'[e]
                        /\ Begins(answers[e][i].data, sent'[e][answers[e][i].ask])
      BY <3>1 DEF AnswersOwn
    <3>2. /\ answers[e][i].ask \in 1 .. asked[e]
          /\ Begins(answers[e][i].data, sent[e][answers[e][i].ask])
      BY <1>2 DEF OwnInv, AnswersOwn
    <3> QED
      BY <1>6, <3>2
  <2> QED
    BY <2>2, <2>3
<1>12. AnswersAreOwn'
  <2>0. heard' = heard
    BY <1>1
  <2> SUFFICES ASSUME NEW e \in Client
               PROVE  /\ heard[e].ask <= asked'[e]
                      /\ heard[e].ask > 0 => \A p \in 1 .. Len(heard[e].data) :
                             p <= StrLen(sent'[e][heard[e].ask])
                                 => heard[e].data[p] = sent'[e][heard[e].ask][p]
    BY <2>0 DEF AnswersAreOwn
  <2>1. /\ heard[e].ask \in Nat /\ asked[e] \in Nat /\ heard[e].ask <= asked[e]
        /\ heard[e].ask > 0 => \A p \in 1 .. Len(heard[e].data) :
               p <= StrLen(sent[e][heard[e].ask])
                   => heard[e].data[p] = sent[e][heard[e].ask][p]
    BY <1>2 DEF OwnInv, AnswersAreOwn, TypeOK
  <2>2. asked'[e] \in Nat /\ asked[e] <= asked'[e]
    BY <1>4, <1>5, <2>1
  <2>3. heard[e].ask > 0 => heard[e].ask \in 1 .. asked[e]
    BY <2>1
  <2> QED
    BY <1>6, <2>1, <2>2, <2>3
<1>13. ASSUME NEW e \in Client, e # c, Careful(e)' PROVE OneUnderWay(e)' /\ Heard(e)'
  <2>1. Careful(e)
    BY <1>1, <1>5, <1>13 DEF Careful
  <2>2. OneUnderWay(e) /\ Heard(e)
    BY <1>2, <2>1 DEF FlightInv
  <2>3. \A i \in 1 .. Len(requests') : requests'[i].from = e =>
            i \in 1 .. Len(requests) /\ requests'[i] = requests[i]
    BY <1>3, <1>7, <1>13
  <2>4. OneUnderWay(e)'
    BY <1>1, <1>5, <1>13, <2>2, <2>3 DEF OneUnderWay
  <2>5. Heard(e)'
    BY <1>1, <1>5, <1>13, <2>2 DEF Heard
  <2> QED
    BY <2>4, <2>5
\* The client itself had nothing under way.
<1>14. ASSUME Careful(c)' PROVE OneUnderWay(c)' /\ Heard(c)'
  <2>1. cpc'[c] = "read" /\ ~faulty /\ n <= 1
    BY <1>1, <1>2, <1>14 DEF Careful, TypeOK
  <2>2. \A k \in 1 .. asked[c] : StrLen(sent[c][k]) > 0
    BY <1>4, <1>6, <1>14 DEF Careful
  <2>3. OneUnderWay(c)
    BY <1>1, <1>2, <2>1, <2>2 DEF FlightInv, Careful
  <2>4. /\ \A i \in 1 .. Len(requests) : requests[i].from # c
        /\ cur.from # c /\ answers[c] = << >>
    BY <1>1, <2>3 DEF OneUnderWay
  <2>5. \A i \in 1 .. Len(requests') : requests'[i].from = c =>
            i = Len(requests) + 1 /\ requests'[i] = new
    <3>1. \A i \in 1 .. Len(requests') : i > Len(requests) => i = Len(requests) + 1
      BY <1>7, <2>1
    <3> QED
      BY <1>7, <2>4, <3>1
  <2>6. new.ask = asked'[c]
    BY <1>3, <1>4
  <2>7. OneUnderWay(c)'
    BY <1>1, <2>1, <2>4, <2>5, <2>6 DEF OneUnderWay
  <2>8. Heard(c)'
    BY <2>1 DEF Heard
  <2> QED
    BY <2>7, <2>8
<1>15. FlightInv'
  BY <1>13, <1>14 DEF FlightInv
<1> QED
  BY <1>8, <1>9, <1>10, <1>11, <1>12, <1>15 DEF UdpInv, OwnInv

\* --- One client reads or goes; nobody's line changes.
\* The other clients do not notice.
LEMMA OthersKeep ==
  ASSUME FlightInv, NEW c \in Client, NEW e \in Client, e # c, Careful(e)',
         UNCHANGED <<faulty, asked, sent, requests, cur>>,
         UNCHANGED <<cpc[e], heard[e], answers[e]>>
  PROVE  OneUnderWay(e)' /\ Heard(e)'
<1>1. Careful(e)
  BY DEF Careful
<1>2. OneUnderWay(e) /\ Heard(e)
  BY <1>1 DEF FlightInv
<1>3. OneUnderWay(e)'
  BY <1>2 DEF OneUnderWay
<1>4. Heard(e)'
  BY <1>2 DEF Heard
<1> QED
  BY <1>3, <1>4

LEMMA ReadNothingStep == ASSUME UdpInv, NEW c \in Client, ReadNothing(c) PROVE UdpInv'
<1>1. /\ UNCHANGED <<faulty, buf, asked, err, answers, sent, spc, sbuf, cur, requests, runs>>
      /\ UNCHANGED <<faults, dropped>>
      /\ cpc[c] = "read" /\ cpc' = [cpc EXCEPT ![c] = "prompt"] /\ StrLen(buf[c]) = 0
      /\ heard' = [heard EXCEPT ![c] = [ask |-> asked[c], data |-> << >>]]
  BY DEF ReadNothing, GoTo, server, net, Wanted
<1>2. TypeOK /\ SentInv /\ OwnInv /\ FlightInv
  BY DEF UdpInv
<1>3. TypeOK'
  <2>1. [ask |-> asked[c], data |-> << >>] \in [ask : Nat, data : Seq(Byte)]
    BY <1>2 DEF TypeOK
  <2> QED
    BY <1>1, <1>2, <2>1 DEF TypeOK
<1>4. SentInv'
  BY <1>1, <1>2 DEF TypeOK, SentInv
<1>5. RequestsOwn' /\ CurOwn' /\ AnswersOwn'
  BY <1>1, <1>2 DEF OwnInv, RequestsOwn, CurOwn, AnswersOwn
<1>6. AnswersAreOwn'
  <2>1. heard'[c].ask = asked[c] /\ heard'[c].data = << >> /\ asked[c] <= asked[c]
    BY <1>1, <1>2 DEF TypeOK
  <2>2. \A e \in Client : e # c => heard'[e] = heard[e]
    BY <1>1, <1>2 DEF TypeOK
  <2>3. \A p \in 1 .. Len(<< >>) : FALSE
    OBVIOUS
  <2> QED
    BY <1>1, <1>2, <2>1, <2>2, <2>3 DEF OwnInv, AnswersAreOwn
<1>7. FlightInv'
  <2>1. ~Careful(c)'
    <3>1. buf[c] = sent[c][asked[c]] /\ asked[c] > 0 /\ asked[c] \in Nat
      BY <1>1, <1>2 DEF SentInv, TypeOK
    <3>2. asked[c] \in 1 .. asked[c]
      BY <3>1
    <3> QED
      BY <1>1, <3>1, <3>2 DEF Careful
  <2>2. \A e \in Client : e # c => UNCHANGED <<cpc[e], heard[e], answers[e]>>
    BY <1>1, <1>2 DEF TypeOK
  <2> QED
    BY <1>1, <1>2, <2>1, <2>2, OthersKeep DEF FlightInv
<1> QED
  BY <1>3, <1>4, <1>5, <1>6, <1>7 DEF UdpInv, OwnInv

LEMMA GoneStep ==
  ASSUME UdpInv, NEW c \in Client, ReadError(c) \/ Kill(c)
  PROVE  UdpInv'
<1>1. /\ UNCHANGED <<faulty, buf, asked, err, sent, heard, spc, sbuf, cur, requests, runs>>
      /\ UNCHANGED <<faults, dropped>>
      /\ cpc' = [cpc EXCEPT ![c] = "gone"]
      /\ answers' = answers \/ answers' = [answers EXCEPT ![c] = << >>]
  BY DEF ReadError, Kill, GoTo, server, net
<1>2. TypeOK /\ SentInv /\ OwnInv /\ FlightInv
  BY DEF UdpInv
<1>3. TypeOK'
  <2>1. << >> \in Seq([ask : Nat, data : Buffer])
    OBVIOUS
  <2> QED
    BY <1>1, <1>2, <2>1 DEF TypeOK
<1>4. SentInv'
  BY <1>1, <1>2 DEF TypeOK, SentInv
<1>5. RequestsOwn' /\ CurOwn' /\ AnswersAreOwn'
  BY <1>1, <1>2 DEF OwnInv, RequestsOwn, CurOwn, AnswersAreOwn
<1>6. AnswersOwn'
  <2>1. \A e \in Client : answers'[e] = answers[e] \/ answers'[e] = << >>
    BY <1>1, <1>2 DEF TypeOK
  <2>2. \A i \in 1 .. Len(<< >>) : FALSE
    OBVIOUS
  <2> QED
    BY <1>1, <1>2, <2>1, <2>2 DEF OwnInv, AnswersOwn
<1>7. FlightInv'
  <2>1. ~Careful(c)'
    BY <1>1, <1>2 DEF Careful, TypeOK
  <2>2. \A e \in Client : e # c => UNCHANGED <<cpc[e], heard[e], answers[e]>>
    BY <1>1, <1>2 DEF TypeOK
  <2> QED
    BY <1>1, <1>2, <2>1, <2>2, OthersKeep DEF FlightInv
<1> QED
  BY <1>3, <1>4, <1>5, <1>6, <1>7 DEF UdpInv, OwnInv

\* The answer is read in the length of the line that was sent last.
LEMMA ReadAnswerStep == ASSUME UdpInv, NEW c \in Client, ReadAnswer(c) PROVE UdpInv'
<1>1. PICK a, n : a = answers[c][1] /\ n = StrLen(buf[c])
  OBVIOUS
<1>2. TypeOK /\ SentInv /\ OwnInv /\ FlightInv
  BY DEF UdpInv
<1>3. /\ answers[c] \in Seq([ask : Nat, data : Buffer]) /\ answers[c] # << >>
      /\ Head(answers[c]) = a /\ Len(answers[c]) \in Nat /\ Len(answers[c]) >= 1
      /\ a \in [ask : Nat, data : Buffer]
  <2>1. answers[c] \in Seq([ask : Nat, data : Buffer]) /\ answers[c] # << >>
    BY <1>2 DEF TypeOK, ReadAnswer
  <2>2. Len(answers[c]) \in Nat /\ Len(answers[c]) # 0
    BY <2>1, EmptySeq, LenProperties
  <2>3. 1 \in 1 .. Len(answers[c])
    BY <2>2
  <2>4. a \in [ask : Nat, data : Buffer]
    BY <1>1, <2>1, <2>3, ElementOfSeq
  <2> QED
    BY <1>1, <2>1, <2>2, <2>4
<1>4. /\ UNCHANGED <<faulty, asked, err, sent, spc, sbuf, cur, requests, runs, faults, dropped>>
      /\ cpc[c] = "read" /\ cpc' = [cpc EXCEPT ![c] = "prompt"]
      /\ buf' = [buf EXCEPT ![c] = Over(a.data, n, buf[c])]
      /\ heard' = [heard EXCEPT ![c] = [ask |-> a.ask, data |-> SubSeq(a.data, 1, n)]]
      /\ answers' = [answers EXCEPT ![c] = Tail(answers[c])]
  BY <1>1, <1>3 DEF ReadAnswer, GoTo, server, net, Wanted
<1>5. /\ buf[c] \in Buffer /\ n \in Nat /\ n <= BUFSIZ
      /\ buf[c] = sent[c][asked[c]] /\ asked[c] > 0 /\ asked[c] \in Nat
      /\ a.ask \in Nat /\ a.data \in Buffer
  BY <1>1, <1>2, <1>3, <1>4, StrLenIs DEF TypeOK, SentInv
<1>6. /\ a.ask \in 1 .. asked[c] /\ Begins(a.data, sent[c][a.ask])
  <2>1. 1 \in 1 .. Len(answers[c])
    BY <1>3
  <2> QED
    BY <1>1, <1>2, <2>1 DEF OwnInv, AnswersOwn
<1>7. /\ SubSeq(a.data, 1, n) \in Seq(Byte) /\ Len(SubSeq(a.data, 1, n)) = n
      /\ \A p \in 1 .. n : SubSeq(a.data, 1, n)[p] = a.data[p]
  BY <1>5, FirstBytes
<1>8. Over(a.data, n, buf[c]) \in Buffer
  BY <1>5, OverIs
<1>9. /\ Tail(answers[c]) \in Seq([ask : Nat, data : Buffer])
      /\ Len(Tail(answers[c])) = Len(answers[c]) - 1
      /\ \A i \in 1 .. Len(Tail(answers[c])) : Tail(answers[c])[i] = answers[c][i + 1]
  BY <1>3, HeadTailProperties
<1>10. TypeOK'
  <2>1. [ask |-> a.ask, data |-> SubSeq(a.data, 1, n)] \in [ask : Nat, data : Seq(Byte)]
    BY <1>5, <1>7
  <2> QED
    BY <1>2, <1>4, <1>8, <1>9, <2>1 DEF TypeOK
<1>11. SentInv'
  BY <1>2, <1>4 DEF TypeOK, SentInv
<1>12. RequestsOwn' /\ CurOwn'
  BY <1>2, <1>4 DEF OwnInv, RequestsOwn, CurOwn
<1>13. AnswersOwn'
  <2>1. \A e \in Client : answers'[e] = IF e = c THEN Tail(answers[c]) ELSE answers[e]
    BY <1>2, <1>4 DEF TypeOK
  <2>2. \A i \in 1 .. Len(Tail(answers[c])) : i + 1 \in 1 .. Len(answers[c])
    BY <1>3, <1>9
  <2> QED
    BY <1>2, <1>4, <1>9, <2>1, <2>2 DEF OwnInv, AnswersOwn
<1>14. heard'[c].ask = a.ask /\ heard'[c].data = SubSeq(a.data, 1, n)
  BY <1>2, <1>4 DEF TypeOK
<1>15. \A e \in Client : e # c => UNCHANGED <<cpc[e], heard[e], answers[e]>>
  BY <1>2, <1>4 DEF TypeOK
<1>16. AnswersAreOwn'
  <2>1. a.ask <= asked[c]
    BY <1>5, <1>6
  <2>2. ASSUME NEW p \in 1 .. n, p <= StrLen(sent[c][a.ask])
        PROVE  SubSeq(a.data, 1, n)[p] = sent[c][a.ask][p]
    <3>1. StrLen(sent[c][a.ask]) \in Nat
      BY <1>2, <1>6, SentIs, StrLenIs
    <3>2. p \in 1 .. StrLen(sent[c][a.ask])
      BY <2>2, <3>1
    <3> QED
      BY <1>6, <1>7, <3>2 DEF Begins
  <2> QED
    BY <1>2, <1>4, <1>7, <1>14, <1>15, <2>1, <2>2 DEF OwnInv, AnswersAreOwn
\* A careful client reads the answer to the line it has just sent.
<1>17. ASSUME Careful(c)' PROVE OneUnderWay(c)' /\ Heard(c)'
  <2>1. OneUnderWay(c)
    BY <1>2, <1>4, <1>17 DEF FlightInv, Careful
  <2>2. /\ \A i \in 1 .. Len(requests) : requests[i].from # c
        /\ cur.from # c /\ Len(answers[c]) = 1 /\ a.ask = asked[c]
    BY <1>1, <1>3, <2>1 DEF OneUnderWay
  <2>3. answers'[c] = << >>
    <3>1. answers'[c] = Tail(answers[c])
      BY <1>2, <1>4 DEF TypeOK
    <3>2. Len(Tail(answers[c])) = 0
      BY <1>9, <2>2
    <3> QED
      BY <1>9, <3>1, <3>2, EmptySeq
  <2>4. OneUnderWay(c)'
    BY <1>4, <2>2, <2>3 DEF OneUnderWay
  <2>5. SubSeq(a.data, 1, n) = SubSeq(buf[c], 1, n)
    <3>1. /\ SubSeq(buf[c], 1, n) \in Seq(Byte) /\ Len(SubSeq(buf[c], 1, n)) = n
          /\ \A p \in 1 .. n : SubSeq(buf[c], 1, n)[p] = buf[c][p]
      BY <1>5, FirstBytes
    <3>2. \A p \in 1 .. n : a.data[p] = buf[c][p]
      BY <1>1, <1>5, <1>6, <2>2 DEF Begins
    <3>3. \A p \in 1 .. n : SubSeq(a.data, 1, n)[p] = SubSeq(buf[c], 1, n)[p]
      BY <1>7, <3>1, <3>2
    <3> QED
      BY <1>7, <3>1, <3>3, SeqEqual
  <2>6. heard'[c] = [ask |-> asked[c], data |-> String(sent[c][asked[c]])]
    <3>1. SubSeq(a.data, 1, n) = String(sent[c][asked[c]])
      BY <1>1, <1>5, <2>5 DEF String
    <3>2. heard'[c] = [ask |-> a.ask, data |-> SubSeq(a.data, 1, n)]
      BY <1>2, <1>4 DEF TypeOK
    <3> QED
      BY <2>2, <3>1, <3>2
  <2>7. Heard(c)'
    BY <1>4, <2>6 DEF Heard
  <2> QED
    BY <2>4, <2>7
<1>18. FlightInv'
  BY <1>2, <1>4, <1>15, <1>17, OthersKeep DEF FlightInv
<1> QED
  BY <1>10, <1>11, <1>12, <1>13, <1>16, <1>18 DEF UdpInv, OwnInv
-----------------------------------------------------------------------------
\* --- Steps of the server.
LEMMA FreshIs == Fresh \subseteq Buffer
  BY SpecialBytes DEF Fresh, Buffer

LEMMA IdleIs == Idle.from \notin Client /\ Idle = [from |-> Nobody, ask |-> 0]
  BY UdpFacts DEF Idle

LEMMA SStartStep == ASSUME UdpInv, SStart PROVE UdpInv'
<1>1. /\ spc = "down" /\ runs < MaxRuns /\ spc' = "recv" /\ runs' = runs + 1 /\ sbuf' \in Fresh
      /\ UNCHANGED <<faulty, cur, requests, cpc, buf, asked, err, answers, sent, heard>>
      /\ UNCHANGED <<faults, dropped>>
  BY DEF SStart, client, net
<1>2. TypeOK /\ SentInv /\ OwnInv /\ FlightInv
  BY DEF UdpInv
<1>3. TypeOK'
  <2>1. runs' \in 0 .. MaxRuns
    BY <1>1, <1>2, UdpFacts DEF TypeOK
  <2>2. sbuf' \in Buffer
    BY <1>1, FreshIs
  <2> QED
    BY <1>1, <1>2, <2>1, <2>2 DEF TypeOK
<1>4. SentInv'
  BY <1>1, <1>2 DEF SentInv
<1>5. RequestsOwn' /\ AnswersOwn' /\ AnswersAreOwn'
  BY <1>1, <1>2 DEF OwnInv, RequestsOwn, AnswersOwn, AnswersAreOwn
<1>6. CurOwn'
  BY <1>1 DEF CurOwn
<1>7. FlightInv'
  BY <1>1, <1>2 DEF FlightInv, Careful, OneUnderWay, Heard
<1> QED
  BY <1>3, <1>4, <1>5, <1>6, <1>7 DEF UdpInv, OwnInv

LEMMA SRecvStep == ASSUME UdpInv, SRecv PROVE UdpInv'
<1> DEFINE Request0 == [from : Client, ask : Nat, data : Buffer]
<1>1. PICK r : r = requests[1]
  OBVIOUS
<1>2. TypeOK /\ SentInv /\ OwnInv /\ FlightInv
  BY DEF UdpInv
<1>3. /\ requests \in Seq(Request0) /\ requests # << >> /\ Head(requests) = r
      /\ Len(requests) \in Nat /\ 1 \in 1 .. Len(requests) /\ r \in Request0
  <2>1. requests \in Seq(Request0) /\ requests # << >>
    BY <1>2 DEF TypeOK, SRecv
  <2>2. Len(requests) \in Nat /\ Len(requests) # 0
    BY <2>1, EmptySeq, LenProperties
  <2>3. 1 \in 1 .. Len(requests)
    BY <2>2
  <2>4. r \in Request0
    BY <1>1, <2>1, <2>3, ElementOfSeq
  <2> QED
    BY <1>1, <2>1, <2>2, <2>3, <2>4
<1>4. /\ spc = "recv" /\ spc' = "send" /\ requests' = Tail(requests)
      /\ sbuf' = Over(r.data, StrLen(r.data), sbuf) /\ cur' = [from |-> r.from, ask |-> r.ask]
      /\ UNCHANGED <<faulty, runs, cpc, buf, asked, err, answers, sent, heard>>
      /\ UNCHANGED <<faults, dropped>>
  BY <1>3 DEF SRecv, Received, client, net
<1>5. /\ requests' \in Seq(Request0) /\ Len(requests') = Len(requests) - 1
      /\ \A i \in 1 .. Len(requests') : requests'[i] = requests[i + 1]
  BY <1>3, <1>4, HeadTailProperties
<1>6. \A i \in 1 .. Len(requests') : i + 1 \in 1 .. Len(requests)
  BY <1>3, <1>5
<1>7. /\ r.from \in Client /\ r.ask \in 1 .. asked[r.from] /\ r.ask \in Nat
      /\ r.data = sent[r.from][r.ask] /\ r.data \in Buffer
  BY <1>1, <1>2, <1>3 DEF OwnInv, RequestsOwn
<1>8. StrLen(r.data) \in Nat /\ StrLen(r.data) <= BUFSIZ
  BY StrLenIs
<1>9. sbuf' \in Buffer /\ Begins(sbuf', sent[r.from][r.ask])
  <2>1. sbuf \in Buffer
    BY <1>2 DEF TypeOK
  <2>2. /\ Over(r.data, StrLen(r.data), sbuf) \in Buffer
        /\ \A p \in 1 .. StrLen(r.data) : Over(r.data, StrLen(r.data), sbuf)[p] = r.data[p]
    BY <1>7, <1>8, <2>1, OverIs
  <2> QED
    BY <1>4, <1>7, <2>2 DEF Begins
<1>10. cur' \in [from : Client, ask : Nat] /\ cur'.from = r.from /\ cur'.ask = r.ask
  BY <1>4, <1>7
<1>11. TypeOK'
  <2>1. cur' # Idle
    BY <1>10, <1>7, IdleIs
  <2> QED
    BY <1>2, <1>4, <1>5, <1>9, <1>10, <2>1 DEF TypeOK
<1>12. SentInv'
  BY <1>2, <1>4 DEF SentInv
<1>13. RequestsOwn'
  BY <1>2, <1>4, <1>5, <1>6 DEF OwnInv, RequestsOwn
<1>14. CurOwn'
  BY <1>4, <1>7, <1>9, <1>10 DEF CurOwn
<1>15. AnswersOwn' /\ AnswersAreOwn'
  BY <1>2, <1>4 DEF OwnInv, AnswersOwn, AnswersAreOwn
<1>16. ASSUME NEW c \in Client, Careful(c)' PROVE OneUnderWay(c)' /\ Heard(c)'
  <2>1. OneUnderWay(c) /\ Heard(c)
    BY <1>2, <1>4, <1>16 DEF FlightInv, Careful
  <2>2. Heard(c)'
    BY <1>4, <2>1 DEF Heard
  <2>3. ASSUME NEW i \in 1 .. Len(requests'), requests'[i].from = c
        PROVE  /\ cpc[c] = "read" /\ requests'[i].ask = asked[c]
               /\ cur'.from # c /\ answers[c] = << >>
               /\ \A j \in 1 .. Len(requests') : requests'[j].from = c => j = i
    <3>1. i + 1 \in 1 .. Len(requests) /\ requests'[i] = requests[i + 1] /\ i \in Nat /\ i >= 1
      BY <1>5, <1>6
    <3>2. /\ cpc[c] = "read" /\ requests[i + 1].ask = asked[c] /\ answers[c] = << >>
          /\ \A j \in 1 .. Len(requests) : requests[j].from = c => j = i + 1
      BY <2>1, <2>3, <3>1 DEF OneUnderWay
    <3>3. cur'.from # c
      <4>1. i + 1 # 1
        BY <3>1
      <4> QED
        BY <1>1, <1>3, <1>10, <3>2, <4>1
    <3>4. ASSUME NEW j \in 1 .. Len(requests'), requests'[j].from = c PROVE j = i
      <4>1. j + 1 = i + 1
        BY <1>5, <1>6, <3>2, <3>4
      <4>2. j \in Nat /\ i \in Nat
        OBVIOUS
      <4> QED
        BY <4>1, <4>2
    <3> QED
      BY <3>1, <3>2, <3>3, <3>4
  <2>4. cur'.from = c => cpc[c] = "read" /\ cur'.ask = asked[c] /\ answers[c] = << >>
    BY <1>1, <1>3, <1>10, <2>1 DEF OneUnderWay
  <2>5. answers[c] # << >> =>
           cpc[c] = "read" /\ Len(answers[c]) = 1 /\ answers[c][1].ask = asked[c]
    BY <2>1 DEF OneUnderWay
  <2>6. OneUnderWay(c)'
    BY <1>4, <2>3, <2>4, <2>5 DEF OneUnderWay
  <2> QED
    BY <2>2, <2>6
<1>17. FlightInv'
  BY <1>16 DEF FlightInv
<1> QED
  BY <1>11, <1>12, <1>13, <1>14, <1>15, <1>17 DEF UdpInv, OwnInv

\* What a sendto leaves behind: n answers to the client that is served.
LEMMA SendMoves ==
  ASSUME UdpInv, SSend
  PROVE  \E n \in Nat :
           /\ cur.from \in Client /\ cur.ask \in Nat
           /\ spc = "send" /\ spc' = "recv" /\ cur' = Idle
           /\ cpc[cur.from] # "gone" /\ ~faulty => n = 1
           /\ answers' = [answers EXCEPT ![cur.from] =
                   answers[cur.from] \o Times(n, [ask |-> cur.ask, data |-> sbuf])]
           /\ faults' \in 0 .. (IF faulty THEN MaxFaults ELSE 0) /\ dropped' \subseteq Client
           /\ UNCHANGED <<faulty, cpc, buf, asked, err, sent, heard, sbuf, requests, runs>>
<1>1. TypeOK
  BY DEF UdpInv
<1>2. /\ cur.from \in Client /\ cur.ask \in Nat /\ spc = "send" /\ spc' = "recv" /\ cur' = Idle
      /\ UNCHANGED <<faulty, cpc, buf, asked, err, sent, heard, sbuf, requests, runs>>
  BY <1>1 DEF SSend, TypeOK
<1> DEFINE new == [ask |-> cur.ask, data |-> sbuf]
<1>3. CASE cpc[cur.from] = "gone"
  <2>1. UNCHANGED <<answers, faults, dropped>>
    BY <1>3 DEF SSend, net
  <2>2. Times(0, new) = << >>
    BY DEF Times
  <2>3. answers[cur.from] \in Seq([ask : Nat, data : Buffer])
    BY <1>1, <1>2 DEF TypeOK
  <2>4. answers[cur.from] \o Times(0, new) = answers[cur.from]
    BY <2>2, <2>3, ConcatEmptySeq
  <2>5. answers' = [answers EXCEPT ![cur.from] = answers[cur.from] \o Times(0, new)]
    BY <1>1, <2>1, <2>4 DEF TypeOK
  <2>6. 0 \in Nat
    OBVIOUS
  <2>7. faults' \in 0 .. (IF faulty THEN MaxFaults ELSE 0) /\ dropped' \subseteq Client
    BY <1>1, <2>1 DEF TypeOK
  <2> QED
    BY <1>2, <1>3, <2>5, <2>6, <2>7
<1>4. CASE cpc[cur.from] # "gone"
  <2>1. PICK n \in Copies :
          /\ answers' = [answers EXCEPT ![cur.from] = answers[cur.from] \o Times(n, new)]
          /\ Arrive(n, cur.from)
    BY <1>4 DEF SSend
  <2>2. n \in Nat /\ (~faulty => n = 1) /\ (n # 1 => faulty /\ faults < MaxFaults)
    BY <2>1 DEF Copies
  <2>3. faults' \in 0 .. (IF faulty THEN MaxFaults ELSE 0) /\ dropped' \subseteq Client
    BY <1>1, <1>2, <2>1, <2>2, UdpFacts DEF Arrive, TypeOK
  <2> QED
    BY <1>2, <2>1, <2>2, <2>3
<1> QED
  BY <1>3, <1>4

LEMMA SSendStep == ASSUME UdpInv, SSend PROVE UdpInv'
<1> DEFINE Answer0 == [ask : Nat, data : Buffer]
<1>1. PICK n \in Nat :
           /\ cur.from \in Client /\ cur.ask \in Nat
           /\ spc = "send" /\ spc' = "recv" /\ cur' = Idle
           /\ cpc[cur.from] # "gone" /\ ~faulty => n = 1
           /\ answers' = [answers EXCEPT ![cur.from] =
                   answers[cur.from] \o Times(n, [ask |-> cur.ask, data |-> sbuf])]
           /\ faults' \in 0 .. (IF faulty THEN MaxFaults ELSE 0) /\ dropped' \subseteq Client
           /\ UNCHANGED <<faulty, cpc, buf, asked, err, sent, heard, sbuf, requests, runs>>
  BY SendMoves
<1>2. TypeOK /\ SentInv /\ OwnInv /\ FlightInv
  BY DEF UdpInv
<1>3. PICK d \in Client : d = cur.from
  BY <1>1
<1>4. PICK new \in Answer0 : new = [ask |-> cur.ask, data |-> sbuf]
  BY <1>1, <1>2 DEF TypeOK
<1>5. PICK t \in Seq(Answer0) : t = Times(n, new) /\ Len(t) = n /\ \A i \in 1 .. n : t[i] = new
  <2> HIDE DEF Answer0
  <2>1. new \in Answer0 /\ n \in Nat
    OBVIOUS
  <2>2. /\ Times(n, new) \in Seq(Answer0) /\ Len(Times(n, new)) = n
        /\ \A i \in 1 .. n : Times(n, new)[i] = new
    BY <2>1, TimesIs
  <2> QED
    BY <2>2
<1>6. /\ answers[d] \in Seq(Answer0) /\ Len(answers[d]) \in Nat
      /\ answers' = [answers EXCEPT ![d] = answers[d] \o t]
  BY <1>1, <1>2, <1>3, <1>4, <1>5, LenProperties DEF TypeOK
<1>7. /\ answers'[d] = answers[d] \o t
      /\ \A c \in Client : c # d => answers'[c] = answers[c]
  BY <1>2, <1>6 DEF TypeOK
<1>8. /\ answers'[d] \in Seq(Answer0) /\ Len(answers'[d]) = Len(answers[d]) + n
      /\ \A i \in 1 .. Len(answers'[d]) :
             \/ i \in 1 .. Len(answers[d]) /\ answers'[d][i] = answers[d][i]
             \/ i > Len(answers[d]) /\ answers'[d][i] = new
  <2>1. PICK old \in Seq(Answer0), m \in Nat : old = answers[d] /\ m = Len(old)
    BY <1>6
  <2>2. /\ old \o t \in Seq(Answer0) /\ Len(old \o t) = m + n
        /\ \A i \in 1 .. m + n : (old \o t)[i] = IF i <= m THEN old[i] ELSE t[i - m]
    <3>1. old \in Seq(Answer0) /\ t \in Seq(Answer0)
      OBVIOUS
    <3>2. /\ old \o t \in Seq(Answer0) /\ Len(old \o t) = Len(old) + Len(t)
          /\ \A i \in 1 .. Len(old) + Len(t) :
                 (old \o t)[i] = IF i <= Len(old) THEN old[i] ELSE t[i - Len(old)]
      BY <3>1, ConcatProperties
    <3>3. m = Len(old) /\ n = Len(t)
      BY <1>5, <2>1
    <3> QED
      BY <3>2, <3>3
  <2>3. ASSUME NEW i \in 1 .. m + n
        PROVE  \/ i \in 1 .. m /\ (old \o t)[i] = old[i]
               \/ i > m /\ (old \o t)[i] = new
    <3>1. CASE i <= m
      BY <2>2, <3>1
    <3>2. CASE i > m
      <4>1. i - m \in 1 .. n
        BY <3>2
      <4> QED
        BY <1>5, <2>2, <3>2, <4>1
    <3>3. i \in Nat /\ m \in Nat
      OBVIOUS
    <3>4. i <= m \/ i > m
      BY <3>3
    <3> QED
      BY <3>1, <3>2, <3>4
  <2> QED
    BY <1>7, <2>1, <2>2, <2>3
<1>9. TypeOK'
  <2>1. answers' \in [Client -> Seq(Answer0)]
    BY <1>2, <1>6, <1>7, <1>8 DEF TypeOK
  <2> QED
    BY <1>1, <1>2, <2>1 DEF TypeOK
<1>10. SentInv'
  BY <1>1, <1>2 DEF SentInv
<1>11. RequestsOwn' /\ AnswersAreOwn'
  BY <1>1, <1>2 DEF OwnInv, RequestsOwn, AnswersAreOwn
<1>12. CurOwn'
  BY <1>1 DEF CurOwn
<1>13. new.ask = cur.ask /\ new.ask \in 1 .. asked[d] /\ Begins(new.data, sent[d][new.ask])
  BY <1>1, <1>2, <1>3, <1>4 DEF OwnInv, CurOwn
<1>14. AnswersOwn'
  <2> SUFFICES ASSUME NEW c \in Client, NEW i \in 1 .. Len(answers'[c])
               PROVE  /\ answers'[c][i].ask \in 1 .. asked[c]
                      /\ Begins(answers'[c][i].data, sent[c][answers'[c][i].ask])
    BY <1>1 DEF AnswersOwn
  <2>1. \/ i \in 1 .. Len(answers[c]) /\ answers'[c][i] = answers[c][i]
        \/ c = d /\ answers'[c][i] = new
    BY <1>7, <1>8
  <2> QED
    BY <1>2, <1>13, <2>1 DEF OwnInv, AnswersOwn
<1>15. \A c \in Client : cur'.from # c
  BY <1>1, IdleIs
<1>16. ASSUME NEW c \in Client, Careful(c)' PROVE OneUnderWay(c)' /\ Heard(c)'
  <2>1. Careful(c)
    BY <1>1, <1>16 DEF Careful
  <2>2. OneUnderWay(c) /\ Heard(c)
    BY <1>2, <2>1 DEF FlightInv
  <2>3. Heard(c)'
    BY <1>1, <2>2 DEF Heard
  <2>4. CASE c # d
    <3>1. OneUnderWay(c)'
      BY <1>1, <1>7, <1>15, <2>2, <2>4 DEF OneUnderWay
    <3> QED
      BY <2>3, <3>1
  <2>5. CASE c = d
    <3>1. /\ cpc[c] = "read" /\ cur.ask = asked[c] /\ answers[c] = << >>
          /\ \A i \in 1 .. Len(requests) : requests[i].from # c
      BY <1>3, <2>2, <2>5 DEF OneUnderWay
    <3>2. n = 1
      BY <1>1, <1>3, <2>1, <2>5 DEF Careful
    <3>3. Len(answers[d]) = 0
      BY <2>5, <3>1
    <3>4. Len(answers'[c]) = 1
      BY <1>8, <2>5, <3>2, <3>3
    <3>5. answers'[c][1] = new
      <4>1. 1 \in 1 .. Len(answers'[d]) /\ ~(1 \in 1 .. Len(answers[d]))
        BY <2>5, <3>3, <3>4
      <4> QED
        BY <1>8, <2>5, <4>1
    <3>6. answers'[c][1].ask = asked[c]
      BY <1>13, <3>1, <3>5
    <3>7. OneUnderWay(c)'
      BY <1>1, <1>15, <3>1, <3>4, <3>6 DEF OneUnderWay
    <3> QED
      BY <2>3, <3>7
  <2> QED
    BY <2>4, <2>5
<1>17. FlightInv'
  BY <1>16 DEF FlightInv
<1> QED
  BY <1>9, <1>10, <1>11, <1>12, <1>14, <1>17 DEF UdpInv, OwnInv

\* The server goes, with its buffer and its queue.
LEMMA SKillStep == ASSUME UdpInv, SKill PROVE UdpInv'
<1>1. /\ spc' = "down" /\ sbuf' = Zeroes /\ cur' = Idle /\ requests' = << >>
      /\ UNCHANGED <<faulty, faults, runs, cpc, buf, asked, err, answers, sent, heard>>
  BY DEF SKill, client
<1>2. TypeOK /\ SentInv /\ OwnInv /\ FlightInv
  BY DEF UdpInv
<1>3. dropped' \subseteq Client
  <2>1. cur.from \in Client \union {Nobody} /\ dropped \subseteq Client
    BY <1>2 DEF TypeOK, Idle
  <2>2. ASSUME NEW i \in 1 .. Len(requests) PROVE requests[i].from \in Client
    <3>1. requests \in Seq([from : Client, ask : Nat, data : Buffer])
      BY <1>2 DEF TypeOK
    <3>2. requests[i] \in [from : Client, ask : Nat, data : Buffer]
      BY <3>1, ElementOfSeq
    <3> QED
      BY <3>2
  <2>3. {r.from : r \in {requests[i] : i \in 1 .. Len(requests)}} \subseteq Client
    BY <2>2
  <2>4. dropped' = dropped \union {r.from : r \in {requests[i] : i \in 1 .. Len(requests)}}
                      \union ({cur.from} \ {Nobody})
    BY DEF SKill
  <2> QED
    BY <2>1, <2>3, <2>4
<1>4. TypeOK'
  <2>1. Zeroes \in Buffer
    BY SpecialBytes DEF Zeroes, Buffer
  <2>2. << >> \in Seq([from : Client, ask : Nat, data : Buffer])
    OBVIOUS
  <2> QED
    BY <1>1, <1>2, <1>3, <2>1, <2>2 DEF TypeOK
<1>5. SentInv'
  BY <1>1, <1>2 DEF SentInv
<1>6. AnswersOwn' /\ AnswersAreOwn'
  BY <1>1, <1>2 DEF OwnInv, AnswersOwn, AnswersAreOwn
<1>7. \A i \in 1 .. Len(requests') : FALSE
  BY <1>1
<1>8. RequestsOwn' /\ CurOwn'
  BY <1>1, <1>7 DEF RequestsOwn, CurOwn
<1>9. FlightInv'
  <2>1. \A c \in Client : cur'.from # c
    BY <1>1, IdleIs
  <2> QED
    BY <1>1, <1>2, <1>7, <2>1 DEF FlightInv, Careful, OneUnderWay, Heard
<1> QED
  BY <1>4, <1>5, <1>6, <1>8, <1>9 DEF UdpInv, OwnInv
-----------------------------------------------------------------------------
LEMMA UdpStep == UdpInv /\ [Next]_vars => UdpInv'
<1> SUFFICES ASSUME UdpInv, [Next]_vars PROVE UdpInv'
  OBVIOUS
<1>1. CASE UNCHANGED vars
  <2>1. /\ UNCHANGED <<faulty, faults, cpc, buf, asked, err, answers, spc, sbuf, cur, requests>>
        /\ UNCHANGED <<runs, sent, heard, dropped>>
    BY <1>1 DEF vars, client, server, net
  <2>2. TypeOK /\ SentInv /\ OwnInv /\ FlightInv
    BY DEF UdpInv
  <2>3. TypeOK'
    BY <2>1, <2>2 DEF TypeOK
  <2>4. SentInv'
    BY <2>1, <2>2 DEF SentInv
  <2>5. OwnInv'
    BY <2>1, <2>2 DEF OwnInv, RequestsOwn, CurOwn, AnswersOwn, AnswersAreOwn
  <2>6. FlightInv'
    BY <2>1, <2>2 DEF FlightInv, Careful, OneUnderWay, Heard
  <2> QED
    BY <2>3, <2>4, <2>5, <2>6 DEF UdpInv
<1>2. ASSUME NEW c \in Client, Ask(c) PROVE UdpInv'
  BY <1>2, AskStep
<1>3. ASSUME NEW c \in Client, ReadNothing(c) PROVE UdpInv'
  BY <1>3, ReadNothingStep
<1>4. ASSUME NEW c \in Client, ReadError(c) \/ Kill(c) PROVE UdpInv'
  BY <1>4, GoneStep
<1>5. ASSUME NEW c \in Client, ReadAnswer(c) PROVE UdpInv'
  BY <1>5, ReadAnswerStep
<1>6. CASE SStart
  BY <1>6, SStartStep
<1>7. CASE SRecv
  BY <1>7, SRecvStep
<1>8. CASE SSend
  BY <1>8, SSendStep
<1>9. CASE SKill
  BY <1>9, SKillStep
<1> QED
  BY <1>1, <1>2, <1>3, <1>4, <1>5, <1>6, <1>7, <1>8, <1>9 DEF Next, ClientStep, ServerStep

LEMMA UdpInit == Init => UdpInv
<1> SUFFICES ASSUME Init PROVE UdpInv
  OBVIOUS
<1>1. /\ faulty \in BOOLEAN /\ faults = 0 /\ dropped = {}
      /\ cpc = [c \in Client |-> "prompt"] /\ asked = [c \in Client |-> 0]
      /\ err = [c \in Client |-> FALSE] /\ answers = [c \in Client |-> << >>]
      /\ spc = "down" /\ sbuf = Zeroes /\ cur = Idle /\ requests = << >> /\ runs = 0
      /\ sent = [c \in Client |-> << >>]
      /\ heard = [c \in Client |-> [ask |-> 0, data |-> << >>]]
  BY DEF Init, Each
<1>2. buf \in [Client -> Fresh]
  BY DEF Init
<1>3. buf \in [Client -> Buffer]
  BY <1>2, FreshIs
<1>4. \A i \in 1 .. Len(<< >>) : FALSE
  OBVIOUS
<1>5. TypeOK
  <2>1. Zeroes \in Buffer
    BY SpecialBytes DEF Zeroes, Buffer
  <2>2. /\ << >> \in Seq(Buffer) /\ << >> \in Seq([ask : Nat, data : Buffer])
        /\ << >> \in Seq([from : Client, ask : Nat, data : Buffer])
        /\ [ask |-> 0, data |-> << >>] \in [ask : Nat, data : Seq(Byte)]
    OBVIOUS
  <2>3. /\ faults \in 0 .. (IF faulty THEN MaxFaults ELSE 0) /\ runs \in 0 .. MaxRuns
        /\ \A c \in Client : asked[c] <= MaxAsks[c]
    BY <1>1, UdpFacts
  <2> QED
    BY <1>1, <1>2, <1>3, <2>1, <2>2, <2>3 DEF TypeOK
<1>6. SentInv
  <2>1. Len(<< >>) = 0 /\ \A k \in 1 .. 0 : FALSE
    OBVIOUS
  <2>2. \A c \in Client : sent[c] = << >> /\ asked[c] = 0 /\ cpc[c] # "read"
    BY <1>1
  <2> QED
    BY <2>1, <2>2 DEF SentInv
<1>7. OwnInv
  BY <1>1, <1>4 DEF OwnInv, RequestsOwn, CurOwn, AnswersOwn, AnswersAreOwn
<1>8. FlightInv
  BY <1>1, <1>4, IdleIs DEF FlightInv, OneUnderWay, Heard
<1> QED
  BY <1>5, <1>6, <1>7, <1>8 DEF UdpInv

LEMMA UdpInvariant == Spec => []UdpInv
  BY UdpInit, UdpStep, PTL DEF Spec

LEMMA UdpMeans == UdpInv => TypeOK /\ EchoIsOwn /\ AnswersAreOwn
<1> SUFFICES ASSUME UdpInv PROVE EchoIsOwn
  BY DEF UdpInv, OwnInv
<1> SUFFICES ASSUME NEW c \in Client, ~faulty, cpc[c] = "prompt", asked[c] > 0,
                    \A k \in 1 .. asked[c] : StrLen(sent[c][k]) > 0
             PROVE  heard[c] = [ask |-> asked[c], data |-> String(sent[c][asked[c]])]
  BY DEF EchoIsOwn
<1>1. Careful(c)
  BY DEF Careful
<1> QED
  BY <1>1 DEF UdpInv, FlightInv, Heard

\* Every variable keeps to its values in just_study/9.echo_service_udp: whatever the stack
\* held before, no read and no recvfrom stores a byte beyond the end of a buffer, and the
\* server answers a request only when it has taken one.
THEOREM TypeCorrect == Spec => []TypeOK
  BY UdpInvariant, UdpMeans, PTL

\* Without faults the line that client.c prints is the one it has just sent, however many
\* clients server.c serves and however often it is killed and started anew.
THEOREM EchoHolds == Spec => []EchoIsOwn
  BY UdpInvariant, UdpMeans, PTL

\* Even with datagrams lost and doubled, what client.c prints begins with a line of its own.
THEOREM AnswersHold == Spec => []AnswersAreOwn
  BY UdpInvariant, UdpMeans, PTL
-----------------------------------------------------------------------------
\* --- What a client waits for.
Under(c) == \E i \in 1 .. Len(requests) : requests[i].from = c

\* A client that waits has an error to report, an answer to read, its request in the
\* server's queue or in its hands, or a datagram of its own was lost: the safety half
\* of Answered.
NobodyForgotten ==
    \A c \in Client :
        cpc[c] = "read" => err[c] \/ answers[c] # << >> \/ Under(c) \/ cur.from = c \/ c \in dropped

\* The line and its fate.
LEMMA AskIsHeard ==
  ASSUME UdpInv, NobodyForgotten, NEW c \in Client, Ask(c)
  PROVE  NobodyForgotten'
<1>1. TypeOK
  BY DEF UdpInv
<1>2. /\ \A e \in Client : e # c => cpc'[e] = cpc[e] /\ err'[e] = err[e]
      /\ answers' = answers /\ cur' = cur /\ dropped \subseteq dropped'
  BY <1>1 DEF Ask, Typed, Write, GoTo, Request, Arrive, net, TypeOK
<1> DEFINE new == [from |-> c, ask |-> asked'[c], data |-> buf'[c]]
<1>3. \/ requests' = requests
      \/ \E n \in Nat : requests' = requests \o Times(n, new)
  <2>1. \A n \in Copies : n \in Nat
    BY DEF Copies
  <2> QED
    BY <2>1 DEF Ask, Write, Request
<1>4. requests \in Seq([from : Client, ask : Nat, data : Buffer])
  BY <1>1 DEF TypeOK
<1>5. PICK r \in Seq([from : Client, ask : Nat, data : Buffer]) : r = requests
  BY <1>4
<1>6. ASSUME NEW n \in Nat, requests' = requests \o Times(n, new)
      PROVE  /\ \A i \in 1 .. Len(requests) :
                    i \in 1 .. Len(requests') /\ requests'[i] = requests[i]
             /\ n > 0 => Under(c)'
  <2> DEFINE S == [from : Client, ask : Nat, data : Buffer]
  <2>1. PICK t \in Seq(S) : t = Times(n, new) /\ Len(t) = n /\ \A i \in 1 .. n : t[i] = new
    <3>1. TypeOK'
      BY AskStep DEF UdpInv
    <3>2. new \in S
      BY <3>1 DEF TypeOK
    <3> HIDE DEF S, new
    <3>3. /\ Times(n, new) \in Seq(S) /\ Len(Times(n, new)) = n
          /\ \A i \in 1 .. n : Times(n, new)[i] = new
      BY <3>2, TimesIs
    <3> QED
      BY <3>3
  <2> HIDE DEF new
  <2>2. r \in Seq(S) /\ t \in Seq(S) /\ Len(r) \in Nat /\ n \in Nat
    BY LenProperties
  <2>3. /\ Len(r \o t) = Len(r) + Len(t)
        /\ \A i \in 1 .. Len(r) + Len(t) :
               (r \o t)[i] = IF i <= Len(r) THEN r[i] ELSE t[i - Len(r)]
    <3> HIDE DEF S
    <3> QED
      BY <2>2, ConcatProperties
  <2>4. requests' = r \o t /\ Len(t) = n
    BY <1>5, <1>6, <2>1
  <2>5. \A i \in 1 .. Len(r) : i \in 1 .. Len(r \o t) /\ (r \o t)[i] = r[i]
    BY <2>2, <2>3, <2>4
  <2>6. ASSUME n > 0 PROVE Under(c)'
    <3>1. Len(r) + 1 \in 1 .. Len(r \o t) /\ Len(r) + 1 - Len(r) = 1 /\ ~(Len(r) + 1 <= Len(r))
      BY <2>2, <2>3, <2>4, <2>6
    <3>2. (r \o t)[Len(r) + 1] = t[1] /\ 1 \in 1 .. n
      BY <2>2, <2>3, <2>4, <2>6, <3>1
    <3>3. (r \o t)[Len(r) + 1] = new
      BY <2>1, <3>2
    <3>4. new.from = c
      BY DEF new
    <3> QED
      BY <2>4, <3>1, <3>3, <3>4 DEF Under
  <2> QED
    BY <1>5, <2>4, <2>5, <2>6
<1>7. \A e \in Client : Under(e) => Under(e)'
  BY <1>3, <1>6 DEF Under
<1>8. cpc'[c] = "read" => err'[c] \/ Under(c)' \/ c \in dropped'
  <2> SUFFICES ASSUME cpc'[c] = "read", ~err'[c] PROVE Under(c)' \/ c \in dropped'
    OBVIOUS
  <2>1. ~err[c] /\ spc # "down"
    BY <1>1 DEF Ask, Write, GoTo, TypeOK
  <2>2. PICK n \in Copies : Request(c, n)
    BY <2>1 DEF Ask, Write
  <2>3. n \in Nat /\ (n = 0 \/ n > 0)
    BY DEF Copies
  <2>4. n = 0 => c \in dropped'
    BY <2>2 DEF Request, Arrive
  <2>5. n > 0 => Under(c)'
    BY <1>6, <2>2, <2>3 DEF Request
  <2> QED
    BY <2>3, <2>4, <2>5
<1> QED
  BY <1>2, <1>7, <1>8 DEF NobodyForgotten

LEMMA RecvIsHeard == ASSUME UdpInv, NobodyForgotten, SRecv PROVE NobodyForgotten'
<1>1. /\ requests \in Seq([from : Client, ask : Nat, data : Buffer]) /\ requests # << >>
      /\ requests' = Tail(requests) /\ cur'.from = Head(requests).from
      /\ UNCHANGED <<cpc, err, answers, dropped>> /\ spc = "recv" /\ TypeOK
  BY DEF UdpInv, TypeOK, SRecv, client, net
<1>2. \A c \in Client : cur.from # c
  BY <1>1, IdleIs DEF TypeOK
<1>3. PICK r \in Seq([from : Client, ask : Nat, data : Buffer]) : r = requests /\ r # << >>
  BY <1>1
<1>4. /\ Len(r) \in Nat /\ Len(r) # 0 /\ Head(r) = r[1] /\ Len(Tail(r)) = Len(r) - 1
      /\ \A i \in 1 .. Len(Tail(r)) : Tail(r)[i] = r[i + 1]
  <2>1. r \in Seq([from : Client, ask : Nat, data : Buffer]) /\ r # << >>
    BY <1>3
  <2> QED
    BY <2>1, HeadTailProperties, EmptySeq, LenProperties
<1>5. ASSUME NEW c \in Client, Under(c) PROVE Under(c)' \/ cur'.from = c
  <2>1. PICK i \in 1 .. Len(r) : r[i].from = c
    BY <1>3, <1>5 DEF Under
  <2>2. CASE i = 1
    BY <1>1, <1>3, <1>4, <2>1, <2>2
  <2>3. CASE i # 1
    <3>1. i - 1 \in 1 .. Len(Tail(r)) /\ i - 1 + 1 = i
      BY <1>4, <2>3
    <3>2. Tail(r)[i - 1].from = c
      BY <1>4, <2>1, <3>1
    <3> QED
      BY <1>1, <1>3, <3>1, <3>2 DEF Under
  <2> QED
    BY <2>2, <2>3
<1> QED
  BY <1>1, <1>2, <1>5 DEF NobodyForgotten

\* The answer arrives, or is lost, or is for a client that has gone.
LEMMA SendIsHeard == ASSUME UdpInv, NobodyForgotten, SSend PROVE NobodyForgotten'
<1>1. /\ TypeOK /\ cur.from \in Client /\ cur.ask \in Nat /\ UNCHANGED <<cpc, err, requests>>
      /\ dropped \subseteq dropped'
  BY DEF UdpInv, TypeOK, SSend, Arrive, net
<1> DEFINE new == [ask |-> cur.ask, data |-> sbuf]
<1>2. ASSUME cpc[cur.from] # "gone" PROVE answers'[cur.from] # << >> \/ cur.from \in dropped'
  <2>1. PICK n \in Copies :
          /\ answers' = [answers EXCEPT ![cur.from] = answers[cur.from] \o Times(n, new)]
          /\ Arrive(n, cur.from)
    BY <1>2 DEF SSend
  <2>2. n \in Nat /\ (n = 0 \/ n > 0)
    BY DEF Copies
  <2>3. n = 0 => cur.from \in dropped'
    BY <2>1 DEF Arrive
  <2>4. ASSUME n > 0 PROVE answers'[cur.from] # << >>
    <3>1. PICK a \in Seq([ask : Nat, data : Buffer]) : a = answers[cur.from]
      BY <1>1 DEF TypeOK
    <3> DEFINE S == [ask : Nat, data : Buffer]
    <3>2. PICK t \in Seq(S) : t = Times(n, new) /\ Len(t) = n
      <4>1. new \in S
        BY <1>1 DEF TypeOK
      <4> HIDE DEF S, new
      <4>2. Times(n, new) \in Seq(S) /\ Len(Times(n, new)) = n
        BY <2>2, <4>1, TimesIs
      <4> QED
        BY <4>2
    <3>3. a \in Seq(S) /\ t \in Seq(S) /\ Len(a) \in Nat
      BY LenProperties
    <3>4. Len(a \o t) = Len(a) + Len(t)
      <4> HIDE DEF S
      <4> QED
        BY <3>3, ConcatProperties
    <3>5. Len(a \o t) # 0
      BY <2>2, <2>4, <3>2, <3>3, <3>4
    <3>6. answers'[cur.from] = a \o t
      BY <1>1, <2>1, <3>1, <3>2 DEF TypeOK
    <3> QED
      BY <3>5, <3>6
  <2> QED
    BY <2>2, <2>3, <2>4
<1>3. \A e \in Client : e # cur.from => answers'[e] = answers[e]
  BY <1>1 DEF SSend, TypeOK
<1>4. ASSUME NEW e \in Client, cpc'[e] = "read"
      PROVE  err'[e] \/ answers'[e] # << >> \/ Under(e)' \/ e \in dropped'
  <2>1. CASE e = cur.from
    BY <1>1, <1>2, <1>4, <2>1
  <2>2. CASE e # cur.from
    BY <1>1, <1>3, <1>4, <2>2 DEF NobodyForgotten, Under
  <2> QED
    BY <2>1, <2>2
<1> QED
  BY <1>4 DEF NobodyForgotten

LEMMA KillIsHeard == ASSUME UdpInv, NobodyForgotten, SKill PROVE NobodyForgotten'
<1>1. /\ UNCHANGED <<cpc, err, answers>>
      /\ dropped' = dropped \union {r.from : r \in {requests[i] : i \in 1 .. Len(requests)}}
                    \union ({cur.from} \ {Nobody})
  BY DEF SKill, client
<1>2. ASSUME NEW c \in Client, Under(c) PROVE c \in dropped'
  BY <1>1, <1>2 DEF Under
<1>3. ASSUME NEW c \in Client, cur.from = c PROVE c \in dropped'
  BY <1>1, <1>3, UdpFacts
<1> QED
  BY <1>1, <1>2, <1>3 DEF NobodyForgotten

LEMMA HeardStep == UdpInv /\ NobodyForgotten /\ [Next]_vars => NobodyForgotten'
<1> SUFFICES ASSUME UdpInv, NobodyForgotten, [Next]_vars PROVE NobodyForgotten'
  OBVIOUS
<1> USE DEF NobodyForgotten, Under
<1>1. CASE UNCHANGED vars
  BY <1>1 DEF vars, client, server, net
<1>2. ASSUME NEW c \in Client, Ask(c) PROVE NobodyForgotten'
  BY <1>2, AskIsHeard
<1>3. ASSUME NEW c \in Client, ClientStep(c) \/ Kill(c) PROVE NobodyForgotten'
  <2>1. TypeOK
    BY DEF UdpInv
  <2>2. cpc'[c] # "read" /\ UNCHANGED <<err, requests, cur, dropped>>
    BY <1>3, <2>1
       DEF ClientStep, ReadNothing, ReadError, ReadAnswer, Kill, GoTo, server, net, TypeOK
  <2>3. \A e \in Client : e # c => cpc'[e] = cpc[e] /\ answers'[e] = answers[e]
    BY <1>3, <2>1
       DEF ClientStep, ReadNothing, ReadError, ReadAnswer, Kill, GoTo, server, net, TypeOK
  <2> QED
    BY <2>2, <2>3
<1>4. CASE SStart
  BY <1>4 DEF SStart, client, net
<1>5. CASE SRecv
  BY <1>5, RecvIsHeard
<1>6. CASE SSend
  BY <1>6, SendIsHeard
<1>7. CASE SKill
  BY <1>7, KillIsHeard
<1> QED
  BY <1>1, <1>2, <1>3, <1>4, <1>5, <1>6, <1>7 DEF Next, ServerStep

\* No client of just_study/9.echo_service_udp waits for nothing: unless a datagram of its
\* own was lost, its read returns or the server has its request.
THEOREM NobodyIsForgotten == Spec => []NobodyForgotten
<1>1. Init => NobodyForgotten
  BY DEF Init, Each, NobodyForgotten
<1> QED
  BY <1>1, HeardStep, UdpInvariant, PTL DEF Spec
=============================================================================
