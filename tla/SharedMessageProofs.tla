------------------------ MODULE SharedMessageProofs -------------------------
(***************************************************************************)
(* Proofs about SharedMessage, for any senders, receivers and messages.    *)
(***************************************************************************)
EXTENDS SharedMessage, TLAPS

Starting == {"start", "size", "clear_size", "clear_head", "clear_tail"}

\* While it watches, a receiver has reports left to make; before, it has made
\* none and its copy is empty.  What is being sent is a message.
TypeInv ==
    /\ TypeOK
    /\ \A r \in Receiver : /\ rpc[r] \notin {"done", "killed"} => n[r] < MONITORING_COUNT
                           /\ rpc[r] \in Starting => n[r] = 0 /\ local[r] = Zero
    /\ \A s \in Sender : spc[s] \in Sending => message[s] \in Message

\* The part of the memory that a torn copy has already is still as it was.
HeadCopied(r) == local[r].size = mem.size /\ local[r].text[1] = mem.text[1]

\* What the copy and the memory differ by, and what was noticed, is a store that
\* has not been reported; a store in the middle of the copy is one more.  What a
\* receiver has cleared and finds filled was stored since.
ReportOK(r) ==
    /\ n[r] <= writes[r]
    /\ rpc[r] = "clear_head" /\ mem.size # 0 => n[r] < writes[r]
    /\ rpc[r] = "clear_tail" /\ (mem.size # 0 \/ mem.text[1] # Nul) => n[r] < writes[r]
    /\ rpc[r] = "watch" /\ local[r] # mem => n[r] < writes[r]
    /\ rpc[r] \in {"print", "copy", "copy_tail"} => n[r] < writes[r]
    /\ rpc[r] = "copy_tail" => n[r] + 1 < writes[r] \/ HeadCopied(r)

ReportInv == kind # "file" => \A r \in Receiver : ReportOK(r)

\* A text of which %s prints a message or nothing, and one cut short.
Whole(text) == text[1] = Nul \/ <<text[1]>> \in Message \/ text \in Message
Short(text) == \E m \in Message : text[1] = m[1] /\ text[2] = Nul

\* At most one sender is under way, and its last store completes what its last
\* but one began, unless a receiver has cleared that.  Between sends the text is
\* whole or was cut.  A receiver that has cleared the head and not the tail either
\* was at it during a send or finds its work as it left it.
TurnInv ==
    /\ \A s, t \in Sender : spc[s] \in Sending /\ spc[t] \in Sending => s = t
    /\ \A s \in Sender : spc[s] = "tail" => mem.text[1] \in {Nul, message[s][1]}
    /\ Proper => Whole(mem.text) \/ (cut /\ Short(mem.text))
    /\ \A r \in Receiver : rpc[r] = "clear_tail" => cut \/ (Proper /\ mem.text[1] = Nul)
    /\ \A s \in Sender : spc[s] \in {"head", "tail"} => object = "sized"
    /\ object # "sized" => mem.text[1] = Nul
-----------------------------------------------------------------------------
\* A message is one cell or two, none of them empty.
LEMMA Ends ==
    ASSUME NEW m \in Message
    PROVE  /\ m[1] \in Cell /\ m[1] # Nul /\ m[Len(m)] \in Cell /\ m[Len(m)] # Nul
           /\ Nul \in Cell /\ (Len(m) = 1 \/ Len(m) = 2)
<1>1. m[1] \in Cell /\ m[Len(m)] \in Cell /\ Nul \in Cell
  BY DEF Cell
<1>2. m[1] # Nul /\ m[Len(m)] # Nul
  BY MessageAssumption
<1>3. Len(m) \in 1 .. 2
  BY MessageAssumption, Zenon
<1> QED
  BY <1>1, <1>2, <1>3

LEMMA Second ==
    ASSUME NEW m \in Message, Len(m) = 2
    PROVE  m[2] \in Cell /\ m[2] # Nul
<1>1. m[2] = m[Len(m)]
  OBVIOUS
<1> QED
  BY <1>1, Ends

LEMMA OneCell ==
    ASSUME NEW m \in Message, Len(m) # 2
    PROVE  <<m[1]>> \in Message
<1>1. Len(m) = 1
  BY Ends
<1>2. m \in Seq({m[1], m[Len(m)]})
  BY MessageAssumption
<1>3. m = <<m[1]>>
  BY <1>1, <1>2
<1> QED
  BY <1>3

LEMMA StoredCells ==
    ASSUME NEW m \in Message
    PROVE  m[1] \in Cell /\ (IF Len(m) = 2 THEN m[2] ELSE Nul) \in Cell
<1>1. m[1] \in Cell /\ Nul \in Cell
  BY Ends
<1>2. Len(m) = 2 => m[2] \in Cell
  BY Second
<1> QED
  BY <1>1, <1>2

LEMMA ZeroContent ==
    /\ Zero \in Content /\ Zero.text \in [1 .. 2 -> Cell] /\ Zero.text[1] = Nul
    /\ Nul \in Cell
<1>1. [i \in 1 .. 2 |-> Nul] \in [1 .. 2 -> Cell]
  BY DEF Cell
<1> QED
  BY <1>1 DEF Zero, Content, Cell

\* A store of one field or one cell leaves a content.
LEMMA Stores ==
    ASSUME NEW c \in Content
    PROVE  /\ \A s \in {0, PointerSize} : [c EXCEPT !.size = s] \in Content
           /\ \A x \in Cell : [c EXCEPT !.text[1] = x] \in Content
           /\ \A x \in Cell : [c EXCEPT !.text[2] = x] \in Content
  BY DEF Content

LEMMA Clears ==
    ASSUME NEW c \in Content
    PROVE  /\ [c EXCEPT !.size = 0] \in Content
           /\ [c EXCEPT !.text[1] = Nul] \in Content
           /\ [c EXCEPT !.text[2] = Nul] \in Content
<1>1. Nul \in Cell
  BY ZeroContent
<1> QED
  BY <1>1, Stores

\* No step takes a variable out of its type.
LEMMA TypeStep == TypeInv /\ [Next]_vars => TypeInv'
<1> SUFFICES ASSUME TypeInv, [Next]_vars PROVE TypeInv'
  OBVIOUS
<1> DEFINE Places == {"start", "size", "clear_size", "clear_head", "clear_tail", "watch",
                      "print", "copy", "copy_tail", "done", "killed"}
<1>t. /\ mem \in Content /\ rpc \in [Receiver -> Places] /\ local \in [Receiver -> Content]
      /\ n \in [Receiver -> 0 .. MONITORING_COUNT] /\ writes \in [Receiver -> Nat]
      /\ 0 \in 0 .. MONITORING_COUNT
      /\ spc \in [Sender -> Sending \union {"start", "done", "failed"}]
      /\ message \in [Sender -> Message \union {<< >>}]
      /\ MONITORING_COUNT \in Nat
  BY MessageAssumption DEF TypeInv, TypeOK
<1>c. cut' \in BOOLEAN
  <2>1. UNCHANGED cut \/ cut' = (cut \/ ~Proper) \/ cut' = (\E r \in Receiver : Clearing(r))
    BY DEF Next, vars, Receive, Send, RKill, SKill, SOpen, ROpen, RSize, RClearSize, RClearHead, RClearTail,
           RNotice, RPrint, RCopyHead, RCopyTail, SClearSize, SClearHead, SClearTail, SBus, SSize, SHead,
           STail, Store, Clear
  <2>2. (cut \/ ~Proper) \in BOOLEAN /\ (\E r \in Receiver : Clearing(r)) \in BOOLEAN
    OBVIOUS
  <2> QED
    BY <2>1, <2>2 DEF TypeInv, TypeOK
<1> USE DEF fixed, receivers, senders
<1>1. CASE UNCHANGED vars
  BY <1>1 DEF vars, TypeInv, TypeOK
<1>2. ASSUME NEW r \in Receiver, Receive(r) \/ RKill(r) PROVE TypeInv'
  <2> UNCHANGED <<fixed, senders>>
    BY <1>2 DEF Receive, RKill, ROpen, RSize, RClearSize, RClearHead, RClearTail, RNotice, RPrint,
                RCopyHead, RCopyTail
  <2>1. CASE ROpen(r) \/ RSize(r) \/ RNotice(r) \/ RPrint(r)
    <3>1. object' \in {"none", "empty", "sized"} /\ UNCHANGED <<mem, local, n, writes>>
      BY <2>1 DEF ROpen, RSize, RNotice, RPrint, Created, TypeInv, TypeOK
    <3>2. \E l \in {"size", "clear_size", "watch", "print", "copy"} :
             /\ rpc' = [rpc EXCEPT ![r] = l] /\ rpc[r] \notin {"done", "killed"}
             /\ l \in Starting => rpc[r] \in Starting
      BY <2>1 DEF ROpen, RSize, RNotice, RPrint, At, Starting
    <3>3. PICK l \in {"size", "clear_size", "watch", "print", "copy"} :
             /\ rpc' = [rpc EXCEPT ![r] = l] /\ rpc[r] \notin {"done", "killed"}
             /\ l \in Starting => rpc[r] \in Starting
      BY <3>2
    <3>4. rpc' \in [Receiver -> Places]
      BY <1>t, <3>3
    <3>5. ASSUME NEW x \in Receiver
          PROVE  /\ rpc'[x] \notin {"done", "killed"} => n[x] < MONITORING_COUNT
                 /\ rpc'[x] \in Starting => n[x] = 0 /\ local[x] = Zero
      BY <1>t, <3>3 DEF TypeInv, Starting
    <3> QED
      BY <1>t, <1>c, <3>1, <3>4, <3>5 DEF TypeInv, TypeOK
  <2>5. CASE RKill(r)
    <3>1. /\ UNCHANGED <<object, mem, writes>> /\ rpc' = [rpc EXCEPT ![r] = "killed"]
          /\ local' = [local EXCEPT ![r] = Zero] /\ n' = [n EXCEPT ![r] = 0]
      BY <2>5 DEF RKill
    <3>2. /\ rpc' \in [Receiver -> Places] /\ local' \in [Receiver -> Content]
          /\ n' \in [Receiver -> 0 .. MONITORING_COUNT]
      BY <1>t, <3>1, ZeroContent
    <3>3. ASSUME NEW x \in Receiver
          PROVE  /\ rpc'[x] \notin {"done", "killed"} => n'[x] < MONITORING_COUNT
                 /\ rpc'[x] \in Starting => n'[x] = 0 /\ local'[x] = Zero
      BY <1>t, <3>1 DEF TypeInv, Starting
    <3> QED
      BY <1>t, <1>c, <3>1, <3>2, <3>3 DEF TypeInv, TypeOK
  <2>2. CASE RClearSize(r) \/ RClearHead(r) \/ RClearTail(r)
    <3>1. mem' \in Content
      <4>1. \/ mem' = [mem EXCEPT !.size = 0] \/ mem' = [mem EXCEPT !.text[1] = Nul]
            \/ mem' = [mem EXCEPT !.text[2] = Nul]
        BY <2>2 DEF RClearSize, RClearHead, RClearTail, Clear
      <4> QED
        BY <1>t, <4>1, Clears
    <3>2. writes' \in [Receiver -> Nat]
      <4>1. \/ writes' = [x \in Receiver |-> IF x = r THEN 0 ELSE writes[x] + 1]
            \/ writes' = [x \in Receiver |-> IF x = r THEN writes[r] ELSE writes[x] + 1]
        BY <2>2 DEF RClearSize, RClearHead, RClearTail, Clear
      <4> QED
        BY <1>t, <4>1
    <3>3. /\ UNCHANGED <<object, local, n>> /\ rpc[r] \in Starting
          /\ \E l \in {"clear_head", "clear_tail", "watch", "copy"} : rpc' = [rpc EXCEPT ![r] = l]
      BY <2>2 DEF RClearSize, RClearHead, RClearTail, At, Starting
    <3>4. PICK l \in {"clear_head", "clear_tail", "watch", "copy"} : rpc' = [rpc EXCEPT ![r] = l]
      BY <3>3
    <3>5. rpc' \in [Receiver -> Places]
      BY <1>t, <3>4
    <3>6. ASSUME NEW x \in Receiver
          PROVE  /\ rpc'[x] \notin {"done", "killed"} => n[x] < MONITORING_COUNT
                 /\ rpc'[x] \in Starting => n[x] = 0 /\ local[x] = Zero
      BY <1>t, <3>3, <3>4 DEF TypeInv, Starting
    <3> QED
      BY <1>t, <1>c, <3>1, <3>2, <3>3, <3>5, <3>6 DEF TypeInv, TypeOK
  <2>4. CASE RCopyHead(r) \/ RCopyTail(r)
    <3>1. UNCHANGED <<object, mem, writes>>
      BY <2>4 DEF RCopyHead, RCopyTail
    <3>2. local' \in [Receiver -> Content]
      <4>1. mem.size \in {0, PointerSize} /\ mem.text[1] \in Cell /\ mem.text[2] \in Cell
        BY <1>t DEF Content
      <4>2. CASE RCopyHead(r)
        BY <1>t, <4>1, <4>2 DEF RCopyHead, Content
      <4>3. CASE RCopyTail(r)
        <5>1. [local[r] EXCEPT !.text[2] = mem.text[2]] \in Content
          <6>1. local[r] \in Content
            BY <1>t
          <6> QED
            BY <4>1, <6>1, Stores
        <5> QED
          BY <1>t, <4>3, <5>1 DEF RCopyTail
      <4> QED
        BY <2>4, <4>2, <4>3
    <3>3. CASE RCopyHead(r) \/ kind = "file"
      <4>1. UNCHANGED n /\ \E l \in {"copy_tail", "print"} : rpc' = [rpc EXCEPT ![r] = l]
        BY <2>4, <3>3 DEF RCopyHead, RCopyTail, At
      <4>2. rpc[r] \notin {"done", "killed"} /\ \A x \in Receiver : x # r => local'[x] = local[x]
        BY <1>t, <2>4 DEF RCopyHead, RCopyTail, At
      <4>3. rpc' \in [Receiver -> Places]
        BY <1>t, <4>1
      <4>4. ASSUME NEW x \in Receiver
            PROVE  /\ rpc'[x] \notin {"done", "killed"} => n'[x] < MONITORING_COUNT
                   /\ rpc'[x] \in Starting => n'[x] = 0 /\ local'[x] = Zero
        BY <1>t, <4>1, <4>2 DEF TypeInv, Starting
      <4> QED
        BY <1>t, <1>c, <3>1, <3>2, <4>1, <4>3, <4>4 DEF TypeInv, TypeOK
    <3>4. CASE RCopyTail(r) /\ kind # "file"
      <4>1. n' = [n EXCEPT ![r] = n[r] + 1] /\ rpc[r] = "copy_tail"
            /\ rpc' = [rpc EXCEPT ![r] = IF n[r] + 1 = MONITORING_COUNT THEN "done" ELSE "watch"]
        BY <3>4 DEF RCopyTail, At, Last
      <4>2. n[r] \in Nat /\ n[r] < MONITORING_COUNT
        <5>1. n[r] \in 0 .. MONITORING_COUNT
          BY <1>t
        <5>2. rpc[r] \notin {"done", "killed"}
          BY <4>1
        <5> QED
          BY <5>1, <5>2 DEF TypeInv
      <4>3. \A x \in Receiver : x # r => local'[x] = local[x] /\ n'[x] = n[x] /\ rpc'[x] = rpc[x]
        BY <1>t, <3>4, <4>1 DEF RCopyTail
      <4>4. /\ rpc' \in [Receiver -> Places] /\ n' \in [Receiver -> 0 .. MONITORING_COUNT]
            /\ rpc'[r] # "done" => n'[r] < MONITORING_COUNT
            /\ rpc'[r] \in {"done", "watch"}
        BY <1>t, <4>1, <4>2
      <4>5. ASSUME NEW x \in Receiver
            PROVE  /\ rpc'[x] \notin {"done", "killed"} => n'[x] < MONITORING_COUNT
                   /\ rpc'[x] \in Starting => n'[x] = 0 /\ local'[x] = Zero
        <5>1. CASE x = r
          BY <4>4, <5>1 DEF Starting
        <5>2. CASE x # r
          BY <4>3, <5>2 DEF TypeInv
        <5> QED
          BY <5>1, <5>2
      <4> QED
        BY <1>t, <1>c, <3>1, <3>2, <4>4, <4>5 DEF TypeInv, TypeOK
    <3> QED
      BY <2>4, <3>3, <3>4
  <2> QED
    BY <1>2, <2>1, <2>2, <2>4, <2>5 DEF Receive
<1>3. ASSUME NEW s \in Sender, (\E m \in Message : SOpen(s, m)) \/ Send(s) \/ SKill(s) PROVE TypeInv'
  <2> UNCHANGED <<fixed, receivers>>
    BY <1>3 DEF SOpen, Send, SKill, SClearSize, SClearHead, SClearTail, SBus, SSize, SHead, STail
  <2>1. ASSUME NEW m \in Message, SOpen(s, m) PROVE TypeInv'
    <3>1. /\ UNCHANGED <<mem, writes>> /\ object' \in {"none", "empty", "sized"}
          /\ message' = [message EXCEPT ![s] = m]
          /\ \E l \in {"failed", "clear_size", "size"} : spc' = [spc EXCEPT ![s] = l]
      BY <2>1 DEF SOpen, Created, GoTo, TypeInv, TypeOK
    <3> QED
      BY <1>t, <1>c, <3>1 DEF TypeInv, TypeOK, Sending
  <2>2. CASE Send(s) \/ SKill(s)
    <3>1. spc[s] \in Sending /\ message[s] \in Message /\ UNCHANGED <<object, message>>
      BY <2>2 DEF Send, SKill, SClearSize, SClearHead, SClearTail, SBus, SSize, SHead, STail, Sending, TypeInv
    <3>2. \E l \in Sending \union {"done", "failed"} : spc' = [spc EXCEPT ![s] = l]
      BY <2>2 DEF Send, SKill, SClearSize, SClearHead, SClearTail, SBus, SSize, SHead, STail, Sending, GoTo
    <3>3. writes' \in [Receiver -> Nat]
      BY <1>t, <2>2 DEF Send, SKill, SClearSize, SClearHead, SClearTail, SBus, SSize, SHead, STail, Store
    <3>4. mem' \in Content
      <4>1. CASE SClearSize(s) \/ SSize(s) \/ SClearHead(s) \/ SClearTail(s)
        <5>1. \/ mem' = [mem EXCEPT !.size = 0] \/ mem' = [mem EXCEPT !.size = PointerSize]
              \/ mem' = [mem EXCEPT !.text[1] = Nul] \/ mem' = [mem EXCEPT !.text[2] = Nul]
          BY <4>1 DEF SClearSize, SSize, SClearHead, SClearTail, Store
        <5> QED
          BY <1>t, <5>1, Clears, Stores
      <4>2. CASE SHead(s) \/ STail(s)
        <5>1. /\ \A x \in Cell : [mem EXCEPT !.text[1] = x] \in Content
              /\ \A x \in Cell : [mem EXCEPT !.text[2] = x] \in Content
          BY <1>t, Stores
        <5>2. CASE SHead(s)
          <6>1. mem' = [mem EXCEPT !.text[1] = message[s][1]] /\ message[s][1] \in Cell
            BY <5>2, <3>1, StoredCells DEF SHead, Store
          <6> QED
            BY <5>1, <6>1
        <5>3. CASE STail(s)
          <6>1. PICK x : mem' = [mem EXCEPT !.text[2] = x]
                         /\ x = (IF Len(message[s]) = 2 THEN message[s][2] ELSE Nul)
            BY <5>3 DEF STail, Store
          <6>2. x \in Cell
            BY <3>1, <6>1, StoredCells
          <6> QED
            BY <5>1, <6>1, <6>2
        <5> QED
          BY <4>2, <5>2, <5>3
      <4>3. CASE SBus(s) \/ SKill(s)
        BY <1>t, <4>3 DEF SBus, SKill
      <4> QED
        BY <2>2, <4>1, <4>2, <4>3 DEF Send
    <3> QED
      BY <1>t, <1>c, <3>1, <3>2, <3>3, <3>4 DEF TypeInv, TypeOK
  <2> QED
    BY <1>3, <2>1, <2>2
<1> QED
  BY <1>1, <1>2, <1>3 DEF Next

LEMMA TypeInit == Init => TypeInv
<1> SUFFICES ASSUME Init PROVE TypeInv
  OBVIOUS
<1>1. mem \in Content /\ local \in [Receiver -> Content]
  BY ZeroContent DEF Init
<1>2. \A r \in Receiver : rpc[r] = "start" /\ local[r] = Zero /\ n[r] = 0
  BY DEF Init
<1>3. 0 < MONITORING_COUNT /\ 0 \in 0 .. MONITORING_COUNT
  BY MessageAssumption
<1>4. TypeOK
  BY <1>1, <1>3, ZeroContent DEF Init, TypeOK
<1>5. \A s \in Sender : spc[s] \notin Sending
  BY DEF Init, Sending
<1> QED
  BY <1>2, <1>3, <1>4, <1>5 DEF TypeInv

LEMMA TypeInvariant == Spec => []TypeInv
  BY TypeInit, TypeStep, PTL DEF Spec

\* Type correctness, for any processes, messages and numbers of reports.
THEOREM TypeCorrect == Spec => []TypeOK
  BY TypeInvariant, PTL DEF TypeInv
-----------------------------------------------------------------------------
\* A receiver's copy is the memory when its three parts are.
LEMMA SameContent ==
    ASSUME NEW c \in Content, NEW d \in Content,
           c.size = d.size, c.text[1] = d.text[1], c.text[2] = d.text[2]
    PROVE  c = d
<1>1. c.text \in [1 .. 2 -> Cell] /\ d.text \in [1 .. 2 -> Cell]
  BY DEF Content
<1>2. \A i \in 1 .. 2 : i = 1 \/ i = 2
  OBVIOUS
<1>3. c.text = d.text
  BY <1>1, <1>2
<1> QED
  BY <1>3 DEF Content

\* A store leaves every receiver it does not move with one more store to report.
LEMMA StoreStep ==
    ASSUME TypeInv, NEW r \in Receiver, ReportOK(r),
           n'[r] = n[r], rpc'[r] = rpc[r], writes'[r] = writes[r] + 1
    PROVE  ReportOK(r)'
<1>1. n[r] \in Nat /\ writes[r] \in Nat
  BY MessageAssumption DEF TypeInv, TypeOK
<1> QED
  BY <1>1 DEF ReportOK

\* Each report is owed to a store of its own.
LEMMA ReportStep == TypeInv /\ ReportInv /\ [Next]_vars => ReportInv'
<1> SUFFICES ASSUME TypeInv, ReportInv, [Next]_vars PROVE ReportInv'
  OBVIOUS
<1> SUFFICES ASSUME kind # "file", NEW x \in Receiver PROVE ReportOK(x)'
  <2>1. kind' = kind
    BY DEF Next, vars, fixed, Receive, Send, RKill, SKill, SOpen, ROpen, RSize, RClearSize, RClearHead, RClearTail,
           RNotice, RPrint, RCopyHead, RCopyTail, SClearSize, SClearHead, SClearTail, SBus, SSize, SHead, STail
  <2> QED
    BY <2>1 DEF ReportInv
<1>t. /\ mem \in Content /\ local[x] \in Content /\ n[x] \in Nat /\ writes[x] \in Nat
      /\ DOMAIN rpc = Receiver /\ DOMAIN local = Receiver
      /\ n \in [Receiver -> 0 .. MONITORING_COUNT] /\ writes \in [Receiver -> Nat]
  BY MessageAssumption DEF TypeInv, TypeOK
<1>i. ReportOK(x) /\ (rpc[x] \in Starting => n[x] = 0 /\ local[x] = Zero)
  BY DEF ReportInv, TypeInv
\* A step of others that stores nothing.
<1>s. UNCHANGED <<mem, writes>> /\ n'[x] = n[x] /\ local'[x] = local[x] /\ rpc'[x] = rpc[x] => ReportOK(x)'
  BY <1>i DEF ReportOK, HeadCopied
<1>1. CASE UNCHANGED vars
  BY <1>1, <1>s DEF vars, receivers
<1>2. ASSUME NEW r \in Receiver, r # x, Receive(r) \/ RKill(r) PROVE ReportOK(x)'
  <2>1. n'[x] = n[x] /\ local'[x] = local[x] /\ rpc'[x] = rpc[x]
    BY <1>t, <1>2 DEF Receive, RKill, ROpen, RSize, RClearSize, RClearHead, RClearTail, RNotice, RPrint, RCopyHead,
                      RCopyTail, At
  <2>2. UNCHANGED <<mem, writes>> \/ writes'[x] = writes[x] + 1
    BY <1>2 DEF Receive, RKill, ROpen, RSize, RClearSize, RClearHead, RClearTail, RNotice, RPrint, RCopyHead,
                RCopyTail, Clear
  <2> QED
    BY <1>i, <1>s, <2>1, <2>2, StoreStep
<1>3. ASSUME Receive(x) \/ RKill(x) PROVE ReportOK(x)'
  <2> USE DEF At
  <2>1. CASE ROpen(x) \/ RSize(x)
    <3>1. UNCHANGED <<mem, n, local, writes>> /\ rpc'[x] \in {"size", "clear_size"}
      BY <1>t, <2>1 DEF ROpen, RSize
    <3> QED
      BY <1>i, <3>1 DEF ReportOK
  <2>7. CASE RKill(x)
    <3>1. n'[x] = 0 /\ writes' = writes /\ rpc'[x] = "killed"
      BY <1>t, <2>7 DEF RKill
    <3> QED
      BY <1>t, <3>1 DEF ReportOK
  <2>2. CASE RClearSize(x)
    <3>1. writes'[x] = 0 /\ n' = n /\ rpc'[x] = "clear_head" /\ n[x] = 0
      BY <1>t, <1>i, <2>2 DEF RClearSize, Starting
    <3>2. mem'.size = 0
      BY <1>t, <2>2 DEF RClearSize, Content
    <3> QED
      BY <3>1, <3>2 DEF ReportOK
  <2>3. CASE RClearHead(x)
    <3>1. writes'[x] = writes[x] /\ n' = n /\ rpc[x] = "clear_head" /\ rpc'[x] = "clear_tail"
      BY <1>t, <2>3 DEF RClearHead, Clear
    <3>2. mem'.size = mem.size /\ mem'.text[1] = Nul
      BY <1>t, <2>3 DEF RClearHead, Clear, Content
    <3> QED
      BY <1>t, <1>i, <3>1, <3>2 DEF ReportOK
  <2>8. CASE RClearTail(x)
    <3>1. /\ writes'[x] = writes[x] /\ n' = n /\ rpc[x] = "clear_tail" /\ rpc'[x] = "watch"
          /\ local'[x] = Zero
      BY <1>t, <1>i, <2>8 DEF RClearTail, Clear, Starting
    <3>2. mem'.size = mem.size /\ mem'.text[1] = mem.text[1] /\ mem'.text[2] = Nul
      BY <1>t, <2>8 DEF RClearTail, Clear, Content
    <3>3. mem.size = 0 /\ mem.text[1] = Nul => mem' = Zero
      <4>1. mem' \in Content
        BY TypeStep DEF TypeInv, TypeOK
      <4>2. Zero.size = 0 /\ Zero.text[1] = Nul /\ Zero.text[2] = Nul
        BY DEF Zero
      <4> QED
        BY <3>2, <4>1, <4>2, ZeroContent, SameContent
    <3> QED
      BY <1>t, <1>i, <3>1, <3>3 DEF ReportOK
  <2>4. CASE RNotice(x) \/ RPrint(x)
    <3>1. UNCHANGED <<mem, n, local, writes>> /\ rpc'[x] \in {"print", "copy"}
          /\ ((rpc[x] = "watch" /\ local[x] # mem) \/ rpc[x] = "print")
      BY <1>t, <2>4 DEF RNotice, RPrint, Differs
    <3> QED
      BY <1>i, <3>1 DEF ReportOK
  <2>5. CASE RCopyHead(x)
    <3>1. UNCHANGED <<mem, n, writes>> /\ rpc'[x] = "copy_tail" /\ rpc[x] = "copy"
      BY <1>t, <2>5 DEF RCopyHead
    <3>2. HeadCopied(x)'
      BY <1>t, <2>5 DEF RCopyHead, HeadCopied, Content
    <3> QED
      BY <1>i, <3>1, <3>2 DEF ReportOK
  <2>6. CASE RCopyTail(x)
    <3>1. UNCHANGED <<mem, writes>> /\ rpc[x] = "copy_tail" /\ n'[x] = n[x] + 1
          /\ rpc'[x] \in {"watch", "done"}
      BY <1>t, <2>6 DEF RCopyTail
    <3>2. ASSUME HeadCopied(x) PROVE local'[x] = mem
      <4>1. local'[x] = [local[x] EXCEPT !.text[2] = mem.text[2]]
        BY <1>t, <2>6 DEF RCopyTail
      <4>2. /\ local'[x].size = mem.size /\ local'[x].text[1] = mem.text[1]
            /\ local'[x].text[2] = mem.text[2]
        BY <1>t, <3>2, <4>1 DEF HeadCopied, Content
      <4>3. local'[x] \in Content
        BY <1>t, TypeStep DEF TypeInv, TypeOK
      <4> QED
        BY <1>t, <4>2, <4>3, SameContent
    <3> QED
      BY <1>t, <1>i, <3>1, <3>2 DEF ReportOK
  <2> QED
    BY <1>3, <2>1, <2>2, <2>3, <2>4, <2>5, <2>6, <2>7, <2>8 DEF Receive
<1>4. ASSUME NEW s \in Sender, (\E m \in Message : SOpen(s, m)) \/ Send(s) \/ SKill(s) PROVE ReportOK(x)'
  <2>1. UNCHANGED receivers /\ (UNCHANGED <<mem, writes>> \/ writes'[x] = writes[x] + 1)
    BY <1>4 DEF SOpen, Send, SKill, SClearSize, SClearHead, SClearTail, SBus, SSize, SHead, STail, Store
  <2> QED
    BY <1>i, <1>s, <2>1, StoreStep DEF receivers
<1> QED
  BY <1>1, <1>2, <1>3, <1>4 DEF Next

LEMMA ReportInit == Init => ReportInv
  BY DEF Init, ReportInv, ReportOK

\* Only the receivers that count are promised this; the file monitor's n is 0.
LEMMA FileCounts == TypeInv /\ (kind = "file" => \A r \in Receiver : n[r] = 0) /\ [Next]_vars
                      => (kind = "file" => \A r \in Receiver : n[r] = 0)'
<1> SUFFICES ASSUME TypeInv, kind = "file" => \A r \in Receiver : n[r] = 0, [Next]_vars
             PROVE  UNCHANGED kind /\ (kind = "file" => \A x \in Receiver : n'[x] \in {n[x], 0})
  OBVIOUS
<1>1. n \in [Receiver -> 0 .. MONITORING_COUNT]
  BY DEF TypeInv, TypeOK
<1>2. UNCHANGED kind /\ (kind = "file" => UNCHANGED n \/ \E r \in Receiver : n' = [n EXCEPT ![r] = 0])
  BY DEF Next, vars, fixed, receivers, Receive, Send, RKill, SKill, SOpen, ROpen, RSize, RClearSize,
         RClearHead, RClearTail, RNotice, RPrint, RCopyHead, RCopyTail, SClearSize, SClearHead, SClearTail,
         SBus, SSize, SHead, STail
<1> QED
  BY <1>1, <1>2

\* The receiver never stops on fewer stores than reports, although it copies the
\* memory in parts while others store into it and clear it.
THEOREM ReportsHold == Spec => []ReportsAreEarned
<1> DEFINE F == kind = "file" => \A r \in Receiver : n[r] = 0
<1>1. Init => F
  BY DEF Init
<1>2. TypeInv /\ F /\ ReportInv => ReportsAreEarned
  BY DEF TypeInv, TypeOK, ReportInv, ReportOK, ReportsAreEarned
<1>3. TypeInv /\ F /\ [Next]_vars => F'
  BY FileCounts
<1> QED
  BY <1>1, <1>2, <1>3, ReportInit, ReportStep, TypeInvariant, PTL DEF Spec
-----------------------------------------------------------------------------
\* %s prints a whole text as the message that it is, or as nothing, and of one
\* that was cut it prints the beginning.
LEMMA WholeIsShown ==
    ASSUME TypeInv, Whole(mem.text)
    PROVE  Shown(mem).text \in Message \union {<< >>}
<1>1. CASE mem.text[1] = Nul
  BY <1>1 DEF Shown
<1>2. CASE mem.text[1] # Nul /\ <<mem.text[1]>> \in Message
  BY <1>2 DEF Shown
<1>3. CASE mem.text[1] # Nul /\ <<mem.text[1]>> \notin Message /\ mem.text \in Message
  <2>1. mem.text \in [1 .. 2 -> Cell]
    BY DEF TypeInv, TypeOK, Content
  <2>2. Len(mem.text) = 2
    BY <2>1
  <2>3. mem.text[2] # Nul
    BY <1>3, <2>2, Second
  <2> QED
    BY <1>3, <2>3 DEF Shown
<1> QED
  BY <1>1, <1>2, <1>3 DEF Whole

LEMMA ShortIsShown ==
    ASSUME Short(mem.text)
    PROVE  \E m \in Message : Shown(mem).text = <<m[1]>>
<1>1. PICK m \in Message : mem.text[1] = m[1] /\ mem.text[2] = Nul
  BY DEF Short
<1>2. Shown(mem).text = <<m[1]>>
  BY <1>1, Ends DEF Shown
<1> QED
  BY <1>2

\* Two stored cells of a long message are the message.
LEMMA LongMessage ==
    ASSUME NEW t \in [1 .. 2 -> Cell], NEW m \in Message, Len(m) = 2,
           t[1] = m[1], t[2] = m[2]
    PROVE  t \in Message
<1>1. m \in Seq({m[1], m[Len(m)]})
  BY MessageAssumption
<1>2. m \in [1 .. 2 -> {m[1], m[2]}]
  BY <1>1
<1>3. \A i \in 1 .. 2 : i = 1 \/ i = 2
  OBVIOUS
<1>4. t = m
  BY <1>2, <1>3
<1> QED
  BY <1>4

\* A long message that loses its tail is cut; one that loses its head is gone.
LEMMA Cleared ==
    ASSUME NEW t \in [1 .. 2 -> Cell], NEW u, u[1] = t[1], u[2] = Nul, Whole(t) \/ Short(t)
    PROVE  Whole(u) \/ Short(u)
<1>1. CASE t[1] = Nul \/ <<t[1]>> \in Message
  BY <1>1 DEF Whole
<1>2. CASE t \in Message \/ Short(t)
  BY <1>2 DEF Short
<1> QED
  BY <1>1, <1>2 DEF Whole

\* A receiver's step: it may clear, and then knows whether anyone is sending.
LEMMA TurnReceive ==
    ASSUME TypeInv, TurnInv, NEW r \in Receiver, Receive(r) \/ RKill(r)
    PROVE  TurnInv'
<1>t. mem \in Content /\ mem.text \in [1 .. 2 -> Cell] /\ DOMAIN rpc = Receiver
      /\ cut \in BOOLEAN
  BY DEF TypeInv, TypeOK, Content
<1>u. UNCHANGED <<spc, message>>
  BY DEF Receive, RKill, ROpen, RSize, RClearSize, RClearHead, RClearTail, RNotice, RPrint, RCopyHead,
         RCopyTail, senders
<1>p. (Proper' <=> Proper) /\ (\A x \in Receiver : x # r => rpc'[x] = rpc[x])
  BY <1>t, <1>u DEF Receive, RKill, ROpen, RSize, RClearSize, RClearHead, RClearTail, RNotice, RPrint,
                    RCopyHead, RCopyTail, At, Proper
<1>o. object = "sized" => object' = "sized"
  BY DEF Receive, RKill, ROpen, RSize, RClearSize, RClearHead, RClearTail, RNotice, RPrint, RCopyHead,
         RCopyTail, Created
<1>1. CASE RClearHead(r)
  <2>1. mem'.text[1] = Nul /\ cut' = (cut \/ ~Proper) /\ UNCHANGED object
    BY <1>1, <1>t DEF RClearHead, Clear, Content
  <2>2. Whole(mem'.text)
    BY <2>1 DEF Whole
  <2>3. \A x \in Receiver : rpc'[x] = "clear_tail" => cut' \/ (Proper /\ mem'.text[1] = Nul)
    BY <2>1
  <2> QED
    BY <1>u, <1>p, <2>1, <2>2, <2>3 DEF TurnInv
<1>2. CASE RClearTail(r)
  <2>1. /\ mem'.text = [mem.text EXCEPT ![2] = Nul] /\ cut' = (cut \/ ~Proper)
        /\ UNCHANGED object /\ rpc[r] = "clear_tail" /\ rpc'[r] \in {"copy", "watch"}
    BY <1>2, <1>t DEF RClearTail, Clear, At, Content
  <2>2. mem'.text[1] = mem.text[1] /\ mem'.text[2] = Nul
    BY <1>t, <2>1
  <2>3. ASSUME Proper PROVE Whole(mem'.text) \/ (cut' /\ Short(mem'.text))
    <3>1. CASE cut
      <4>1. Whole(mem.text) \/ Short(mem.text)
        BY <2>3 DEF TurnInv
      <4> QED
        BY <1>t, <2>1, <2>2, <3>1, <4>1, Cleared
    <3>2. CASE ~cut
      <4>1. mem.text[1] = Nul
        BY <2>1, <3>2 DEF TurnInv
      <4> QED
        BY <2>2, <4>1 DEF Whole
    <3> QED
      BY <3>1, <3>2
  <2>4. \A x \in Receiver : rpc'[x] = "clear_tail" => cut' \/ (Proper /\ mem'.text[1] = Nul)
    <3>1. \A x \in Receiver : rpc'[x] = "clear_tail" => rpc[x] = "clear_tail"
      BY <1>p, <2>1
    <3> QED
      BY <2>1, <2>2, <3>1 DEF TurnInv
  <2> QED
    BY <1>u, <1>p, <2>1, <2>2, <2>3, <2>4 DEF TurnInv
<1>3. CASE ~RClearHead(r) /\ ~RClearTail(r)
  <2>1. mem'.text = mem.text /\ (cut => cut') /\ (rpc'[r] # "clear_tail")
    BY <1>3, <1>t DEF Receive, RKill, ROpen, RSize, RClearSize, RNotice, RPrint, RCopyHead, RCopyTail, At,
                      Content
  <2>2. \A x \in Receiver : rpc'[x] = "clear_tail" => cut' \/ (Proper /\ mem'.text[1] = Nul)
    BY <1>p, <2>1 DEF TurnInv
  <2>3. object' # "sized" => mem'.text[1] = Nul
    BY <1>o, <2>1 DEF TurnInv
  <2>4. \A s \in Sender : spc'[s] \in {"head", "tail"} => object' = "sized"
    BY <1>o, <1>u DEF TurnInv
  <2>5. Proper' => Whole(mem'.text) \/ (cut' /\ Short(mem'.text))
    BY <1>p, <2>1 DEF TurnInv
  <2>6. \A s \in Sender : spc'[s] = "tail" => mem'.text[1] \in {Nul, message'[s][1]}
    BY <1>u, <2>1 DEF TurnInv
  <2> QED
    BY <1>u, <1>p, <2>2, <2>3, <2>4, <2>5, <2>6 DEF TurnInv
<1> QED
  BY <1>1, <1>2, <1>3

\* A sender begins when no other sends; whoever is clearing then cuts into it.
LEMMA TurnOpen ==
    ASSUME TypeInv, careful, TurnInv, NEW s \in Sender, NEW m \in Message, SOpen(s, m)
    PROVE  TurnInv'
<1>t. /\ spc \in [Sender -> Sending \union {"start", "done", "failed"}]
      /\ object \in {"none", "empty", "sized"}
  BY DEF TypeInv, TypeOK
<1>1. /\ Proper /\ UNCHANGED <<mem, rpc>> /\ cut' = (\E r \in Receiver : rpc[r] \in {"clear_head", "clear_tail"})
      /\ object = "sized" => object' = "sized"
      /\ kind = "file" => UNCHANGED object
      /\ spc' = [spc EXCEPT ![s] = IF kind = "file" /\ object = "none" THEN "failed"
                                   ELSE IF kind = "sysv" THEN "clear_size" ELSE "size"]
  BY DEF SOpen, GoTo, Created, receivers, Clearing
<1>2. PICK l \in {"failed", "clear_size", "size"} :
         /\ spc' = [spc EXCEPT ![s] = l]
         /\ l = "failed" => object = "none"
  BY <1>1
<1>3. \A t \in Sender : t # s => spc'[t] = spc[t] /\ spc'[t] \notin Sending
  BY <1>t, <1>1, <1>2 DEF Proper
<1>4. spc'[s] = l
  BY <1>t, <1>2
<1>5. Proper' => mem'.text[1] = Nul
  <2>1. Proper' => l = "failed"
    BY <1>4 DEF Proper, Sending
  <2> QED
    BY <1>1, <1>2, <2>1 DEF TurnInv
<1>6. \A r \in Receiver : rpc'[r] = "clear_tail" => cut'
  BY <1>1
<1>7. \A t \in Sender : spc'[t] \notin {"head", "tail"}
  BY <1>3, <1>4 DEF Sending
<1>8. \A p, q \in Sender : spc'[p] \in Sending /\ spc'[q] \in Sending => p = q
  BY <1>3
<1>9. object' # "sized" => mem'.text[1] = Nul
  BY <1>1 DEF TurnInv
<1> QED
  BY <1>5, <1>6, <1>7, <1>8, <1>9 DEF TurnInv, Whole

\* The steps of the one who sends.
LEMMA TurnSend ==
    ASSUME TypeInv, TurnInv, NEW s \in Sender, Send(s)
    PROVE  TurnInv'
<1>t. /\ spc \in [Sender -> Sending \union {"start", "done", "failed"}]
      /\ mem \in Content /\ mem.text \in [1 .. 2 -> Cell]
  BY DEF TypeInv, TypeOK, Content
<1>1. /\ UNCHANGED <<message, rpc, cut, object>> /\ spc[s] \in Sending /\ message[s] \in Message
      /\ \A t \in Sender : t # s => spc[t] \notin Sending
  BY <1>t DEF Send, SClearSize, SClearHead, SClearTail, SBus, SSize, SHead, STail, Sending, TurnInv,
              TypeInv, Store, receivers
<1>2. PICK l \in Sending \union {"done", "failed"} : spc' = [spc EXCEPT ![s] = l]
  BY DEF Send, SClearSize, SClearHead, SClearTail, SBus, SSize, SHead, STail, GoTo, Sending
<1>3. /\ spc'[s] = l
      /\ \A t \in Sender : t # s => spc'[t] = spc[t] /\ spc'[t] \notin Sending
  BY <1>t, <1>1, <1>2
<1>4. \A p, q \in Sender : spc'[p] \in Sending /\ spc'[q] \in Sending => p = q
  BY <1>3
\* It sends, so a receiver that is clearing cuts into it.
<1>5. \A r \in Receiver : rpc'[r] = "clear_tail" => cut'
  <2>1. ~Proper
    BY <1>1 DEF Proper
  <2> QED
    BY <1>1, <2>1 DEF TurnInv
<1>6. SUFFICES /\ l = "tail" => mem'.text[1] = message[s][1]
               /\ l \notin Sending => Whole(mem'.text)
               /\ l \in {"head", "tail"} => object = "sized"
               /\ object # "sized" => mem'.text[1] = Nul
  <2>1. \A t \in Sender : spc'[t] = "tail" => mem'.text[1] \in {Nul, message'[t][1]}
    BY <1>1, <1>3, <1>6 DEF Sending
  <2>2. Proper' => Whole(mem'.text)
    BY <1>3, <1>6 DEF Proper
  <2>3. \A t \in Sender : spc'[t] \in {"head", "tail"} => object' = "sized"
    BY <1>1, <1>3, <1>6 DEF Sending
  <2>4. object' # "sized" => mem'.text[1] = Nul
    BY <1>1, <1>6
  <2> QED
    BY <1>4, <1>5, <2>1, <2>2, <2>3, <2>4 DEF TurnInv
<1>7. CASE SClearSize(s) \/ SSize(s) \/ SClearTail(s)
  <2>1. mem'.text[1] = mem.text[1] /\ l \in Sending /\ l # "tail" /\ (l = "head" => object = "sized")
    BY <1>t, <1>3, <1>7 DEF SClearSize, SSize, SClearTail, Store, GoTo, Content, Sending
  <2> QED
    BY <2>1 DEF TurnInv
<1>8. CASE SClearHead(s)
  <2>1. mem'.text[1] = Nul /\ l = "clear_tail"
    BY <1>t, <1>3, <1>8 DEF SClearHead, Store, GoTo, Content
  <2> QED
    BY <2>1 DEF Sending
<1>9. CASE SBus(s)
  <2>1. mem' = mem /\ object = "empty" /\ l = "failed"
    BY <1>t, <1>3, <1>9 DEF SBus, GoTo
  <2> QED
    BY <2>1 DEF TurnInv, Whole, Sending
<1>10. CASE SHead(s)
  <2>1. mem'.text[1] = message[s][1] /\ spc[s] = "head"
    BY <1>t, <1>10 DEF SHead, Store, Content
  <2>2. l \in {"tail", "done"} /\ (l # "tail" => Len(message[s]) # 2)
    BY <1>t, <1>3, <1>10 DEF SHead, GoTo, MoreToStore
  <2>3. Len(message[s]) # 2 => <<message[s][1]>> \in Message
    BY <1>1, OneCell
  <2>4. object = "sized"
    BY <2>1 DEF TurnInv
  <2> QED
    BY <2>1, <2>2, <2>3, <2>4 DEF Whole, Sending
<1>11. CASE STail(s)
  <2>1. /\ l = "done" /\ spc[s] = "tail" /\ mem.text[1] \in {Nul, message[s][1]}
        /\ mem'.text = [mem.text EXCEPT ![2] = IF Len(message[s]) = 2 THEN message[s][2] ELSE Nul]
    BY <1>t, <1>3, <1>11 DEF STail, Store, GoTo, TurnInv, Content
  <2>2. mem'.text[1] = mem.text[1] /\ object = "sized"
    BY <1>t, <2>1 DEF TurnInv
  <2>3. SUFFICES Whole(mem'.text)
    BY <2>1, <2>2
  <2>4. CASE mem.text[1] = Nul
    BY <2>1, <2>2, <2>4 DEF Whole
  <2>5. CASE mem.text[1] = message[s][1] /\ Len(message[s]) # 2
    <3>1. <<message[s][1]>> \in Message
      BY <1>1, <2>5, OneCell
    <3> QED
      BY <2>1, <2>2, <2>5, <3>1 DEF Whole
  <2>6. CASE mem.text[1] = message[s][1] /\ Len(message[s]) = 2
    <3>1. message[s][2] \in Cell
      BY <1>1, <2>6, Second
    <3>2. mem'.text \in [1 .. 2 -> Cell] /\ mem'.text[2] = message[s][2]
      BY <1>t, <2>1, <2>6, <3>1
    <3>3. mem'.text \in Message
      BY <1>1, <2>2, <2>6, <3>2, LongMessage
    <3> QED
      BY <3>3 DEF Whole
  <2> QED
    BY <2>1, <2>4, <2>5, <2>6
<1> QED
  BY <1>7, <1>8, <1>9, <1>10, <1>11 DEF Send

\* Careful senders take turns; a receiver only ever clears.
LEMMA TurnStep == TypeInv /\ careful /\ TurnInv /\ [Next]_vars => TurnInv'
<1> SUFFICES ASSUME TypeInv, careful, TurnInv, [Next]_vars PROVE TurnInv'
  OBVIOUS
<1>1. CASE UNCHANGED vars
  BY <1>1 DEF vars, senders, receivers, TurnInv, Whole, Short, Proper
<1>2. ASSUME NEW s \in Sender PROVE ~SKill(s)
  BY DEF SKill
<1> QED
  BY <1>1, <1>2, TurnReceive, TurnOpen, TurnSend DEF Next

\* Users who send one at a time find whole messages, or the beginning of one that
\* a receiver cut, for any messages and any receivers that start, clear and end
\* in between.
THEOREM WholeHolds == Spec => []WholeAtRest
<1> DEFINE I == careful => TurnInv
<1>1. Init => I
  BY DEF Init, TurnInv, Whole, Zero, Sending
<1>2. TypeInv /\ I /\ [Next]_vars => I'
  <2>1. TypeInv /\ [Next]_vars => UNCHANGED careful
    BY DEF Next, vars, fixed, Receive, Send, RKill, SKill, SOpen, ROpen, RSize, RClearSize, RClearHead,
           RClearTail, RNotice, RPrint, RCopyHead, RCopyTail, SClearSize, SClearHead, SClearTail, SBus,
           SSize, SHead, STail
  <2> QED
    BY <2>1, TurnStep
<1>3. TypeInv /\ I => WholeAtRest
  <2>1. ASSUME TypeInv, TurnInv, Proper PROVE Whole(mem.text) \/ (cut /\ Short(mem.text))
    BY <2>1 DEF TurnInv
  <2> QED
    BY <2>1, WholeIsShown, ShortIsShown DEF WholeAtRest
<1> QED
  BY <1>1, <1>2, <1>3, TypeInvariant, PTL DEF Spec
=============================================================================
